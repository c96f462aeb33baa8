---------------------------- MODULE RateLimitProofs ----------------------------
(***************************************************************************)
(* The rate limit tester loses no resolver, indexes nothing out of range,    *)
(* keeps the ports of a test until it is over and counts an answer for who   *)
(* asked, and its rounds are barriers, for every number of senders,          *)
(* resolvers, forwarders, subroutines and rates, every range of ports and    *)
(* every capacity of the channels.                                           *)
(***************************************************************************)
EXTENDS RateLimit, FiniteSetTheorems, SequenceTheorems, TLAPS

\* The settings stay, and with them the subroutines of every test.
LEMMA Fixed ==
    [Next]_vars => /\ Cfg' = Cfg
                   /\ \A e : Subs(e)' = Subs(e) /\ length_n(e)' = length_n(e)
<1> SUFFICES ASSUME [Next]_vars
             PROVE  /\ Cfg' = Cfg
                    /\ \A e : Subs(e)' = Subs(e) /\ length_n(e)' = length_n(e)
  OBVIOUS
<1>1. Cfg' = Cfg
  <2>1. CASE Arrival
    BY <2>1 DEF Arrival, Lookup
  <2>2. CASE \E k \in Injectors : inject_cache(k)
    BY <2>2 DEF inject_cache, Inject_take, Inject_send
  <2>3. CASE \E d \in Senders : send_packets(d)
    BY <2>3 DEF send_packets, rate_test_target, Take, Register, Exhausted, Start_round, Collect,
                Sum_up, Finish, Delete
  <2>4. CASE \E e \in Resolvers : \E i \in Subs(e) : rate_test_target_sub(e, i)
    BY <2>4 DEF rate_test_target_sub, Sub_send, calc_last_second_rate, Sub_return
  <2>5. CASE \E g \in Handlers : Record(g)
    BY <2>5 DEF Record
  <2>6. CASE write_results
    BY <2>6 DEF write_results, Write_take, Write_open, Write_file, Write_return
  <2>7. CASE Start_ratetest
    BY <2>7 DEF Start_ratetest, Injected, Stop, End
  <2>8. CASE UNCHANGED vars
    BY <2>8 DEF vars
  <2> QED
    BY <2>1, <2>2, <2>3, <2>4, <2>5, <2>6, <2>7, <2>8 DEF Next, Step
<1> QED
  BY <1>1 DEF Subs, length_n

\* A uint16 has values, and ports fit.
LEMMA WidthFact == Width \in Nat \ {0}
BY DEF Width

\* What the assumption says of one setting.
LEMMA SettingFacts ==
    ASSUME Cfg \in Configs
    PROVE  /\ Port_max \in 1 .. Width - 1 /\ Cfg.Port_min \in 0 .. Port_max - 1
           /\ Cfg.curve \in Nat \ {0} /\ Cfg.routines \subseteq Senders
           /\ RetCap \in Nat \ {0} /\ FinCap \in Nat \ {0}
           /\ Cfg.concurrent \in BOOLEAN
           /\ Cfg.subroutines \in Nat \ {0}
           /\ Cfg.fwds \in [Resolvers -> 0 .. MaxPool] /\ MaxPool \in Nat
<1>1. Cfg \in Settings /\ Port_max \in 1 .. Width - 1 /\ MaxPool \in Nat
      /\ RetCap \in Nat \ {0} /\ FinCap \in Nat \ {0}
  BY ConfigAssumption
<1>2. /\ Cfg.Port_min \in 0 .. Port_max - 1 /\ Cfg.curve \in Nat \ {0}
      /\ Cfg.routines \subseteq Senders
      /\ Cfg.subroutines \in Nat \ {0} /\ Cfg.fwds \in [Resolvers -> 0 .. MaxPool]
      /\ Cfg.concurrent \in BOOLEAN
  BY <1>1 DEF Settings
<1> QED
  BY <1>1, <1>2

\* A test has as many subroutines as fit between the ports, and one at least.
LEMMA LengthFacts ==
    ASSUME Cfg \in Configs, NEW e \in Resolvers
    PROVE  /\ length_n(e) \in Nat
           /\ Cfg.concurrent => length_n(e) <= Port_max - Cfg.Port_min + 1
           /\ e \in Input => length_n(e) # 0
<1>1. Cfg.fwds[e] \in Nat /\ Cfg.subroutines \in Nat \ {0}
  BY SettingFacts
<1>2. Cfg.fwds[e] <= Port_max - Cfg.Port_min + 1
  BY ConfigAssumption
<1>3. e \in Input => Cfg.fwds[e] > 0
  BY DEF Input
<1> QED
  BY <1>1, <1>2, <1>3 DEF length_n

roundState == <<subid_pool, chan_count, ret_chan, rate_pos, acc_rate_data, subpc,
                rate_curve_pair>>
answerState == <<asked, first_response, handlerVars>>
writerState == <<finished_resolvers, writerVars, open_writer>>

\* Whose steps change which variables.
LEMMA Movers ==
    [Next]_vars =>
        /\ \/ \E k \in Injectors : inject_cache(k)
           \/ Start_ratetest
           \/ UNCHANGED <<main, injectVars>>
        /\ (\E d \in Senders : Take(d) \/ Delete(d)) \/ UNCHANGED <<listVars, active_resolvers>>
        /\ (\E d \in Senders : send_packets(d)) \/ UNCHANGED senderVars
        /\ \/ \E d \in Senders : rate_test_target(d)
           \/ \E e \in Resolvers : \E i \in Subs(e) : rate_test_target_sub(e, i)
           \/ UNCHANGED roundState
        /\ \/ Arrival
           \/ \E e \in Resolvers : \E i \in Subs(e) : rate_test_target_sub(e, i)
           \/ \E g \in Handlers : Record(g)
           \/ \E k \in Injectors : Inject_send(k)
           \/ UNCHANGED answerState
        /\ (\E d \in Senders : Finish(d)) \/ write_results \/ Stop \/ UNCHANGED writerState
<1> SUFFICES ASSUME [Next]_vars
             PROVE  /\ \/ \E k \in Injectors : inject_cache(k)
                       \/ Start_ratetest
                       \/ UNCHANGED <<main, injectVars>>
                    /\ \/ \E d \in Senders : Take(d) \/ Delete(d)
                       \/ UNCHANGED <<listVars, active_resolvers>>
                    /\ (\E d \in Senders : send_packets(d)) \/ UNCHANGED senderVars
                    /\ \/ \E d \in Senders : rate_test_target(d)
                       \/ \E e \in Resolvers : \E i \in Subs(e) : rate_test_target_sub(e, i)
                       \/ UNCHANGED roundState
                    /\ \/ Arrival
                       \/ \E e \in Resolvers : \E i \in Subs(e) : rate_test_target_sub(e, i)
                       \/ \E g \in Handlers : Record(g)
                       \/ \E k \in Injectors : Inject_send(k)
                       \/ UNCHANGED answerState
                    /\ \/ \E d \in Senders : Finish(d)
                       \/ write_results \/ Stop
                       \/ UNCHANGED writerState
  OBVIOUS
<1> USE DEF roundState, answerState, writerState
<1>1. CASE Arrival
  BY <1>1 DEF Arrival, Lookup, injectVars, listVars, senderVars, roundVars, writerVars,
              subVars
<1>2. CASE \E k \in Injectors : inject_cache(k)
  BY <1>2 DEF inject_cache, Inject_take, Inject_send, listVars, senderVars, roundVars,
              subVars, handlerVars, writerVars
<1>3. CASE \E d \in Senders : Take(d) \/ Exhausted(d) \/ Finish(d) \/ Delete(d)
  BY <1>3 DEF send_packets, Take, Register, Exhausted, Finish, Delete, injectVars, listVars,
              roundVars, subVars, handlerVars, writerVars
<1>4. CASE \E d \in Senders : rate_test_target(d)
  BY <1>4 DEF send_packets, rate_test_target, Start_round, Collect, Sum_up, injectVars,
              listVars, subVars, handlerVars, writerVars
<1>5. CASE \E e \in Resolvers : \E i \in Subs(e) : rate_test_target_sub(e, i)
  BY <1>5 DEF rate_test_target_sub, Sub_send, calc_last_second_rate, Sub_return, injectVars,
              listVars, senderVars, writerVars
<1>6. CASE \E g \in Handlers : Record(g)
  BY <1>6 DEF Record, injectVars, listVars, senderVars, roundVars, writerVars, subVars
<1>7. CASE write_results
  BY <1>7 DEF write_results, Write_take, Write_open, Write_file, Write_return, injectVars,
              listVars, senderVars, roundVars, subVars, handlerVars
<1>8. CASE Start_ratetest
  BY <1>8 DEF Start_ratetest, Injected, Stop, End, injectVars, listVars, senderVars,
              roundVars, subVars, handlerVars, writerVars
<1>9. CASE UNCHANGED vars
  BY <1>9 DEF vars, injectVars, listVars, senderVars, roundVars, subVars, handlerVars,
              writerVars
<1> QED
  BY <1>1, <1>2, <1>3, <1>4, <1>5, <1>6, <1>7, <1>8, <1>9 DEF Next, Step, send_packets

-----------------------------------------------------------------------------
(***************************************************************************)
(* Type correctness.                                                        *)
(***************************************************************************)
LEMMA InitTyped == Init => TypeOK
<1> SUFFICES ASSUME Init PROVE TypeOK
  OBVIOUS
<1>0. Cfg \in Configs
  BY DEF Init
<1>1. InjectionTypes
  BY DEF Init, InjectionTypes, Input
<1>2. ListTypes
  <2>1. current_port = Cfg.Port_min /\ resolver_data = Input /\ DOMAIN active_resolvers = {}
        /\ outport = [e \in Resolvers |-> 0] /\ given = [e \in Resolvers |-> 0]
    BY DEF Init
  <2> QED
    BY <1>0, <2>1, SettingFacts, WidthFact DEF ListTypes, Input
<1>3. SenderTypes
  BY DEF Init, SenderTypes
<1>4. RoundTypes
  <2>1. /\ DOMAIN subid_pool = Resolvers /\ chan_count \in [Resolvers -> Nat]
        /\ rate_pos \in [Resolvers -> Nat]
        /\ DOMAIN ret_chan = Resolvers /\ DOMAIN acc_rate_data = Resolvers
        /\ DOMAIN subpc = Resolvers /\ DOMAIN rate_curve_pair = Resolvers
    BY DEF Init
  <2>2. ASSUME NEW e \in Resolvers
        PROVE  /\ subid_pool[e] = {} /\ ret_chan[e] = <<>> /\ acc_rate_data[e] = <<>>
               /\ subpc[e] = [i \in Subs(e) |-> "idle"]
               /\ rate_curve_pair[e] = [i \in Subs(e) |-> <<>>]
    BY DEF Init
  <2>3. RetCap \in Nat
    BY ConfigAssumption
  <2>4. ASSUME NEW e \in Resolvers
        PROVE  /\ subid_pool[e] \subseteq Subs(e)
               /\ ret_chan[e] \in Seq(Subs(e) \cup {-1}) /\ Len(ret_chan[e]) <= RetCap
               /\ acc_rate_data[e] \in Seq(SUBSET (Subs(e) \X Nat))
               /\ subpc[e] \in [Subs(e) -> {"idle", "send", "calc", "return", "return_none"}]
               /\ rate_curve_pair[e] \in [Subs(e) -> Seq(Nat)]
    <3>1. subid_pool[e] \subseteq Subs(e)
      BY <2>2
    <3>2. ret_chan[e] \in Seq(Subs(e) \cup {-1}) /\ Len(ret_chan[e]) <= RetCap
      <4>1. <<>> \in Seq(Subs(e) \cup {-1})
        BY EmptySeq
      <4>2. ret_chan[e] = <<>>
        BY <2>2
      <4>3. Len(ret_chan[e]) <= RetCap
        BY <2>3, <4>2
      <4> QED
        BY <4>1, <4>2, <4>3
    <3>3. acc_rate_data[e] \in Seq(SUBSET (Subs(e) \X Nat))
      BY <2>2, EmptySeq
    <3>4. subpc[e] \in [Subs(e) -> {"idle", "send", "calc", "return", "return_none"}]
      BY <2>2
    <3>5. rate_curve_pair[e] \in [Subs(e) -> Seq(Nat)]
      <4>1. <<>> \in Seq(Nat)
        BY EmptySeq
      <4> QED
        BY <2>2, <4>1
    <3> QED
      BY <3>1, <3>2, <3>3, <3>4, <3>5
  <2> QED
    BY <2>1, <2>4 DEF RoundTypes
<1>5. AnswerTypes
  BY WidthFact DEF Init, AnswerTypes, SubIds
<1>6. WriterTypes
  BY ConfigAssumption DEF Init, WriterTypes
<1> QED
  BY <1>0, <1>1, <1>2, <1>3, <1>4, <1>5, <1>6 DEF TypeOK

LEMMA InjectionTyped == TypeOK /\ [Next]_vars => InjectionTypes'
<1> SUFFICES ASSUME TypeOK, [Next]_vars PROVE InjectionTypes'
  OBVIOUS
<1>0. InjectionTypes
  BY DEF TypeOK
<1>1. ASSUME NEW k \in Injectors, inject_cache(k) PROVE InjectionTypes'
  <2>1. CASE Inject_take(k)
    BY <1>0, <2>1 DEF Inject_take, InjectionTypes
  <2>2. CASE Inject_send(k)
    BY <1>0, <2>2 DEF Inject_send, InjectionTypes
  <2> QED
    BY <1>1, <2>1, <2>2 DEF inject_cache
<1>2. CASE Start_ratetest
  BY <1>0, <1>2 DEF Start_ratetest, Injected, Stop, End, InjectionTypes, injectVars
<1>3. CASE UNCHANGED <<main, injectVars>>
  BY <1>0, <1>3 DEF InjectionTypes, injectVars
<1> QED
  BY <1>1, <1>2, <1>3, Movers

LEMMA ListTyped == TypeOK /\ [Next]_vars => ListTypes'
<1> SUFFICES ASSUME TypeOK, [Next]_vars PROVE ListTypes'
  OBVIOUS
<1>0. ListTypes /\ Cfg \in Configs /\ Cfg' = Cfg
  BY Fixed DEF TypeOK
<1>1. ASSUME NEW d \in Senders, Take(d) PROVE ListTypes'
  <2>1. PICK e \in resolver_data : Register(e)
    BY <1>1 DEF Take
  <2>2. e \in Resolvers /\ current_port \in Nat /\ Port_max \in Nat /\ Cfg.Port_min \in Nat
        /\ current_port \in Cfg.Port_min .. Port_max /\ Cfg.Port_min <= Port_max - 1
    BY <1>0, SettingFacts, WidthFact DEF ListTypes
  <2>3. Advance(e) \in Nat /\ Advance(e) <= Port_max - Cfg.Port_min + 1
    BY <1>0, <2>2, LengthFacts DEF Advance
  <2>4. current_port' \in Cfg.Port_min .. Port_max
    BY <2>1, <2>2, <2>3 DEF Next_port, Register
  <2>5. resolver_data' \in SUBSET Resolvers
    BY <1>0, <2>1 DEF Rest, ListTypes, Register
  <2>6. outport' \in [Resolvers -> 0 .. Width - 1]
    <3>1. current_port % Width \in 0 .. Width - 1
      BY <2>2, WidthFact
    <3> QED
      BY <1>0, <2>1, <3>1 DEF ListTypes, Register
  <2>7. given' \in [Resolvers -> Nat]
    BY <1>0, <2>1, <2>3 DEF ListTypes, Register
  <2>8. Ports(e, current_port) \subseteq 0 .. Width - 1
    <3>1. \A i \in Subs(e) : i \in Nat
      BY DEF Subs
    <3>2. \A i \in Subs(e) : (current_port + i) % Width \in 0 .. Width - 1
      BY <2>2, <3>1, WidthFact
    <3> QED
      BY <3>2 DEF Ports, Port
  <2>9. /\ DOMAIN active_resolvers' \subseteq 0 .. Width - 1
        /\ \A p \in DOMAIN active_resolvers' : active_resolvers'[p] \in Resolvers
    BY <1>0, <2>1, <2>2, <2>8 DEF ListTypes, Register
  <2> QED
    BY <1>0, <2>4, <2>5, <2>6, <2>7, <2>9 DEF ListTypes
<1>2. ASSUME NEW d \in Senders, Delete(d) PROVE ListTypes'
  BY <1>0, <1>2 DEF Delete, ListTypes, listVars
<1>3. CASE UNCHANGED <<listVars, active_resolvers>>
  BY <1>0, <1>3 DEF ListTypes, listVars
<1> QED
  BY <1>1, <1>2, <1>3, Movers

LEMMA SenderTyped == TypeOK /\ [Next]_vars => SenderTypes'
<1> SUFFICES ASSUME TypeOK, [Next]_vars PROVE SenderTypes'
  OBVIOUS
<1>0. SenderTypes /\ ListTypes
  BY DEF TypeOK
<1>1. ASSUME NEW d \in Senders, send_packets(d) PROVE SenderTypes'
  <2>1. CASE Take(d)
    BY <1>0, <2>1 DEF Take, SenderTypes, ListTypes
  <2>2. CASE Exhausted(d)
    BY <1>0, <2>2 DEF Exhausted, SenderTypes
  <2>3. CASE rate_test_target(d)
    BY <1>0, <2>3 DEF rate_test_target, Start_round, Collect, Sum_up, SenderTypes
  <2>4. CASE Finish(d)
    BY <1>0, <2>4 DEF Finish, SenderTypes
  <2>5. CASE Delete(d)
    BY <1>0, <2>5 DEF Delete, SenderTypes
  <2> QED
    BY <1>1, <2>1, <2>2, <2>3, <2>4, <2>5 DEF send_packets
<1>2. CASE UNCHANGED senderVars
  BY <1>0, <1>2 DEF SenderTypes, senderVars
<1> QED
  BY <1>1, <1>2, Movers

LEMMA RoundTyped == TypeOK /\ [Next]_vars => RoundTypes'
<1> SUFFICES ASSUME TypeOK, [Next]_vars PROVE RoundTypes'
  OBVIOUS
<1>0. RoundTypes /\ SenderTypes
  BY DEF TypeOK
<1>m. \A e : Subs(e)' = Subs(e)
  BY Fixed
<1>1. ASSUME NEW d \in Senders, rate_test_target(d) PROVE RoundTypes'
  <2> DEFINE e == sentry[d]
  <2>0. spc[d] \in {"round", "collect", "sum"}
    BY <1>1 DEF rate_test_target, Start_round, Collect, Sum_up
  <2>1. e \in Resolvers
    BY <1>0, <2>0 DEF SenderTypes
  <2>2. CASE Start_round(d)
    <3>1. /\ subpc' = [subpc EXCEPT ![e] = [i \in Subs(e) |->
                           IF i \in subid_pool[e] THEN "idle" ELSE "send"]]
          /\ chan_count' = [chan_count EXCEPT ![e] = 0]
          /\ UNCHANGED <<subid_pool, rate_pos, acc_rate_data, ret_chan, rate_curve_pair>>
      BY <2>2 DEF Start_round, subVars
    <3> QED
      BY <1>0, <1>m, <2>1, <3>1 DEF RoundTypes
  <2>3. CASE Collect(d)
    <3> DEFINE subid == Head(ret_chan[e])
               pool == IF subid # -1 THEN subid_pool[e] \cup {subid} ELSE subid_pool[e]
               count == IF subid = -1 THEN chan_count[e] + 1 ELSE chan_count[e]
    <3>1. /\ ret_chan[e] # <<>>
          /\ subid_pool' = [subid_pool EXCEPT ![e] = pool]
          /\ chan_count' = [chan_count EXCEPT ![e] = count]
          /\ ret_chan' = [ret_chan EXCEPT ![e] = Tail(ret_chan[e])]
          /\ UNCHANGED <<rate_pos, acc_rate_data, subpc, rate_curve_pair>>
      BY <2>3 DEF Collect, subVars
    <3>2. /\ subid \in Subs(e) \cup {-1}
          /\ Tail(ret_chan[e]) \in Seq(Subs(e) \cup {-1})
          /\ Len(Tail(ret_chan[e])) <= RetCap
      <4>1. ret_chan[e] \in Seq(Subs(e) \cup {-1}) /\ Len(ret_chan[e]) <= RetCap
            /\ Len(ret_chan[e]) \in Nat /\ RetCap \in Nat
        BY <1>0, <2>1, ConfigAssumption, LenProperties DEF RoundTypes
      <4> HIDE DEF e
      <4> QED
        BY <3>1, <4>1, HeadTailProperties
    <3>3. pool \subseteq Subs(e) /\ count \in Nat
      <4>1. subid_pool[e] \subseteq Subs(e) /\ chan_count[e] \in Nat
        BY <1>0, <2>1 DEF RoundTypes
      <4> HIDE DEF e, subid
      <4> QED
        BY <3>2, <4>1
    <3> HIDE DEF e, subid, pool, count
    <3> QED
      BY <1>0, <1>m, <2>1, <3>1, <3>2, <3>3 DEF RoundTypes
  <2>4. CASE Sum_up(d)
    <3> DEFINE row == {<<i, rate_curve_pair[e][i][rate_pos[e] + 1]>> : i \in Measured(e)}
    <3>1. /\ acc_rate_data' = [acc_rate_data EXCEPT ![e] = Append(acc_rate_data[e], row)]
          /\ rate_pos' = rate_pos \/ rate_pos' = [rate_pos EXCEPT ![e] = rate_pos[e] + 1]
          /\ UNCHANGED <<subid_pool, chan_count, ret_chan, subpc, rate_curve_pair>>
      BY <2>4 DEF Sum_up, subVars
    <3>2. row \in SUBSET (Subs(e) \X Nat)
      <4>1. ASSUME NEW i \in Measured(e)
            PROVE  i \in Subs(e) /\ rate_curve_pair[e][i][rate_pos[e] + 1] \in Nat
        <5>1. i \in Subs(e) /\ Len(rate_curve_pair[e][i]) > rate_pos[e]
              /\ rate_pos[e] \in Nat /\ rate_curve_pair[e][i] \in Seq(Nat)
          BY <1>0, <2>1 DEF Measured, RoundTypes
        <5>2. Len(rate_curve_pair[e][i]) \in Nat
          BY <5>1
        <5>3. rate_pos[e] + 1 \in 1 .. Len(rate_curve_pair[e][i])
          BY <5>1, <5>2
        <5> QED
          BY <5>1, <5>3, ElementOfSeq
      <4> QED
        BY <4>1
    <3>3. Append(acc_rate_data[e], row) \in Seq(SUBSET (Subs(e) \X Nat))
      <4> DEFINE T == SUBSET (Subs(e) \X Nat)
      <4>1. acc_rate_data[e] \in Seq(T)
        BY <1>0, <2>1 DEF RoundTypes
      <4>2. row \in T
        BY <3>2
      <4> HIDE DEF row, T, e
      <4>3. Append(acc_rate_data[e], row) \in Seq(T)
        BY <4>1, <4>2, AppendProperties
      <4> QED
        BY <4>3 DEF T
    <3> HIDE DEF e, row
    <3>4. rate_pos' \in [Resolvers -> Nat]
      <4>1. rate_pos \in [Resolvers -> Nat] /\ rate_pos[e] + 1 \in Nat
        BY <1>0, <2>1 DEF RoundTypes
      <4>2. CASE rate_pos' = rate_pos
        BY <4>1, <4>2
      <4>3. CASE rate_pos' = [rate_pos EXCEPT ![e] = rate_pos[e] + 1]
        BY <4>1, <4>3
      <4> QED
        BY <3>1, <4>2, <4>3
    <3>5. DOMAIN acc_rate_data' = Resolvers
          /\ \A r \in Resolvers : acc_rate_data'[r] \in Seq(SUBSET (Subs(r) \X Nat))
      BY <1>0, <2>1, <3>1, <3>3 DEF RoundTypes
    <3> QED
      BY <1>0, <1>m, <3>1, <3>4, <3>5 DEF RoundTypes
  <2> QED
    BY <1>1, <2>2, <2>3, <2>4 DEF rate_test_target
<1>2. ASSUME NEW e \in Resolvers, NEW i \in Subs(e), rate_test_target_sub(e, i)
      PROVE  RoundTypes'
  <2>1. CASE Sub_send(e, i)
    BY <1>0, <1>m, <2>1 DEF Sub_send, Sub_goto, RoundTypes, roundVars
  <2>2. CASE calc_last_second_rate(e, i)
    <3>1. Append(rate_curve_pair[e][i], rate_pos[e]) \in Seq(Nat)
      <4>1. rate_curve_pair[e][i] \in Seq(Nat) /\ rate_pos[e] \in Nat
        BY <1>0 DEF RoundTypes
      <4> QED
        BY <4>1, AppendProperties
    <3>2. PICK l \in {"return", "return_none"} : Sub_goto(e, i, l)
      BY <2>2 DEF calc_last_second_rate
    <3>3. /\ rate_curve_pair' = [rate_curve_pair EXCEPT ![e][i] =
                                     Append(rate_curve_pair[e][i], rate_pos[e])]
          /\ UNCHANGED <<subid_pool, chan_count, rate_pos, acc_rate_data, ret_chan>>
      BY <2>2 DEF calc_last_second_rate, roundVars
    <3> QED
      BY <1>0, <1>m, <3>1, <3>2, <3>3 DEF Sub_goto, RoundTypes
  <2>3. CASE Sub_return(e, i)
    <3>1. PICK subid \in Verdicts(e, i) :
            ret_chan' = [ret_chan EXCEPT ![e] = Append(ret_chan[e], subid)]
      BY <2>3 DEF Sub_return
    <3>2. subid \in Subs(e) \cup {-1}
      BY <3>1 DEF Verdicts
    <3>3. /\ Append(ret_chan[e], subid) \in Seq(Subs(e) \cup {-1})
          /\ Len(Append(ret_chan[e], subid)) <= RetCap
      <4>1. ret_chan[e] \in Seq(Subs(e) \cup {-1}) /\ RetCap \in Nat
        BY <1>0, ConfigAssumption DEF RoundTypes
      <4>2. Len(ret_chan[e]) < RetCap
        BY <2>3 DEF Sub_return
      <4> QED
        BY <3>2, <4>1, <4>2, AppendProperties
    <3>4. /\ Sub_goto(e, i, "idle")
          /\ UNCHANGED <<subid_pool, chan_count, rate_pos, acc_rate_data, rate_curve_pair>>
      BY <2>3 DEF Sub_return, roundVars, subVars
    <3> QED
      BY <1>0, <1>m, <3>1, <3>3, <3>4 DEF Sub_goto, RoundTypes
  <2> QED
    BY <1>2, <2>1, <2>2, <2>3 DEF rate_test_target_sub
<1>3. CASE UNCHANGED roundState
  BY <1>0, <1>m, <1>3 DEF RoundTypes, roundState
<1> QED
  BY <1>1, <1>2, <1>3, Movers

LEMMA AnswerTyped == TypeOK /\ [Next]_vars => AnswerTypes'
<1> SUFFICES ASSUME TypeOK, [Next]_vars PROVE AnswerTypes'
  OBVIOUS
<1>0. AnswerTypes /\ ListTypes /\ Cfg \in Configs /\ Port_max \in Nat
      /\ Cfg.Port_min \in Nat /\ Cfg.Port_min < Port_max /\ Port_max < Width
  BY SettingFacts, WidthFact DEF TypeOK
<1>m. \A e : Subs(e)' = Subs(e)
  BY Fixed
<1>1. ASSUME NEW g \in Handlers, NEW q \in asked, Lookup(g, q) PROVE AnswerTypes'
  <2>1. q.port \in DOMAIN active_resolvers /\ q \in Queries
    BY <1>0, <1>1 DEF Lookup, AnswerTypes
  <2> DEFINE e == active_resolvers[q.port]
  <2>2. e \in Resolvers /\ outport[e] \in Int /\ q.port \in Int
    BY <1>0, <2>1, WidthFact DEF ListTypes, Queries
  <2>3. Sub_of(q.port, e) \in SubIds
    BY <2>2, WidthFact DEF Sub_of, SubIds
  <2>4. /\ hentry' = [hentry EXCEPT ![g] = e]
        /\ hsub' = [hsub EXCEPT ![g] = Sub_of(q.port, e)]
        /\ hpkt' = [hpkt EXCEPT ![g] = q]
        /\ hpc' = [hpc EXCEPT ![g] = "record"]
        /\ UNCHANGED <<asked, first_response>>
    BY <1>1 DEF Lookup, subVars
  <2> HIDE DEF e
  <2> QED
    BY <1>0, <1>m, <2>1, <2>2, <2>3, <2>4 DEF AnswerTypes
<1>2. ASSUME NEW e \in Resolvers, NEW i \in Subs(e), rate_test_target_sub(e, i)
      PROVE  AnswerTypes'
  <2>1. CASE Sub_send(e, i)
    <3>1. outport[e] \in Nat /\ i \in Nat
      BY <1>0, WidthFact DEF ListTypes, Subs
    <3>2. Sub_port(e, i) \in 0 .. Width - 1
      <4>1. (outport[e] - Cfg.Port_min + i) % (Port_max - Cfg.Port_min)
              \in 0 .. (Port_max - Cfg.Port_min) - 1
        BY <1>0, <3>1
      <4> QED
        BY <1>0, <4>1, WidthFact DEF Sub_port
    <3> DEFINE q == [port |-> Sub_port(e, i), entry |-> e, sub |-> i]
    <3>3. q \in Queries
      BY <3>1, <3>2 DEF Queries
    <3>4. asked' = asked \cup {q} /\ UNCHANGED <<first_response, handlerVars>>
      BY <2>1 DEF Sub_send
    <3> HIDE DEF q
    <3> QED
      BY <1>0, <1>m, <3>3, <3>4 DEF AnswerTypes, handlerVars
  <2>2. CASE calc_last_second_rate(e, i)
    BY <1>0, <1>m, <2>2 DEF calc_last_second_rate, AnswerTypes, handlerVars
  <2>3. CASE Sub_return(e, i)
    BY <1>0, <1>m, <2>3 DEF Sub_return, AnswerTypes, handlerVars, subVars
  <2> QED
    BY <1>2, <2>1, <2>2, <2>3 DEF rate_test_target_sub
<1>3. ASSUME NEW g \in Handlers, Record(g) PROVE AnswerTypes'
  <2>1. 0 \in SubIds
    BY WidthFact DEF SubIds
  <2> QED
    BY <1>0, <1>m, <1>3, <2>1 DEF Record, AnswerTypes, subVars
<1>4. CASE UNCHANGED answerState
  BY <1>0, <1>m, <1>4 DEF AnswerTypes, answerState, handlerVars
<1>5. ASSUME NEW k \in Injectors, Inject_send(k) PROVE AnswerTypes'
  <2>1. ientry[k] \in Resolvers /\ current_port \in 0 .. Width - 1
    BY <1>0, <1>5, WidthFact DEF Inject_send, TypeOK, InjectionTypes, ListTypes
  <2> DEFINE q == [port |-> current_port, entry |-> ientry[k], sub |-> No_sub]
  <2>2. q \in Queries
    BY <2>1 DEF Queries
  <2>3. asked' = asked \cup {q} /\ UNCHANGED <<first_response, handlerVars>>
    BY <1>5 DEF Inject_send
  <2> HIDE DEF q
  <2> QED
    BY <1>0, <1>m, <2>2, <2>3 DEF AnswerTypes, handlerVars
<1> QED
  BY <1>1, <1>2, <1>3, <1>4, <1>5, Movers DEF Arrival

LEMMA WriterTyped == TypeOK /\ [Next]_vars => WriterTypes'
<1> SUFFICES ASSUME TypeOK, [Next]_vars PROVE WriterTypes'
  OBVIOUS
<1>0. WriterTypes /\ SenderTypes
  BY DEF TypeOK
<1>1. ASSUME NEW d \in Senders, Finish(d) PROVE WriterTypes'
  <2>1. sentry[d] \in Resolvers /\ finished_resolvers \in Seq(Resolvers)
        /\ Len(finished_resolvers) < FinCap /\ FinCap \in Nat
        /\ finished_resolvers' = Append(finished_resolvers, sentry[d])
    BY <1>0, <1>1, ConfigAssumption DEF Finish, SenderTypes, WriterTypes
  <2>2. finished_resolvers' \in Seq(Resolvers) /\ Len(finished_resolvers') <= FinCap
    BY <2>1, AppendProperties
  <2> QED
    BY <1>0, <1>1, <2>2 DEF Finish, WriterTypes, writerVars
<1>2. CASE Write_take
  <2>1. finished_resolvers \in Seq(Resolvers) /\ finished_resolvers # <<>>
        /\ Len(finished_resolvers) <= FinCap /\ FinCap \in Nat
        /\ Len(finished_resolvers) \in Nat
    BY <1>0, <1>2, ConfigAssumption, LenProperties DEF Write_take, WriterTypes
  <2>2. /\ Head(finished_resolvers) \in Resolvers
        /\ Tail(finished_resolvers) \in Seq(Resolvers)
        /\ Len(Tail(finished_resolvers)) <= FinCap
    BY <2>1, HeadTailProperties
  <2> QED
    BY <1>0, <1>2, <2>2, NamesAssumption DEF Write_take, WriterTypes
<1>3. CASE Write_open \/ Write_file \/ Write_return
  BY <1>0, <1>3 DEF Write_open, Write_file, Write_return, WriterTypes
<1>4. CASE Stop
  BY <1>0, <1>4 DEF Stop, WriterTypes, writerVars
<1>5. CASE UNCHANGED writerState
  BY <1>0, <1>5 DEF WriterTypes, writerState, writerVars
<1> QED
  BY <1>1, <1>2, <1>3, <1>4, <1>5, Movers DEF write_results

LEMMA NextTyped == TypeOK /\ [Next]_vars => TypeOK'
<1> SUFFICES ASSUME TypeOK, [Next]_vars PROVE TypeOK'
  OBVIOUS
<1>1. (Cfg \in Configs)'
  BY Fixed DEF TypeOK
<1> QED
  BY <1>1, InjectionTyped, ListTyped, SenderTyped, RoundTyped, AnswerTyped, WriterTyped
  DEF TypeOK

\* Every variable of the rate limit tester keeps its type: the ports stay in their
\* range, a channel is never over its capacity, a sender under way has a resolver.
THEOREM TypeCorrect == Spec => []TypeOK
<1> QED
  BY InitTyped, NextTyped, PTL DEF Spec

-----------------------------------------------------------------------------
(***************************************************************************)
(* Ports lead to subroutines their test has.                                *)
(***************************************************************************)
\* A port that is registered is one of the block of its test, which has left the
\* list, so that its block does not change any more.
PortOfBlock ==
    \A p \in DOMAIN active_resolvers :
        /\ active_resolvers[p] \notin resolver_data
        /\ p \in Block(active_resolvers[p])

HandlersOfTests == \A g \in Handlers : hpc[g] = "record" => hsub[g] \in Subs(hentry[g])

\* Differences modulo W.
LEMMA ModSmall ==
    ASSUME NEW W \in Nat, NEW n \in Nat, n < W
    PROVE  n % W = n
BY SMT

LEMMA ModBack ==
    ASSUME NEW W \in Nat, NEW a \in Nat, a < W, NEW n \in Nat
    PROVE  /\ (((a + n) % W) - a) % W <= n
           /\ (((a + n) % W) - a) % W \in Nat
BY SMT

\* A port of the block, taken back, is the subroutine, or one before it when there
\* are more subroutines than a uint16 has values.
LEMMA SubOfBlock ==
    ASSUME Cfg \in Configs, NEW e \in Resolvers, outport[e] \in 0 .. Width - 1,
           NEW p \in Block(e)
    PROVE  Sub_of(p, e) \in Subs(e)
<1>1. PICK i \in Subs(e) : p = (outport[e] + i) % Width
  BY DEF Block, Ports, Port
<1>2. length_n(e) \in Nat
  BY LengthFacts
<1>3. i \in Nat /\ i <= length_n(e) - 1
  BY <1>2 DEF Subs
<1>4. outport[e] \in Nat /\ outport[e] < Width /\ Width \in Nat
  BY WidthFact
<1>5. Sub_of(p, e) \in Nat /\ Sub_of(p, e) <= i
  BY <1>1, <1>3, <1>4, ModBack DEF Sub_of
<1> QED
  BY <1>2, <1>3, <1>5 DEF Subs

LEMMA BlocksInRange == TypeOK /\ PortOfBlock /\ HandlersOfTests => SubInRange
<1> SUFFICES ASSUME TypeOK, PortOfBlock, HandlersOfTests PROVE SubInRange
  OBVIOUS
<1>1. ASSUME NEW p \in DOMAIN active_resolvers
      PROVE  Sub_of(p, active_resolvers[p]) \in Subs(active_resolvers[p])
  BY SubOfBlock DEF PortOfBlock, TypeOK, ListTypes
<1> QED
  BY <1>1 DEF SubInRange, HandlersOfTests

LEMMA NextPorts == TypeOK /\ PortOfBlock /\ [Next]_vars => PortOfBlock'
<1> SUFFICES ASSUME TypeOK, PortOfBlock, [Next]_vars PROVE PortOfBlock'
  OBVIOUS
<1>0. ListTypes /\ Cfg \in Configs
  BY DEF TypeOK
<1>m. \A e : Subs(e)' = Subs(e)
  BY Fixed
<1>1. ASSUME NEW d \in Senders, Take(d) PROVE PortOfBlock'
  <2>1. PICK e \in resolver_data : Register(e)
    BY <1>1 DEF Take
  <2>2. /\ resolver_data' = resolver_data \ {e}
        /\ outport' = [outport EXCEPT ![e] = current_port]
        /\ DOMAIN active_resolvers' = DOMAIN active_resolvers \cup Ports(e, current_port)
        /\ \A p \in DOMAIN active_resolvers' :
              active_resolvers'[p] = IF p \in Ports(e, current_port)
                                     THEN e ELSE active_resolvers[p]
    <3>1. current_port % Width = current_port
      <4>1. /\ current_port \in Cfg.Port_min .. Port_max
            /\ Cfg.Port_min \in Nat /\ Port_max \in Nat /\ Port_max < Width
        BY <1>0, SettingFacts, WidthFact DEF ListTypes
      <4>2. current_port \in Nat /\ current_port < Width /\ Width \in Nat
        BY <4>1, WidthFact
      <4> QED
        BY <4>2, ModSmall
    <3> QED
      BY <2>1, <3>1 DEF Register, Rest
  <2>3. e \in Resolvers
    BY <1>0 DEF ListTypes
  <2>4. ASSUME NEW p \in DOMAIN active_resolvers'
        PROVE  /\ active_resolvers'[p] \notin resolver_data'
               /\ p \in Ports(active_resolvers'[p], outport'[active_resolvers'[p]])
    <3>1. CASE p \in Ports(e, current_port)
      BY <1>0, <2>2, <2>3, <3>1 DEF ListTypes
    <3>2. CASE p \notin Ports(e, current_port)
      <4>1. p \in DOMAIN active_resolvers /\ active_resolvers'[p] = active_resolvers[p]
        BY <2>2, <3>2
      <4>2. active_resolvers[p] # e /\ active_resolvers[p] \in Resolvers
        BY <1>0, <4>1 DEF PortOfBlock, ListTypes
      <4> QED
        BY <1>0, <2>2, <4>1, <4>2 DEF PortOfBlock, ListTypes, Block
    <3> QED
      BY <3>1, <3>2
  <2> QED
    BY <1>m, <2>4 DEF PortOfBlock, Block, Ports
<1>2. ASSUME NEW d \in Senders, Delete(d) PROVE PortOfBlock'
  <2>1. /\ DOMAIN active_resolvers' \subseteq DOMAIN active_resolvers
        /\ \A p \in DOMAIN active_resolvers' : active_resolvers'[p] = active_resolvers[p]
        /\ UNCHANGED listVars
    BY <1>2 DEF Delete
  <2> QED
    BY <1>m, <2>1 DEF PortOfBlock, Block, Ports, listVars
<1>3. CASE UNCHANGED <<listVars, active_resolvers>>
  BY <1>m, <1>3 DEF PortOfBlock, Block, Ports, listVars
<1> QED
  BY <1>1, <1>2, <1>3, Movers

LEMMA NextHandlers ==
    TypeOK /\ PortOfBlock /\ HandlersOfTests /\ [Next]_vars => HandlersOfTests'
<1> SUFFICES ASSUME TypeOK, PortOfBlock, HandlersOfTests, [Next]_vars
             PROVE  HandlersOfTests'
  OBVIOUS
<1>0. AnswerTypes
  BY DEF TypeOK
<1>m. \A e : Subs(e)' = Subs(e)
  BY Fixed
<1>1. ASSUME NEW g \in Handlers, NEW q \in asked, Lookup(g, q) PROVE HandlersOfTests'
  <2> DEFINE e == active_resolvers[q.port]
  <2>1. q.port \in DOMAIN active_resolvers
    BY <1>1 DEF Lookup
  <2>2. Sub_of(q.port, e) \in Subs(e)
    BY <2>1, BlocksInRange DEF SubInRange
  <2>3. /\ hentry' = [hentry EXCEPT ![g] = e]
        /\ hsub' = [hsub EXCEPT ![g] = Sub_of(q.port, e)]
        /\ hpc' = [hpc EXCEPT ![g] = "record"]
    BY <1>1 DEF Lookup
  <2> HIDE DEF e
  <2> QED
    BY <1>0, <1>m, <2>2, <2>3 DEF HandlersOfTests, AnswerTypes
<1>2. ASSUME NEW g \in Handlers, Record(g) PROVE HandlersOfTests'
  BY <1>0, <1>m, <1>2 DEF Record, HandlersOfTests, AnswerTypes
<1>3. ASSUME NEW e \in Resolvers, NEW i \in Subs(e), rate_test_target_sub(e, i)
      PROVE  UNCHANGED handlerVars
  BY <1>3 DEF rate_test_target_sub, Sub_send, calc_last_second_rate, Sub_return
<1>4. CASE UNCHANGED handlerVars
  BY <1>m, <1>4 DEF HandlersOfTests, handlerVars
<1>5. ASSUME NEW k \in Injectors, Inject_send(k) PROVE UNCHANGED handlerVars
  BY <1>5 DEF Inject_send
<1> QED
  BY <1>1, <1>2, <1>3, <1>4, <1>5, Movers DEF Arrival, answerState

PortInv == TypeOK /\ PortOfBlock /\ HandlersOfTests

\* rate_data[subid] is there for every port that is registered and every answer that
\* is looked up, whatever ports a resolver's block wraps around or shares: the index
\* cannot be out of range in Handle_pkt (696-714).
THEOREM SubCorrect == Spec => []SubInRange
<1>1. Init => PortInv
  BY InitTyped DEF Init, PortInv, PortOfBlock, HandlersOfTests
<1>2. PortInv /\ [Next]_vars => PortInv'
  BY NextTyped, NextPorts, NextHandlers DEF PortInv
<1>3. PortInv => SubInRange
  BY BlocksInRange DEF PortInv
<1> QED
  BY <1>1, <1>2, <1>3, PTL DEF Spec

-----------------------------------------------------------------------------
(***************************************************************************)
(* No resolver is lost or tested twice.                                     *)
(***************************************************************************)
\* Who holds open_writer: the writer while it writes, main for good.
WriterLock ==
    /\ wpc = "write" <=> open_writer = "writer"
    /\ main \in {"stop", "end"} <=> open_writer = "main"

LEMMA NextLock == WriterLock /\ [Next]_vars => WriterLock'
<1> SUFFICES ASSUME WriterLock, [Next]_vars PROVE WriterLock'
  OBVIOUS
<1>1. CASE Stop
  BY <1>1, NamesAssumption DEF Stop, May_stop, WriterLock, writerVars
<1>2. CASE Injected \/ End
  BY <1>2 DEF Injected, End, WriterLock, writerVars
<1>3. CASE write_results
  <2>1. CASE Write_take
    BY <2>1 DEF Write_take, WriterLock
  <2>2. CASE Write_open
    BY <2>2, NamesAssumption DEF Write_open, WriterLock
  <2>3. CASE Write_file
    BY <2>3, NamesAssumption DEF Write_file, WriterLock
  <2>4. CASE Write_return
    BY <2>4 DEF Write_return, WriterLock
  <2> QED
    BY <1>3, <2>1, <2>2, <2>3, <2>4 DEF write_results
<1>4. ASSUME UNCHANGED <<main, wpc, open_writer>> PROVE WriterLock'
  BY <1>4 DEF WriterLock
<1>5. ASSUME NEW k \in Injectors, inject_cache(k) PROVE UNCHANGED <<main, wpc, open_writer>>
  BY <1>5 DEF inject_cache, Inject_take, Inject_send, writerVars
<1>6. ASSUME NEW d \in Senders, Finish(d) PROVE UNCHANGED <<main, wpc, open_writer>>
  BY <1>6 DEF Finish, writerVars
<1>7. CASE UNCHANGED <<main, writerState>>
  BY <1>4, <1>7 DEF writerState, writerVars
<1> QED
  BY <1>1, <1>2, <1>3, <1>4, <1>5, <1>6, <1>7, Movers DEF Start_ratetest, injectVars,
     writerState, writerVars

\* Where the resolvers are.
Places ==
    /\ Input = resolver_data \cup UnderTest \cup Queued \cup InHand \cup files
    /\ resolver_data \cap (UnderTest \cup Queued \cup InHand \cup files) = {}
    /\ UnderTest \cap (Queued \cup InHand \cup files) = {}
    /\ Queued \cap (InHand \cup files) = {}
    /\ InHand \cap files = {}

OneTester ==
    \A c, d \in Senders : Testing(c) /\ Testing(d) /\ sentry[c] = sentry[d] => c = d

QueuedOnce ==
    \A j, k \in DOMAIN finished_resolvers :
        finished_resolvers[j] = finished_resolvers[k] => j = k

\* A resolver leaves the list for one sender.
LEMMA TakeConserves ==
    ASSUME TypeOK, Places, OneTester, NEW d \in Senders, Take(d), Input' = Input
    PROVE  Places' /\ OneTester'
<1>1. PICK e \in resolver_data : Register(e) /\ sentry' = [sentry EXCEPT ![d] = e]
  BY DEF Take
<1>2. /\ spc[d] = "take" /\ spc' = [spc EXCEPT ![d] = "round"]
      /\ UNCHANGED <<finished_resolvers, writerVars>>
  BY DEF Take
<1>3. SenderTypes
  BY DEF TypeOK
<1>4. /\ ~Testing(d) /\ Testing(d)' /\ sentry'[d] = e
      /\ \A c \in Senders : c # d => (Testing(c)' <=> Testing(c)) /\ sentry'[c] = sentry[c]
  BY <1>1, <1>2, <1>3 DEF SenderTypes, Testing
<1>5. UnderTest' = UnderTest \cup {e}
  BY <1>4 DEF UnderTest
<1>6. UNCHANGED <<Queued, InHand, files>>
  BY <1>2 DEF Queued, InHand, writerVars
<1>7. resolver_data' = resolver_data \ {e} /\ e \in resolver_data
  BY <1>1 DEF Register, Rest
<1>8. Places'
  BY <1>5, <1>6, <1>7 DEF Places
<1>9. \A c \in Senders : Testing(c) => sentry[c] # e
  BY <1>7 DEF Places, UnderTest
<1> QED
  BY <1>4, <1>8, <1>9 DEF OneTester

\* A sender passes its resolver on.
LEMMA FinishConserves ==
    ASSUME TypeOK, Places, OneTester, QueuedOnce, NEW d \in Senders, Finish(d),
           Input' = Input
    PROVE  Places' /\ OneTester' /\ QueuedOnce'
<1>1. /\ spc[d] = "finish" /\ spc' = [spc EXCEPT ![d] = "delete"]
      /\ finished_resolvers' = Append(finished_resolvers, sentry[d])
      /\ UNCHANGED <<resolver_data, sentry, writerVars>>
  BY DEF Finish, listVars
<1>2. /\ SenderTypes /\ finished_resolvers \in Seq(Resolvers) /\ sentry[d] \in Resolvers
      /\ Len(finished_resolvers) \in Nat
      /\ DOMAIN finished_resolvers = 1 .. Len(finished_resolvers)
  BY <1>1, LenProperties DEF TypeOK, SenderTypes, WriterTypes
<1>3. /\ Testing(d) /\ ~Testing(d)'
      /\ \A c \in Senders : c # d => (Testing(c)' <=> Testing(c))
  BY <1>1, <1>2 DEF SenderTypes, Testing
<1>4. UnderTest' = UnderTest \ {sentry[d]} /\ sentry[d] \in UnderTest
  BY <1>1, <1>3 DEF UnderTest, OneTester
<1>5. /\ DOMAIN finished_resolvers' = 1 .. Len(finished_resolvers) + 1
      /\ \A k \in 1 .. Len(finished_resolvers) :
            finished_resolvers'[k] = finished_resolvers[k]
      /\ finished_resolvers'[Len(finished_resolvers) + 1] = sentry[d]
  BY <1>1, <1>2, AppendProperties, LenProperties
<1>6. Queued' = Queued \cup {sentry[d]}
  BY <1>2, <1>5 DEF Queued
<1>7. UNCHANGED <<InHand, files>>
  BY <1>1 DEF InHand, writerVars
<1>8. Places'
  BY <1>1, <1>4, <1>6, <1>7 DEF Places
<1>9. OneTester'
  BY <1>1, <1>3 DEF OneTester
<1>10. \A k \in 1 .. Len(finished_resolvers) : finished_resolvers[k] # sentry[d]
  BY <1>2, <1>4 DEF Places, Queued
<1>11. QueuedOnce'
  <2> SUFFICES ASSUME NEW j \in 1 .. Len(finished_resolvers) + 1,
                      NEW k \in 1 .. Len(finished_resolvers) + 1,
                      finished_resolvers'[j] = finished_resolvers'[k]
               PROVE  j = k
    BY <1>5 DEF QueuedOnce
  <2>1. CASE j \in 1 .. Len(finished_resolvers) /\ k \in 1 .. Len(finished_resolvers)
    BY <1>2, <1>5, <2>1 DEF QueuedOnce
  <2>2. CASE j = Len(finished_resolvers) + 1 \/ k = Len(finished_resolvers) + 1
    BY <1>2, <1>5, <1>10, <2>2
  <2> QED
    BY <1>2, <2>1, <2>2
<1> QED
  BY <1>8, <1>9, <1>11

\* The writer takes the first in the channel.
LEMMA WriteTakeConserves ==
    ASSUME TypeOK, Places, QueuedOnce, Write_take, Input' = Input,
           UNCHANGED <<resolver_data, senderVars>>
    PROVE  Places' /\ QueuedOnce'
<1>1. /\ wpc = "select" /\ finished_resolvers # <<>>
      /\ wentry' = Head(finished_resolvers) /\ finished_resolvers' = Tail(finished_resolvers)
      /\ files' = files
  BY DEF Write_take
<1>2. /\ finished_resolvers \in Seq(Resolvers) /\ wentry = NULL
      /\ Len(finished_resolvers) \in Nat
      /\ DOMAIN finished_resolvers = 1 .. Len(finished_resolvers)
  BY <1>1, LenProperties DEF TypeOK, WriterTypes
<1>3. /\ Len(finished_resolvers) # 0
      /\ DOMAIN finished_resolvers' = 1 .. Len(finished_resolvers) - 1
      /\ \A k \in 1 .. Len(finished_resolvers) - 1 :
            finished_resolvers'[k] = finished_resolvers[k + 1]
      /\ Head(finished_resolvers) = finished_resolvers[1]
      /\ Head(finished_resolvers) \in Resolvers
  BY <1>1, <1>2, HeadTailProperties, LenProperties, EmptySeq
<1> DEFINE e == finished_resolvers[1]
<1>4. InHand = {} /\ InHand' = {e}
  BY <1>1, <1>2, <1>3, NamesAssumption DEF InHand
<1>5. Queued' = Queued \ {e} /\ e \in Queued
  <2>1. \A k \in 2 .. Len(finished_resolvers) : finished_resolvers[k] # e
    BY <1>2, <1>3 DEF QueuedOnce
  <2>2. e \in Queued
    BY <1>2, <1>3 DEF Queued
  <2>3. ASSUME NEW x \in Queued, x # e PROVE x \in Queued'
    <3>1. PICK k \in 1 .. Len(finished_resolvers) : x = finished_resolvers[k]
      BY <1>2 DEF Queued
    <3>2. k - 1 \in 1 .. Len(finished_resolvers) - 1 /\ (k - 1) + 1 = k
      BY <1>2, <2>3, <3>1
    <3>3. finished_resolvers'[k - 1] = x
      BY <1>3, <3>1, <3>2
    <3> QED
      BY <1>3, <3>2, <3>3 DEF Queued
  <2>4. ASSUME NEW x \in Queued' PROVE x \in Queued /\ x # e
    <3>1. PICK k \in 1 .. Len(finished_resolvers) - 1 : x = finished_resolvers'[k]
      BY <1>3, <2>4 DEF Queued
    <3>2. k + 1 \in 2 .. Len(finished_resolvers) /\ x = finished_resolvers[k + 1]
          /\ k + 1 \in 1 .. Len(finished_resolvers)
      BY <1>2, <1>3, <3>1
    <3> QED
      BY <1>2, <2>1, <3>2 DEF Queued
  <2> QED
    BY <2>2, <2>3, <2>4
<1>6. UNCHANGED <<UnderTest, resolver_data, files>>
  BY <1>1 DEF UnderTest, Testing, senderVars
<1>7. Places'
  <2> HIDE DEF e
  <2> QED
    BY <1>4, <1>5, <1>6 DEF Places
<1>8. QueuedOnce'
  <2> SUFFICES ASSUME NEW j \in 1 .. Len(finished_resolvers) - 1,
                      NEW k \in 1 .. Len(finished_resolvers) - 1,
                      finished_resolvers'[j] = finished_resolvers'[k]
               PROVE  j = k
    BY <1>3 DEF QueuedOnce
  <2>1. /\ j + 1 \in DOMAIN finished_resolvers /\ k + 1 \in DOMAIN finished_resolvers
        /\ finished_resolvers[j + 1] = finished_resolvers[k + 1]
    BY <1>2, <1>3
  <2>2. j + 1 = k + 1
    BY <2>1 DEF QueuedOnce
  <2> QED
    BY <1>2, <2>2
<1> QED
  BY <1>7, <1>8

ConserveInv == TypeOK /\ WriterLock /\ Places /\ OneTester /\ QueuedOnce

LEMMA NextConserves == ConserveInv /\ [Next]_vars => ConserveInv'
<1> SUFFICES ASSUME ConserveInv, [Next]_vars PROVE ConserveInv'
  OBVIOUS
<1> USE DEF ConserveInv
<1>1. TypeOK' /\ WriterLock' /\ Input' = Input
  BY NextTyped, NextLock, Fixed DEF Input
<1>2. ASSUME NEW d \in Senders, send_packets(d)
      PROVE  Places' /\ OneTester' /\ QueuedOnce'
  <2>1. CASE Take(d)
    <3>1. QueuedOnce'
      BY <2>1 DEF Take, QueuedOnce
    <3> QED
      BY <1>1, <2>1, <3>1, TakeConserves
  <2>2. CASE Finish(d)
    BY <1>1, <2>2, FinishConserves
  <2>3. CASE Exhausted(d) \/ rate_test_target(d) \/ Delete(d)
    <3>1. /\ UNCHANGED <<resolver_data, finished_resolvers, wentry, files>>
          /\ \A c \in Senders : c # d => spc'[c] = spc[c] /\ sentry'[c] = sentry[c]
          /\ Testing(d)' <=> Testing(d)
          /\ Testing(d) => sentry'[d] = sentry[d]
      <4>1. SenderTypes
        BY DEF TypeOK
      <4>2. CASE Exhausted(d) \/ Delete(d)
        BY <4>1, <4>2 DEF Exhausted, Delete, SenderTypes, Testing, listVars, writerVars
      <4>3. CASE rate_test_target(d)
        BY <4>1, <4>3 DEF rate_test_target, Start_round, Collect, Sum_up, SenderTypes,
                          Testing, listVars, writerVars
      <4> QED
        BY <2>3, <4>2, <4>3
    <3>2. \A c \in Senders : (Testing(c)' <=> Testing(c)) /\ (Testing(c) => sentry'[c] = sentry[c])
      BY <3>1 DEF Testing
    <3>3. UnderTest' = UnderTest
      BY <3>2 DEF UnderTest
    <3>4. Places'
      BY <1>1, <3>1, <3>3 DEF Places, Queued, InHand
    <3> QED
      BY <3>1, <3>2, <3>4 DEF OneTester, QueuedOnce
  <2> QED
    BY <1>2, <2>1, <2>2, <2>3 DEF send_packets
<1>3. ASSUME UNCHANGED senderVars PROVE OneTester' /\ UnderTest' = UnderTest
  BY <1>3 DEF OneTester, UnderTest, Testing, senderVars
<1>4. CASE write_results
  <2>1. UNCHANGED resolver_data /\ UNCHANGED senderVars
    BY <1>4 DEF write_results, Write_take, Write_open, Write_file, Write_return, listVars
  <2>2. CASE Write_take
    BY <1>1, <1>3, <2>1, <2>2, WriteTakeConserves
  <2>3. CASE Write_file
    <3>1. /\ wentry # NULL /\ wentry' = NULL /\ files' = files \cup {wentry}
          /\ UNCHANGED finished_resolvers
      BY <2>3 DEF Write_file, TypeOK, WriterTypes
    <3>2. InHand = {wentry} /\ InHand' = {} /\ UNCHANGED Queued
      BY <3>1 DEF InHand, Queued
    <3>3. Places'
      BY <1>1, <1>3, <2>1, <3>1, <3>2 DEF Places
    <3>4. QueuedOnce'
      BY <3>1 DEF QueuedOnce
    <3>5. OneTester'
      BY <2>1 DEF OneTester, Testing, senderVars
    <3> QED
      BY <1>1, <3>3, <3>4, <3>5
  <2>4. CASE Write_open \/ Write_return
    <3>1. UNCHANGED <<wentry, files, finished_resolvers>>
      BY <2>4 DEF Write_open, Write_return
    <3>2. Places'
      BY <1>1, <1>3, <2>1, <3>1 DEF Places, InHand, Queued
    <3>3. QueuedOnce'
      BY <3>1 DEF QueuedOnce
    <3>4. OneTester'
      BY <2>1 DEF OneTester, Testing, senderVars
    <3> QED
      BY <1>1, <3>2, <3>3, <3>4
  <2> QED
    BY <1>4, <2>2, <2>3, <2>4 DEF write_results
<1>5. ASSUME UNCHANGED <<resolver_data, senderVars, finished_resolvers, wentry, files>>
      PROVE  Places' /\ OneTester' /\ QueuedOnce'
  BY <1>1, <1>3, <1>5 DEF Places, InHand, Queued, QueuedOnce
<1>6. \/ \E d \in Senders : send_packets(d)
      \/ write_results
      \/ UNCHANGED <<resolver_data, senderVars, finished_resolvers, wentry, files>>
  <2>1. ASSUME NEW d \in Senders, Take(d) \/ Delete(d) \/ Finish(d) PROVE send_packets(d)
    BY <2>1 DEF send_packets
  <2>2. ASSUME Stop PROVE UNCHANGED <<resolver_data, senderVars, finished_resolvers, wentry, files>>
    BY <2>2 DEF Stop, listVars, writerVars
  <2> QED
    BY <2>1, <2>2, Movers DEF listVars, writerState, writerVars
<1> QED
  BY <1>1, <1>2, <1>4, <1>5, <1>6

LEMMA InitConserves == Init => ConserveInv
<1> SUFFICES ASSUME Init PROVE ConserveInv
  OBVIOUS
<1>1. /\ \A d \in Senders : ~Testing(d)
      /\ resolver_data = Input /\ finished_resolvers = <<>> /\ wentry = NULL /\ files = {}
      /\ wpc = "select" /\ open_writer = NULL /\ main \notin {"stop", "end"}
  BY DEF Init, Testing
<1>2. UnderTest = {} /\ Queued = {} /\ InHand = {}
  BY <1>1 DEF UnderTest, Queued, InHand
<1>3. Places
  BY <1>1, <1>2 DEF Places
<1>4. OneTester /\ QueuedOnce
  BY <1>1 DEF OneTester, QueuedOnce
<1>5. WriterLock
  BY <1>1, NamesAssumption DEF Init, WriterLock
<1> QED
  BY <1>3, <1>4, <1>5, InitTyped DEF ConserveInv

\* A resolver is always in one place: in the list, with one sender, in
\* finished_resolvers, with the writer or in a file; and main does not end the
\* program while the writer is in the middle of a file.
THEOREM Conserved == Spec => []ResolversConserved
<1>1. ConserveInv => ResolversConserved
  BY DEF ConserveInv, ResolversConserved, Places, OneTester, QueuedOnce, WriterLock
<1> QED
  BY <1>1, InitConserves, NextConserves, PTL DEF Spec

-----------------------------------------------------------------------------
(***************************************************************************)
(* Ports of a test stay its own until the ports have gone once round.  The  *)
(* count of the ports given away orders the blocks; two that are less than  *)
(* a round apart lie apart by the same distance, or by this less a round.   *)
(***************************************************************************)
Round == Port_max - Cfg.Port_min + 1
Taken == Input \ resolver_data
Before(e, f) == given[e] + length_n(e) <= given[f]

\* From the port a, given as number x, to the port b, given as number y.
Distance(x, a, y, b) == y - x <= Round => b - a = y - x \/ b - a = y - x - Round

GivenInOrder ==
    /\ \A e, f \in resolver_data : given[e] = given[f]
    /\ \A e \in Taken, f \in resolver_data : Before(e, f)
    /\ \A e, f \in Taken : e # f => Before(e, f) \/ Before(f, e)
PortsByNumber ==
    /\ \A e \in Taken : outport[e] \in Cfg.Port_min .. Port_max
    /\ \A e \in Taken, f \in resolver_data :
          Distance(given[e], outport[e], given[f], current_port)
    /\ \A e, f \in Taken :
          Before(e, f) => Distance(given[e], outport[e], given[f], outport[f])

\* Whose ports are about to be deleted is not under test any more.
FinishedOnes == Queued \cup InHand \cup files
DeletesFinished == \A d \in Senders : spc[d] = "delete" => sentry[d] \in FinishedOnes

\* A port leads to the last test that registered it.
LastRegistered ==
    \A p \in DOMAIN active_resolvers :
        /\ active_resolvers[p] \in Taken
        /\ \A f \in Taken : p \in Block(f) => given[f] <= given[active_resolvers[p]]

\* The first test has the first port, which inject_cache had before it.
FirstPort ==
    /\ main = "inject" => Taken = {}
    /\ \A k \in Injectors : ipc[k] # "done" => main = "inject"
    /\ Taken = {} => /\ current_port = Cfg.Port_min
                     /\ \A e \in resolver_data : given[e] = 0
    /\ Taken # {} => \E f \in Taken : given[f] = 0 /\ outport[f] = Cfg.Port_min

\* Queries come from tests that have begun, or from inject_cache.
AskedBy(q) ==
    IF q.sub = No_sub THEN q.port = Cfg.Port_min
    ELSE /\ q.entry \in Taken /\ q.sub \in Subs(q.entry)
         /\ q.port = Sub_port(q.entry, q.sub)

AskedOnce ==
    /\ \A e \in Resolvers \ Taken : \A i \in Subs(e) : subpc[e][i] = "idle"
    /\ \A q \in asked : AskedBy(q)
    /\ \A g \in Handlers : hpc[g] = "record" => hpkt[g] \in asked /\ hentry[g] \in Taken

BlocksInv == OwnBlocks => /\ GivenInOrder /\ PortsByNumber /\ LastRegistered /\ FirstPort
                          /\ AskedOnce /\ PortsKept /\ AnswersCountedForAsker
BlockInv == DeletesFinished /\ BlocksInv

\* Numbers less than W apart have different remainders.
LEMMA SameRest ==
    ASSUME NEW W \in Nat \ {0}, NEW u \in Nat, NEW v \in Nat,
           u % W = v % W, u <= v, v < u + W
    PROVE  u = v
<1>1. u = W * (u \div W) + (u % W) /\ v = W * (v \div W) + (v % W)
  OBVIOUS
<1>2. u \div W \in Nat /\ v \div W \in Nat
  OBVIOUS
<1>3. \A k, l \in Nat : k < l => W * k + W <= W * l
  OBVIOUS
<1>4. u \div W = v \div W
  BY <1>1, <1>2, <1>3
<1> QED
  BY <1>1, <1>4

\* Who has a test of its own: as many ports are given away as there are subroutines.
LEMMA OwnLength ==
    ASSUME Cfg \in Configs, OwnBlocks, NEW e \in Input
    PROVE  /\ length_n(e) \in Nat \ {0} /\ length_n(e) <= Round /\ Advance(e) = length_n(e)
           /\ Round \in Nat \ {0} /\ Round <= Width /\ e \in Resolvers
<1>1. /\ Port_max \in 1 .. Width - 1 /\ Cfg.Port_min \in 0 .. Port_max - 1
      /\ Width \in Nat
  BY SettingFacts, WidthFact
<1>2. Round \in Nat \ {0} /\ Round >= 2 /\ Round <= Width
  BY <1>1 DEF Round
<1>3. e \in Resolvers
  BY DEF Input
<1>4. length_n(e) \in Nat \ {0}
  BY <1>3, LengthFacts
<1>5. ~Cfg.concurrent => length_n(e) = 1
  BY DEF OwnBlocks, length_n
<1>6. Cfg.concurrent => length_n(e) <= Round
  BY <1>3, LengthFacts DEF Round
<1> QED
  BY <1>2, <1>3, <1>4, <1>5, <1>6 DEF Advance

\* Blocks that share a port are a round apart.
LEMMA BlocksApart ==
    TypeOK /\ OwnBlocks /\ GivenInOrder /\ PortsByNumber =>
        \A e, f \in Taken : \A p \in Block(e) \cap Block(f) :
            \/ e = f
            \/ Before(e, f) /\ Cycled(e, f)
            \/ Before(f, e) /\ Cycled(f, e)
<1> SUFFICES ASSUME TypeOK, OwnBlocks, GivenInOrder, PortsByNumber,
                    NEW e \in Taken, NEW f \in Taken, e # f,
                    NEW p \in Block(e), p \in Block(f)
             PROVE  (Before(e, f) /\ Cycled(e, f)) \/ (Before(f, e) /\ Cycled(f, e))
  OBVIOUS
<1>0. Cfg \in Configs /\ ListTypes
  BY DEF TypeOK
<1>1. ASSUME NEW r \in Taken, NEW t \in Taken, Before(r, t), ~Cycled(r, t),
             p \in Block(r), p \in Block(t)
      PROVE  FALSE
  <2>1. PICK i \in Subs(r) : p = (outport[r] + i) % Width
    BY <1>1 DEF Block, Ports, Port
  <2>2. PICK j \in Subs(t) : p = (outport[t] + j) % Width
    BY <1>1 DEF Block, Ports, Port
  <2>3. /\ r \in Resolvers /\ length_n(r) \in Nat \ {0}
        /\ t \in Resolvers /\ length_n(t) \in Nat \ {0}
        /\ Round \in Nat /\ Round <= Width /\ t \notin resolver_data
    BY <1>0, OwnLength DEF Taken
  <2>4. /\ i \in Nat /\ i < length_n(r) /\ j \in Nat /\ j < length_n(t)
    BY <2>3 DEF Subs
  <2>5. /\ given[r] \in Nat /\ given[t] \in Nat
        /\ outport[r] \in Nat /\ outport[t] \in Nat /\ Width \in Nat \ {0}
    BY <1>0, <2>3, WidthFact DEF ListTypes
  <2>6. given[r] + length_n(r) <= given[t] /\ given[t] + length_n(t) - given[r] <= Round
    BY <1>1, <2>3, <2>5 DEF Before, Cycled, Round
  <2>7. /\ given[t] - given[r] <= Round
        /\ \/ outport[t] - outport[r] = given[t] - given[r]
           \/ outport[t] - outport[r] = given[t] - given[r] - Round
    BY <1>1, <2>3, <2>5, <2>6 DEF PortsByNumber, Distance
  <2>8. PICK u \in Nat, v \in Nat : u = outport[r] + i /\ v = outport[t] + j
    BY <2>4, <2>5
  <2>9. CASE outport[t] - outport[r] = given[t] - given[r]
    <3>1. u <= v /\ v < u + Width /\ u # v
      BY <2>3, <2>4, <2>5, <2>6, <2>8, <2>9
    <3>2. u % Width # v % Width
      BY <2>5, <3>1, SameRest, Zenon
    <3> QED
      BY <2>1, <2>2, <2>8, <3>2
  <2>10. CASE outport[t] - outport[r] = given[t] - given[r] - Round
    <3>1. v <= u /\ u < v + Width /\ v # u
      BY <2>3, <2>4, <2>5, <2>6, <2>8, <2>10
    <3>2. u % Width # v % Width
      BY <2>5, <3>1, SameRest, Zenon
    <3> QED
      BY <2>1, <2>2, <2>8, <3>2
  <2> QED
    BY <2>7, <2>9, <2>10
<1>2. Before(e, f) \/ Before(f, e)
  BY DEF GivenInOrder
<1> QED
  BY <1>1, <1>2

\* What Take does to the list and the ports.
LEMMA TakeStep ==
    ASSUME TypeOK, Places, OwnBlocks, NEW d \in Senders, Take(d), [Next]_vars
    PROVE  \E e \in resolver_data :
              /\ e \in Input /\ e \in Resolvers /\ resolver_data' = resolver_data \ {e}
              /\ Taken' = Taken \cup {e}
              /\ outport' = [outport EXCEPT ![e] = current_port]
              /\ current_port \in Cfg.Port_min .. Port_max
              /\ \/ current_port' = current_port + length_n(e)
                 \/ current_port' = current_port + length_n(e) - Round
              /\ current_port' \in Cfg.Port_min .. Port_max
              /\ \A r \in Resolvers :
                    given'[r] = IF r \in resolver_data' THEN given[r] + length_n(e) ELSE given[r]
              /\ DOMAIN active_resolvers' = DOMAIN active_resolvers \cup Ports(e, current_port)
              /\ \A p \in DOMAIN active_resolvers' :
                    active_resolvers'[p] = IF p \in Ports(e, current_port)
                                           THEN e ELSE active_resolvers[p]
              /\ sentry' = [sentry EXCEPT ![d] = e] /\ spc' = [spc EXCEPT ![d] = "round"]
<1>0. ListTypes /\ Cfg \in Configs /\ Cfg' = Cfg /\ Input' = Input
  BY Fixed DEF TypeOK, Input
<1>1. PICK e \in resolver_data : Register(e) /\ sentry' = [sentry EXCEPT ![d] = e]
  BY DEF Take
<1>2. e \in Input /\ e \in Resolvers
  BY <1>0 DEF Places, ListTypes
<1>3. /\ current_port \in Cfg.Port_min .. Port_max
      /\ Cfg.Port_min \in Nat /\ Port_max \in Nat /\ Port_max < Width /\ Width \in Nat
  BY <1>0, SettingFacts, WidthFact DEF ListTypes
<1>4. current_port % Width = current_port
  BY <1>3, ModSmall
<1>5. Advance(e) = length_n(e) /\ length_n(e) \in Nat /\ Round \in Nat
  BY <1>0, <1>2, OwnLength
<1>6. current_port' = Next_port(current_port + length_n(e))
  BY <1>1, <1>5 DEF Register
<1>7. \/ current_port' = current_port + length_n(e)
      \/ current_port' = current_port + length_n(e) - Round
  BY <1>3, <1>5, <1>6 DEF Next_port, Round
<1>8. current_port' \in Cfg.Port_min .. Port_max
  BY <1>0, ListTyped DEF ListTypes
<1>9. resolver_data' = resolver_data \ {e} /\ Taken' = Taken \cup {e}
  BY <1>0, <1>1, <1>2 DEF Register, Rest, Taken
<1>10. /\ outport' = [outport EXCEPT ![e] = current_port]
       /\ \A r \in Resolvers :
             given'[r] = IF r \in resolver_data' THEN given[r] + length_n(e) ELSE given[r]
  BY <1>1, <1>4, <1>5, <1>9 DEF Register, Rest
<1>11. /\ DOMAIN active_resolvers' = DOMAIN active_resolvers \cup Ports(e, current_port)
       /\ \A p \in DOMAIN active_resolvers' :
             active_resolvers'[p] = IF p \in Ports(e, current_port)
                                    THEN e ELSE active_resolvers[p]
  BY <1>1 DEF Register
<1>12. spc' = [spc EXCEPT ![d] = "round"]
  BY DEF Take
<1> QED
  BY <1>1, <1>2, <1>3, <1>7, <1>8, <1>9, <1>10, <1>11, <1>12

\* Blocks stay as they are, and so does what is known of their order.
LEMMA BlocksStay ==
    ASSUME TypeOK, Places, OwnBlocks, [Next]_vars
    PROVE  /\ Taken \subseteq Taken' /\ Round' = Round /\ OwnBlocks' /\ Input' = Input
           /\ \A e \in Taken : /\ given'[e] = given[e] /\ outport'[e] = outport[e]
                               /\ Block(e)' = Block(e)
           /\ \A e, f \in Resolvers : e \notin resolver_data /\ Cycled(e, f) => Cycled(e, f)'
           /\ \A e \in Taken, f \in Taken : Before(e, f)' <=> Before(e, f)
<1>0. ListTypes /\ Cfg' = Cfg /\ Input' = Input
  BY Fixed DEF TypeOK, Input
<1>1. /\ \A e : Subs(e)' = Subs(e) /\ length_n(e)' = length_n(e)
      /\ Round' = Round /\ OwnBlocks'
  BY <1>0, Fixed DEF Round, OwnBlocks
<1>2. /\ Taken \subseteq Taken' /\ Taken \subseteq Resolvers
      /\ \A e \in Taken : outport'[e] = outport[e]
      /\ resolver_data' \subseteq resolver_data
      /\ \A e \in Resolvers : e \notin resolver_data => given'[e] = given[e]
  <2>1. ASSUME NEW d \in Senders, Take(d)
        PROVE  /\ Taken \subseteq Taken'
               /\ \A e \in Taken : outport'[e] = outport[e]
               /\ resolver_data' \subseteq resolver_data
               /\ \A e \in Resolvers : e \notin resolver_data => given'[e] = given[e]
    <3>1. PICK e \in resolver_data :
             /\ e \in Resolvers /\ resolver_data' = resolver_data \ {e}
             /\ Taken' = Taken \cup {e} /\ outport' = [outport EXCEPT ![e] = current_port]
             /\ \A r \in Resolvers :
                   given'[r] = IF r \in resolver_data' THEN given[r] + length_n(e) ELSE given[r]
      BY <2>1, TakeStep
    <3>2. \A r \in Taken : r # e /\ r \in Resolvers
      BY DEF Taken, Input
    <3> QED
      BY <1>0, <3>1, <3>2 DEF ListTypes
  <2>2. ASSUME NEW d \in Senders, Delete(d) PROVE UNCHANGED listVars
    BY <2>2 DEF Delete
  <2>3. Taken \subseteq Resolvers
    BY DEF Taken, Input
  <2> QED
    BY <1>0, <2>1, <2>2, <2>3, Movers DEF listVars, Taken
<1>3. \A e \in Taken : given'[e] = given[e]
  BY <1>2 DEF Taken
<1>4. \A e \in Taken : Block(e)' = Block(e)
  BY <1>1, <1>2 DEF Block, Ports
<1>5. \A e, f \in Resolvers : e \notin resolver_data /\ Cycled(e, f) => Cycled(e, f)'
  <2> SUFFICES ASSUME NEW e \in Resolvers, NEW f \in Resolvers,
                      e \notin resolver_data, Cycled(e, f)
               PROVE  /\ f \notin resolver_data'
                      /\ given'[f] + length_n(f)' - given'[e] > Port_max - Cfg'.Port_min + 1
    BY DEF Cycled
  <2>1. f \notin resolver_data /\ given[f] + length_n(f) - given[e] > Port_max - Cfg.Port_min + 1
    BY DEF Cycled
  <2> QED
    BY <1>0, <1>1, <1>2, <2>1
<1>6. \A e \in Taken, f \in Taken : Before(e, f)' <=> Before(e, f)
  BY <1>1, <1>3 DEF Before
<1> QED
  BY <1>0, <1>1, <1>2, <1>3, <1>4, <1>5, <1>6

\* Blocks are given away one behind the other.
LEMMA NextGiven ==
    ASSUME TypeOK, Places, OwnBlocks, GivenInOrder, PortsByNumber, [Next]_vars
    PROVE  GivenInOrder' /\ PortsByNumber'
<1>0. ListTypes /\ Cfg \in Configs /\ Cfg' = Cfg /\ resolver_data \subseteq Input
  BY Fixed DEF TypeOK, Places
<1>1. /\ Round' = Round
      /\ \A e : length_n(e)' = length_n(e)
  BY BlocksStay, Fixed
<1>2. \A e \in Taken \cup resolver_data :
         /\ e \in Resolvers /\ given[e] \in Nat
         /\ length_n(e) \in Nat \ {0} /\ length_n(e) <= Round /\ Round \in Nat
  BY <1>0, OwnLength DEF Taken, ListTypes
<1>3. ASSUME NEW d \in Senders, Take(d)
      PROVE  GivenInOrder' /\ PortsByNumber'
  <2>1. PICK e \in resolver_data :
           /\ resolver_data' = resolver_data \ {e} /\ Taken' = Taken \cup {e}
           /\ outport' = [outport EXCEPT ![e] = current_port]
           /\ current_port \in Cfg.Port_min .. Port_max
           /\ \/ current_port' = current_port + length_n(e)
              \/ current_port' = current_port + length_n(e) - Round
           /\ current_port' \in Cfg.Port_min .. Port_max
           /\ \A r \in Resolvers :
                 given'[r] = IF r \in resolver_data' THEN given[r] + length_n(e) ELSE given[r]
    BY <1>3, TakeStep
  <2>2. e \in Resolvers /\ length_n(e) \in Nat \ {0} /\ length_n(e) <= Round
    BY <1>2
  <2>3. \A r \in Taken : r # e /\ given'[r] = given[r] /\ outport'[r] = outport[r]
    BY <1>0, <1>2, <2>1 DEF Taken, ListTypes
  <2>4. given'[e] = given[e] /\ outport'[e] = current_port
    BY <1>0, <2>1, <2>2 DEF ListTypes
  <2>5. \A r \in resolver_data' :
           r \in resolver_data /\ r \in Resolvers /\ given'[r] = given[e] + length_n(e)
    BY <1>2, <2>1 DEF GivenInOrder
  <2>6. \A r \in Taken : /\ given[r] + length_n(r) <= given[e]
                         /\ Distance(given[r], outport[r], given[e], current_port)
    BY DEF GivenInOrder, PortsByNumber, Before
  <2>7. \A r, t \in resolver_data' : given'[r] = given'[t]
    BY <2>5
  <2>8. \A r \in Taken', t \in resolver_data' : given'[r] + length_n(r) <= given'[t]
    <3> SUFFICES ASSUME NEW r \in Taken', NEW t \in resolver_data'
                 PROVE  given'[r] + length_n(r) <= given'[t]
      OBVIOUS
    <3>1. CASE r = e
      BY <1>2, <2>4, <2>5, <3>1
    <3>2. CASE r \in Taken
      BY <1>2, <2>2, <2>3, <2>5, <2>6, <3>2
    <3> QED
      BY <2>1, <3>1, <3>2
  <2>9. \A r, t \in Taken' : r # t => \/ given'[r] + length_n(r) <= given'[t]
                                      \/ given'[t] + length_n(t) <= given'[r]
    BY <2>1, <2>3, <2>4, <2>6 DEF GivenInOrder, Before
  <2>10. GivenInOrder'
    BY <1>1, <2>7, <2>8, <2>9 DEF GivenInOrder, Before
  <2>11. \A r \in Taken' : outport'[r] \in Cfg.Port_min .. Port_max
    BY <2>1, <2>3, <2>4 DEF PortsByNumber
  <2>12. Port_max \in Nat /\ Cfg.Port_min \in Nat /\ Round = Port_max - Cfg.Port_min + 1
    BY <1>0, SettingFacts, WidthFact DEF Round
  <2>13. ASSUME NEW r \in Taken', NEW t \in resolver_data'
         PROVE  Distance(given'[r], outport'[r], given'[t], current_port')
    <3>1. CASE r = e
      BY <1>2, <2>1, <2>2, <2>4, <2>5, <2>12, <3>1 DEF Distance
    <3>2. CASE r \in Taken
      <4>1. /\ given'[t] = given[e] + length_n(e) /\ given'[r] = given[r]
            /\ outport'[r] = outport[r] /\ outport[r] \in Cfg.Port_min .. Port_max
            /\ given[r] \in Nat /\ given[e] \in Nat /\ length_n(r) \in Nat
            /\ given[r] + length_n(r) <= given[e]
            /\ Distance(given[r], outport[r], given[e], current_port)
        BY <1>2, <2>3, <2>5, <2>6, <3>2 DEF PortsByNumber
      <4> QED
        BY <2>1, <2>2, <2>12, <4>1 DEF Distance
    <3> QED
      BY <2>1, <3>1, <3>2
  <2>14. ASSUME NEW r \in Taken', NEW t \in Taken', Before(r, t)'
         PROVE  Distance(given'[r], outport'[r], given'[t], outport'[t])
    <3>1. given'[r] + length_n(r) <= given'[t]
      BY <1>1, <2>14 DEF Before
    <3>2. CASE r = e
      <4>1. t # e
        BY <1>2, <2>2, <2>4, <3>1, <3>2
      <4>2. t \in Taken /\ given[t] + length_n(t) <= given[e] /\ given'[t] = given[t]
        BY <2>1, <2>3, <2>6, <4>1
      <4> QED
        BY <1>2, <2>2, <2>4, <3>1, <3>2, <4>2
    <3>3. CASE r # e /\ t = e
      BY <2>1, <2>3, <2>4, <2>6, <3>3
    <3>4. CASE r # e /\ t # e
      BY <2>1, <2>3, <3>1, <3>4 DEF PortsByNumber, Before
    <3> QED
      BY <3>2, <3>3, <3>4
  <2>15. PortsByNumber'
    BY <1>0, <1>1, <2>11, <2>13, <2>14 DEF PortsByNumber, Distance
  <2> QED
    BY <2>10, <2>15
<1>4. CASE UNCHANGED listVars
  BY <1>0, <1>1, <1>4, BlocksStay
  DEF GivenInOrder, PortsByNumber, Before, Distance, Taken, listVars
<1>5. ASSUME NEW d \in Senders, Delete(d) PROVE UNCHANGED listVars
  BY <1>5 DEF Delete
<1> QED
  BY <1>3, <1>4, <1>5, Movers

\* What is under test was, or comes from the list.
LEMMA TestedWas ==
    ASSUME TypeOK, [Next]_vars, NEW d \in Senders, Testing(d)'
    PROVE  \/ Testing(d) /\ sentry'[d] = sentry[d]
           \/ Take(d)
<1>0. SenderTypes
  BY DEF TypeOK
<1>1. ASSUME NEW c \in Senders, send_packets(c), ~Take(c)
      PROVE  Testing(d) /\ sentry'[d] = sentry[d]
  <2>1. CASE rate_test_target(c)
    BY <1>0, <2>1 DEF rate_test_target, Start_round, Collect, Sum_up, Testing, SenderTypes
  <2>2. CASE Exhausted(c) \/ Finish(c) \/ Delete(c)
    BY <1>0, <2>2 DEF Exhausted, Finish, Delete, Testing, SenderTypes
  <2> QED
    BY <1>1, <2>1, <2>2 DEF send_packets
<1>2. ASSUME NEW c \in Senders, Take(c), c # d
      PROVE  Testing(d) /\ sentry'[d] = sentry[d]
  <2>1. /\ spc' = [spc EXCEPT ![c] = "round"]
        /\ \E e \in resolver_data : sentry' = [sentry EXCEPT ![c] = e]
    BY <1>2 DEF Take
  <2> QED
    BY <1>0, <1>2, <2>1 DEF Testing, SenderTypes
<1>3. CASE UNCHANGED senderVars
  BY <1>3 DEF senderVars, Testing
<1> QED
  BY <1>1, <1>2, <1>3, Movers

\* What is finished stays so.
LEMMA FinishedStay ==
    ASSUME ConserveInv, [Next]_vars
    PROVE  FinishedOnes \subseteq FinishedOnes'
<1>1. Places /\ Places' /\ Input' = Input /\ TypeOK
  BY NextConserves, Fixed DEF ConserveInv, Input
<1>2. resolver_data' \subseteq resolver_data
  <2>1. ASSUME NEW d \in Senders, Take(d) \/ Delete(d)
        PROVE  resolver_data' \subseteq resolver_data
    BY <2>1 DEF Take, Register, Rest, Delete, listVars
  <2> QED
    BY <2>1, Movers DEF listVars
<1>3. UnderTest' \subseteq UnderTest \cup resolver_data
  <2> SUFFICES ASSUME NEW d \in Senders, Testing(d)'
               PROVE  sentry'[d] \in UnderTest \cup resolver_data
    BY DEF UnderTest
  <2>1. CASE Testing(d) /\ sentry'[d] = sentry[d]
    BY <2>1 DEF UnderTest
  <2>2. CASE Take(d)
    BY <1>1, <2>2 DEF Take, TypeOK, SenderTypes
  <2> QED
    BY <1>1, <2>1, <2>2, TestedWas
<1> QED
  BY <1>1, <1>2, <1>3 DEF Places, FinishedOnes

LEMMA NextDeletesFinished ==
    ConserveInv /\ DeletesFinished /\ [Next]_vars => DeletesFinished'
<1> SUFFICES ASSUME ConserveInv, DeletesFinished, [Next]_vars,
                    NEW d \in Senders, spc'[d] = "delete"
             PROVE  sentry'[d] \in FinishedOnes'
  BY DEF DeletesFinished
<1>0. SenderTypes /\ OneTester
  BY DEF ConserveInv, TypeOK
<1>1. CASE Finish(d)
  <2>1. sentry'[d] = sentry[d] /\ sentry[d] \in UnderTest
    BY <1>1 DEF Finish, UnderTest, Testing
  <2>2. sentry[d] \notin UnderTest'
    <3> SUFFICES ASSUME NEW c \in Senders, Testing(c)', sentry'[c] = sentry[d]
                 PROVE  FALSE
      BY DEF UnderTest
    <3>1. c # d
      BY <1>0, <1>1 DEF Finish, Testing, SenderTypes
    <3>2. Testing(c) /\ sentry[c] = sentry[d] /\ Testing(d)
      BY <1>0, <1>1, <3>1 DEF Finish, Testing, SenderTypes
    <3> QED
      BY <1>0, <3>1, <3>2 DEF OneTester
  <2>3. sentry[d] \in Input' /\ sentry[d] \notin resolver_data'
    BY <1>1, <2>1, Fixed DEF Finish, listVars, ConserveInv, Places, Input
  <2>4. Places'
    BY NextConserves DEF ConserveInv
  <2> QED
    BY <2>1, <2>2, <2>3, <2>4 DEF Places, FinishedOnes
<1>2. CASE spc[d] = "delete" /\ sentry'[d] = sentry[d]
  BY <1>2, FinishedStay DEF DeletesFinished
<1>3. ASSUME NEW c \in Senders, send_packets(c)
      PROVE  Finish(d) \/ (spc[d] = "delete" /\ sentry'[d] = sentry[d])
  <2>1. CASE rate_test_target(c)
    BY <1>0, <2>1 DEF rate_test_target, Start_round, Collect, Sum_up, SenderTypes
  <2>2. CASE Exhausted(c) \/ Finish(c) \/ Delete(c)
    BY <1>0, <2>2 DEF Exhausted, Finish, Delete, SenderTypes
  <2>3. CASE Take(c)
    <3>1. /\ spc' = [spc EXCEPT ![c] = "round"]
          /\ \E e \in resolver_data : sentry' = [sentry EXCEPT ![c] = e]
      BY <2>3 DEF Take
    <3> QED
      BY <1>0, <3>1 DEF SenderTypes
  <2> QED
    BY <1>3, <2>1, <2>2, <2>3 DEF send_packets
<1>4. CASE UNCHANGED senderVars
  BY <1>2, <1>4 DEF senderVars
<1> QED
  BY <1>1, <1>2, <1>3, <1>4, Movers

\* Who registers a port that was registered has a higher number.
LEMMA NextLast ==
    ASSUME TypeOK, Places, OwnBlocks, GivenInOrder, LastRegistered, [Next]_vars
    PROVE  LastRegistered'
<1>0. ListTypes /\ Cfg \in Configs /\ Taken \subseteq Taken'
  BY BlocksStay DEF TypeOK
<1>1. \A r \in Taken : /\ given'[r] = given[r] /\ Block(r)' = Block(r)
                       /\ given[r] \in Nat /\ length_n(r) \in Nat
  BY <1>0, BlocksStay, OwnLength DEF Taken, ListTypes
<1>2. ASSUME NEW d \in Senders, Take(d) PROVE LastRegistered'
  <2>1. PICK e \in resolver_data :
           /\ e \in Resolvers /\ resolver_data' = resolver_data \ {e}
           /\ Taken' = Taken \cup {e}
           /\ \A r \in Resolvers :
                 given'[r] = IF r \in resolver_data' THEN given[r] + length_n(e) ELSE given[r]
           /\ outport' = [outport EXCEPT ![e] = current_port]
           /\ DOMAIN active_resolvers' = DOMAIN active_resolvers \cup Ports(e, current_port)
           /\ \A p \in DOMAIN active_resolvers' :
                 active_resolvers'[p] = IF p \in Ports(e, current_port)
                                        THEN e ELSE active_resolvers[p]
    BY <1>2, TakeStep
  <2>2. given'[e] = given[e] /\ given[e] \in Nat /\ Block(e)' = Ports(e, current_port)
    BY <1>0, <2>1, Fixed DEF ListTypes, Block, Ports
  <2>3. \A r \in Taken : given[r] <= given[e]
    BY <1>1, <2>2 DEF GivenInOrder, Before
  <2> SUFFICES ASSUME NEW p \in DOMAIN active_resolvers'
               PROVE  /\ active_resolvers'[p] \in Taken'
                      /\ \A f \in Taken' :
                            p \in Block(f)' => given'[f] <= given'[active_resolvers'[p]]
    BY DEF LastRegistered
  <2>4. CASE p \in Ports(e, current_port)
    BY <1>1, <2>1, <2>2, <2>3, <2>4
  <2>5. CASE p \notin Ports(e, current_port)
    <3>1. p \in DOMAIN active_resolvers /\ active_resolvers'[p] = active_resolvers[p]
      BY <2>1, <2>5
    <3>2. active_resolvers[p] \in Taken
      BY <3>1 DEF LastRegistered
    <3>3. ASSUME NEW f \in Taken', p \in Block(f)'
          PROVE  given'[f] <= given'[active_resolvers[p]]
      <4>1. f \in Taken /\ p \in Block(f)
        BY <1>1, <2>1, <2>2, <2>5, <3>3
      <4> QED
        BY <1>1, <3>1, <3>2, <4>1 DEF LastRegistered
    <3> QED
      BY <1>0, <3>1, <3>2, <3>3
  <2> QED
    BY <2>4, <2>5
<1>3. ASSUME UNCHANGED listVars,
             DOMAIN active_resolvers' \subseteq DOMAIN active_resolvers,
             \A p \in DOMAIN active_resolvers' : active_resolvers'[p] = active_resolvers[p]
      PROVE  LastRegistered'
  <2>1. Taken' = Taken
    BY <1>3, BlocksStay DEF listVars, Taken
  <2> QED
    BY <1>1, <1>3, <2>1 DEF LastRegistered
<1>4. ASSUME NEW d \in Senders, Delete(d) PROVE LastRegistered'
  BY <1>3, <1>4 DEF Delete
<1> QED
  BY <1>2, <1>3, <1>4, Movers

\* What is under test or finished has left the list.
LEMMA TestedOrFinished ==
    ASSUME Places
    PROVE  UnderTest \cup FinishedOnes \subseteq Taken /\ UnderTest \cap FinishedOnes = {}
BY DEF Places, FinishedOnes, Taken

\* The ports of a block are its test's own; no other block is a round apart.
Own(e) == \A p \in Block(e) : p \in DOMAIN active_resolvers /\ active_resolvers[p] = e
Alone(e) == \A f \in Resolvers : ~Cycled(e, f) /\ ~Cycled(f, e)

\* Blocks that are not a round apart now were not before.
LEMMA AloneWas ==
    ASSUME TypeOK, Places, OwnBlocks, GivenInOrder, [Next]_vars, NEW e \in Taken, Alone(e)'
    PROVE  Alone(e)
<1>0. /\ ListTypes /\ Cfg \in Configs /\ resolver_data \subseteq Input
      /\ e \in Resolvers /\ e \notin resolver_data
  BY DEF TypeOK, Places, Taken, Input
<1> SUFFICES ASSUME NEW f \in Resolvers, Cycled(e, f) \/ Cycled(f, e)
             PROVE  FALSE
  BY DEF Alone
<1>1. ~Cycled(e, f)
  BY <1>0, BlocksStay DEF Alone
<1>2. f \notin resolver_data => ~Cycled(f, e)
  BY <1>0, BlocksStay DEF Alone
<1>3. ASSUME f \in resolver_data PROVE ~Cycled(f, e)
  <2>1. given[e] + length_n(e) <= given[f]
    BY <1>3 DEF GivenInOrder, Before
  <2>2. /\ given[e] \in Nat /\ given[f] \in Nat /\ length_n(e) \in Nat
        /\ Round \in Nat
    BY <1>0, OwnLength DEF ListTypes, Taken
  <2> QED
    BY <2>1, <2>2 DEF Cycled, Round
<1> QED
  BY <1>1, <1>2, <1>3

LEMMA BlocksApartNext ==
    (TypeOK /\ OwnBlocks /\ GivenInOrder /\ PortsByNumber =>
        \A e, f \in Taken : \A p \in Block(e) \cap Block(f) :
            \/ e = f
            \/ Before(e, f) /\ Cycled(e, f)
            \/ Before(f, e) /\ Cycled(f, e))'
BY BlocksApart, PTL

\* Nobody takes or deletes a port of a test, until they have gone once round.
LEMMA NextKept ==
    ASSUME ConserveInv, DeletesFinished, OwnBlocks, GivenInOrder, PortsByNumber,
           PortsKept, [Next]_vars
    PROVE  PortsKept'
<1>0. /\ TypeOK /\ TypeOK' /\ Places /\ ListTypes /\ SenderTypes
      /\ Cfg \in Configs
  BY NextConserves DEF ConserveInv, TypeOK
<1>1. GivenInOrder' /\ PortsByNumber' /\ OwnBlocks'
  BY <1>0, NextGiven, BlocksStay
<1> SUFFICES ASSUME NEW d \in Senders, NEW e, e = sentry'[d], Testing(d)', Alone(e)'
             PROVE  Own(e)'
  BY DEF PortsKept, Own, Alone
<1>2. ASSUME Testing(d), sentry[d] = e
      PROVE  Own(e)'
  <2>1. e \in UnderTest /\ e \in Taken
    BY <1>0, <1>2, TestedOrFinished DEF UnderTest
  <2>2. Own(e) /\ Alone(e)
    BY <1>0, <1>2, <2>1, AloneWas DEF PortsKept, Own, Alone
  <2>3. Block(e)' = Block(e) /\ e \in Taken'
    BY <1>0, <2>1, BlocksStay
  <2>4. ASSUME NEW c \in Senders, Take(c) PROVE Own(e)'
    <3>1. PICK x \in resolver_data :
             /\ x \in Resolvers /\ Taken' = Taken \cup {x}
             /\ outport' = [outport EXCEPT ![x] = current_port]
             /\ DOMAIN active_resolvers' = DOMAIN active_resolvers \cup Ports(x, current_port)
             /\ \A p \in DOMAIN active_resolvers' :
                   active_resolvers'[p] = IF p \in Ports(x, current_port)
                                          THEN x ELSE active_resolvers[p]
      BY <1>0, <2>4, TakeStep
    <3>2. Block(x)' = Ports(x, current_port)
      BY <1>0, <3>1, Fixed DEF ListTypes, Block, Ports
    <3>3. x # e
      BY <2>1 DEF Taken
    <3>4. \A p \in Block(e)' : p \notin Block(x)'
      BY <1>0, <1>1, <2>3, <3>1, <3>3, BlocksApartNext DEF Alone
    <3> QED
      BY <2>2, <2>3, <3>1, <3>2, <3>4 DEF Own
  <2>5. ASSUME NEW c \in Senders, Delete(c) PROVE Own(e)'
    <3>1. sentry[c] \in FinishedOnes /\ sentry[c] \in Taken /\ sentry[c] # e
      BY <1>0, <2>1, <2>5, TestedOrFinished DEF Delete, DeletesFinished
    <3>2. Deleted(sentry[c]) \subseteq Block(sentry[c])
      <4>1. CASE Cfg.concurrent
        BY <4>1 DEF Deleted
      <4>2. CASE ~Cfg.concurrent
        <5>1. 0 \in Subs(sentry[c])
          BY <4>2 DEF OwnBlocks, Subs, length_n
        <5>2. outport[sentry[c]] \in Nat /\ outport[sentry[c]] < Width /\ Width \in Nat
          BY <1>0, <3>1, WidthFact DEF ListTypes, Taken, Input
        <5>3. outport[sentry[c]] = Port(outport[sentry[c]], 0)
          BY <5>2, ModSmall DEF Port
        <5> QED
          BY <4>2, <5>1, <5>3 DEF Deleted, Block, Ports
      <4> QED
        BY <4>1, <4>2
    <3>3. \A p \in Block(e) : p \notin Block(sentry[c])
      BY <1>0, <2>1, <2>2, <3>1, BlocksApart DEF Alone, Taken, Input
    <3>4. active_resolvers' = [p \in DOMAIN active_resolvers \ Deleted(sentry[c]) |->
                                  active_resolvers[p]]
      BY <2>5 DEF Delete
    <3> QED
      BY <2>2, <2>3, <3>2, <3>3, <3>4 DEF Own
  <2>6. CASE UNCHANGED active_resolvers
    BY <2>2, <2>3, <2>6 DEF Own
  <2> QED
    BY <2>4, <2>5, <2>6, Movers
<1>3. ASSUME Take(d)
      PROVE  Own(e)'
  <2>1. PICK x \in resolver_data :
           /\ x \in Resolvers /\ sentry' = [sentry EXCEPT ![d] = x]
           /\ outport' = [outport EXCEPT ![x] = current_port]
           /\ DOMAIN active_resolvers' = DOMAIN active_resolvers \cup Ports(x, current_port)
           /\ \A p \in DOMAIN active_resolvers' :
                 active_resolvers'[p] = IF p \in Ports(x, current_port)
                                        THEN x ELSE active_resolvers[p]
    BY <1>0, <1>3, TakeStep
  <2>2. x = e
    BY <1>0, <2>1 DEF SenderTypes
  <2>3. Block(x)' = Ports(x, current_port)
    BY <1>0, <2>1, Fixed DEF ListTypes, Block, Ports
  <2> QED
    BY <2>1, <2>2, <2>3 DEF Own
<1> QED
  BY <1>0, <1>2, <1>3, TestedWas

LEMMA NextFirst ==
    ASSUME TypeOK, Places, OwnBlocks, FirstPort, [Next]_vars
    PROVE  FirstPort'
<1>0. /\ ListTypes /\ Cfg' = Cfg /\ Taken \subseteq Taken' /\ Taken \subseteq Resolvers
      /\ \A e \in Taken : given'[e] = given[e] /\ outport'[e] = outport[e]
  BY BlocksStay, Fixed DEF TypeOK, Taken, Input
<1>1. ASSUME Taken # {} PROVE \E f \in Taken' : given'[f] = 0 /\ outport'[f] = Cfg'.Port_min
  BY <1>0, <1>1 DEF FirstPort
<1>2. ASSUME NEW d \in Senders, Take(d) PROVE FirstPort'
  <2>1. PICK e \in resolver_data :
           /\ e \in Resolvers /\ Taken' = Taken \cup {e}
           /\ resolver_data' = resolver_data \ {e}
           /\ outport' = [outport EXCEPT ![e] = current_port]
           /\ \A r \in Resolvers :
                 given'[r] = IF r \in resolver_data' THEN given[r] + length_n(e) ELSE given[r]
    BY <1>2, TakeStep
  <2>2. main = "test" /\ UNCHANGED <<main, injectVars>>
    BY <1>2 DEF Take
  <2>3. ASSUME Taken = {} PROVE given'[e] = 0 /\ outport'[e] = Cfg'.Port_min
    BY <1>0, <2>1, <2>3 DEF FirstPort, ListTypes
  <2>4. Taken' # {} /\ \E f \in Taken' : given'[f] = 0 /\ outport'[f] = Cfg'.Port_min
    BY <1>1, <2>1, <2>3
  <2> QED
    BY <2>2, <2>4 DEF FirstPort, injectVars
<1>3. ASSUME ~(\E d \in Senders : Take(d))
      PROVE  UNCHANGED listVars /\ Taken' = Taken
  <2>1. UNCHANGED listVars
    BY <1>3, Movers DEF Delete
  <2> QED
    BY <2>1, Fixed DEF listVars, Taken, Input
<1>4. CASE \E k \in Injectors : inject_cache(k)
  <2>1. UNCHANGED <<main, listVars>>
    BY <1>4 DEF inject_cache, Inject_take, Inject_send
  <2>2. \A k \in Injectors : ipc'[k] # "done" => main = "inject"
    BY <1>4 DEF inject_cache, Inject_take, Inject_send, FirstPort
  <2>3. Taken' = Taken
    BY <2>1, Fixed DEF listVars, Taken, Input
  <2> QED
    BY <1>0, <1>1, <2>1, <2>2, <2>3 DEF FirstPort, listVars
<1>5. CASE Start_ratetest
  <2>1. UNCHANGED <<ipc, listVars>> /\ main' # "inject"
    BY <1>5 DEF Start_ratetest, Injected, Stop, End, injectVars
  <2>2. \A k \in Injectors : ipc[k] = "done"
    BY <1>5 DEF Start_ratetest, Injected, Stop, End, All_injected, FirstPort
  <2>3. Taken' = Taken
    BY <2>1, Fixed DEF listVars, Taken, Input
  <2> QED
    BY <1>0, <1>1, <2>1, <2>2, <2>3 DEF FirstPort, listVars
<1>6. CASE UNCHANGED <<main, injectVars>> /\ ~(\E d \in Senders : Take(d))
  BY <1>0, <1>1, <1>3, <1>6 DEF FirstPort, listVars, injectVars
<1> QED
  BY <1>2, <1>4, <1>5, <1>6, Movers

LEMMA NextAsked ==
    ASSUME TypeOK, Places, LastRegistered, FirstPort, AskedOnce, OwnBlocks, [Next]_vars
    PROVE  AskedOnce'
<1>0. /\ RoundTypes /\ AnswerTypes /\ Cfg' = Cfg /\ Taken \subseteq Taken'
      /\ Taken \subseteq Resolvers
      /\ \A e \in Taken : outport'[e] = outport[e]
      /\ \A e : Subs(e)' = Subs(e)
  BY BlocksStay, Fixed DEF TypeOK, Taken, Input
<1>1. ASSUME NEW e \in Resolvers \ Taken', NEW i \in Subs(e)
      PROVE  subpc'[e][i] = "idle"
  <2>1. e \in Resolvers \ Taken /\ subpc[e][i] = "idle"
    BY <1>0, <1>1 DEF AskedOnce
  <2>2. ASSUME NEW d \in Senders, rate_test_target(d) PROVE subpc'[e][i] = "idle"
    <3>1. CASE Start_round(d)
      <4>1. sentry[d] \in Taken
        BY <3>1, TestedOrFinished DEF Start_round, UnderTest, Testing
      <4> QED
        BY <1>0, <2>1, <3>1, <4>1 DEF Start_round, RoundTypes
    <3>2. CASE Collect(d) \/ Sum_up(d)
      BY <2>1, <3>2 DEF Collect, Sum_up
    <3> QED
      BY <2>2, <3>1, <3>2 DEF rate_test_target
  <2>3. ASSUME NEW r \in Resolvers, NEW j \in Subs(r), rate_test_target_sub(r, j)
        PROVE  subpc'[e][i] = "idle"
    <3>1. subpc[r][j] # "idle" /\ \E l : subpc' = [subpc EXCEPT ![r][j] = l]
      BY <2>3 DEF rate_test_target_sub, Sub_send, calc_last_second_rate, Sub_return, Sub_goto
    <3>2. r # e
      BY <2>1, <3>1 DEF AskedOnce
    <3> QED
      BY <1>0, <2>1, <3>1, <3>2 DEF RoundTypes
  <2> QED
    BY <2>1, <2>2, <2>3, Movers DEF roundState
<1>2. /\ asked \subseteq asked'
      /\ \A q \in asked' : AskedBy(q)
  <2>1. ASSUME NEW r \in Resolvers, NEW j \in Subs(r), rate_test_target_sub(r, j)
        PROVE  \/ UNCHANGED asked
               \/ /\ r \in Taken
                  /\ asked' = asked \cup {[port |-> Sub_port(r, j), entry |-> r, sub |-> j]}
    <3>1. CASE Sub_send(r, j)
      BY <3>1 DEF Sub_send, AskedOnce
    <3>2. CASE calc_last_second_rate(r, j) \/ Sub_return(r, j)
      BY <3>2 DEF calc_last_second_rate, Sub_return, subVars
    <3> QED
      BY <2>1, <3>1, <3>2 DEF rate_test_target_sub
  <2>2. ASSUME NEW g \in Handlers, Record(g) \/ (\E q \in asked : Lookup(g, q))
        PROVE  UNCHANGED asked
    BY <2>2 DEF Record, Lookup, subVars
  <2>3. ASSUME NEW r \in Resolvers, NEW j \in Subs(r), r \in Taken,
               asked' = asked \cup {[port |-> Sub_port(r, j), entry |-> r, sub |-> j]}
        PROVE  asked \subseteq asked' /\ \A q \in asked' : AskedBy(q)
    <3>1. j # No_sub
      BY DEF Subs, No_sub
    <3>2. AskedBy([port |-> Sub_port(r, j), entry |-> r, sub |-> j])
      BY <2>3, <3>1 DEF AskedBy
    <3> QED
      BY <2>3, <3>2 DEF AskedOnce
  <2>4. ASSUME NEW k \in Injectors, Inject_send(k)
        PROVE  asked \subseteq asked' /\ \A q \in asked' : AskedBy(q)
    <3> DEFINE q == [port |-> current_port, entry |-> ientry[k], sub |-> No_sub]
    <3>1. asked' = asked \cup {q} /\ ipc[k] = "send"
      BY <2>4 DEF Inject_send
    <3>2. current_port = Cfg.Port_min
      BY <3>1 DEF FirstPort
    <3>3. AskedBy(q)
      BY <3>2 DEF AskedBy
    <3> HIDE DEF q
    <3> QED
      BY <3>1, <3>3 DEF AskedOnce
  <2>5. ASSUME UNCHANGED asked
        PROVE  asked \subseteq asked' /\ \A q \in asked' : AskedBy(q)
    BY <2>5 DEF AskedOnce
  <2> QED
    BY <2>1, <2>2, <2>3, <2>4, <2>5, Movers DEF Arrival, answerState
<1>3. \A q \in asked' : AskedBy(q)'
  BY <1>0, <1>2 DEF AskedBy, Sub_port
<1>4. ASSUME NEW g \in Handlers, hpc'[g] = "record"
      PROVE  hpkt'[g] \in asked' /\ hentry'[g] \in Taken'
  <2>1. ASSUME NEW h \in Handlers, NEW q \in asked, Lookup(h, q)
        PROVE  hpkt'[g] \in asked /\ hentry'[g] \in Taken
    <3> DEFINE e == active_resolvers[q.port]
    <3>1. /\ hpkt' = [hpkt EXCEPT ![h] = q] /\ hpc' = [hpc EXCEPT ![h] = "record"]
          /\ hentry' = [hentry EXCEPT ![h] = e] /\ q.port \in DOMAIN active_resolvers
      BY <2>1 DEF Lookup
    <3>2. e \in Taken
      BY <3>1 DEF LastRegistered
    <3> HIDE DEF e
    <3> QED
      BY <1>0, <1>4, <3>1, <3>2 DEF AnswerTypes, AskedOnce
  <2>2. ASSUME NEW h \in Handlers, Record(h)
        PROVE  hpkt'[g] \in asked /\ hentry'[g] \in Taken
    <3>1. /\ hpkt' = [hpkt EXCEPT ![h] = NULL] /\ hpc' = [hpc EXCEPT ![h] = "free"]
          /\ hentry' = [hentry EXCEPT ![h] = NULL]
      BY <2>2 DEF Record
    <3> QED
      BY <1>0, <1>4, <3>1 DEF AnswerTypes, AskedOnce
  <2>3. ASSUME NEW r \in Resolvers, NEW j \in Subs(r), rate_test_target_sub(r, j)
        PROVE  UNCHANGED handlerVars
    BY <2>3 DEF rate_test_target_sub, Sub_send, calc_last_second_rate, Sub_return
  <2>4. ASSUME UNCHANGED handlerVars PROVE hpkt'[g] \in asked /\ hentry'[g] \in Taken
    BY <1>4, <2>4 DEF handlerVars, AskedOnce
  <2>5. ASSUME NEW k \in Injectors, Inject_send(k) PROVE UNCHANGED handlerVars
    BY <2>5 DEF Inject_send
  <2>6. \/ \E h \in Handlers, q \in asked : Lookup(h, q)
        \/ \E h \in Handlers : Record(h)
        \/ UNCHANGED handlerVars
    BY <2>3, <2>5, Movers DEF Arrival, answerState
  <2>7. hpkt'[g] \in asked /\ hentry'[g] \in Taken /\ asked \subseteq asked'
    BY <1>2, <2>1, <2>2, <2>4, <2>6
  <2> QED
    BY <1>0, <2>7
<1> QED
  BY <1>0, <1>1, <1>3, <1>4 DEF AskedOnce

\* An answer that is looked up leads to who asked, or to a test a round later.
LEMMA LookupFinds ==
    ASSUME TypeOK, OwnBlocks, GivenInOrder, PortsByNumber, PortOfBlock, LastRegistered,
           AskedOnce, NEW q \in asked, q.port \in DOMAIN active_resolvers,
           q.sub # No_sub, outport[q.entry] + q.sub < Port_max
    PROVE  \/ /\ active_resolvers[q.port] = q.entry
              /\ Sub_of(q.port, q.entry) = q.sub
           \/ \E f \in Resolvers : Cycled(q.entry, f)
<1> DEFINE a == q.entry
           i == q.sub
           e == active_resolvers[q.port]
<1>0. /\ ListTypes /\ Cfg \in Configs /\ a \in Taken /\ i \in Subs(a)
      /\ q.port = Sub_port(a, i)
  BY DEF TypeOK, AskedOnce, AskedBy
<1>1. /\ a \in Resolvers /\ length_n(a) \in Nat \ {0} /\ length_n(a) <= Round
      /\ Round <= Width /\ Round \in Nat /\ i \in Nat /\ i < length_n(a)
  BY <1>0, OwnLength DEF Taken, Subs
<1>2. /\ Port_max \in Nat /\ Port_max < Width /\ Cfg.Port_min \in Nat /\ Width \in Nat
      /\ Cfg.Port_min < Port_max
      /\ outport[a] \in Nat /\ outport[a] >= Cfg.Port_min
  BY <1>0, SettingFacts, WidthFact DEF PortsByNumber
<1>3. Sub_port(a, i) = outport[a] + i
  <2>1. /\ outport[a] - Cfg.Port_min + i \in Nat /\ Port_max - Cfg.Port_min \in Nat
        /\ outport[a] - Cfg.Port_min + i < Port_max - Cfg.Port_min
    BY <1>1, <1>2
  <2>2. (outport[a] - Cfg.Port_min + i) % (Port_max - Cfg.Port_min)
           = outport[a] - Cfg.Port_min + i
    BY <2>1, ModSmall
  <2> QED
    BY <1>1, <1>2, <2>2 DEF Sub_port
<1>4. q.port = Port(outport[a], i)
  BY <1>0, <1>1, <1>2, <1>3, ModSmall DEF Port
<1>5. q.port \in Block(a) /\ q.port \in Block(e) /\ e \in Taken
  BY <1>0, <1>4 DEF Block, Ports, PortOfBlock, LastRegistered
<1>6. CASE e = a
  <2>1. q.port - outport[a] = i /\ i < Width
    BY <1>0, <1>1, <1>2, <1>3
  <2> QED
    BY <1>1, <1>2, <1>6, <2>1, ModSmall DEF Sub_of
<1>7. CASE e # a
  <2>1. given[a] <= given[e]
    BY <1>0, <1>5 DEF LastRegistered
  <2>2. ~Before(e, a)
    BY <1>0, <1>1, <1>5, <2>1, OwnLength DEF Before, ListTypes, Taken
  <2>3. Before(a, e) /\ Cycled(a, e)
    BY <1>0, <1>5, <1>7, <2>2, BlocksApart
  <2> QED
    BY <1>5, <2>3 DEF Taken, Input
<1> QED
  BY <1>6, <1>7

\* What answers a query of inject_cache leads to the first subroutine of the first test.
LEMMA LookupFirst ==
    ASSUME TypeOK, OwnBlocks, GivenInOrder, PortsByNumber, PortOfBlock, LastRegistered,
           FirstPort, AskedOnce, NEW q \in asked, q.port \in DOMAIN active_resolvers,
           q.sub = No_sub, NEW e, e = active_resolvers[q.port]
    PROVE  \/ given[e] = 0 /\ Sub_of(q.port, e) = 0
           \/ \E f \in Resolvers : Cycled(f, e)
<1>0. ListTypes /\ Cfg \in Configs /\ q.port = Cfg.Port_min
  BY DEF TypeOK, AskedOnce, AskedBy
<1>1. e \in Taken /\ q.port \in Block(e)
  BY DEF LastRegistered, PortOfBlock
<1>2. PICK f \in Taken : given[f] = 0 /\ outport[f] = Cfg.Port_min
  BY <1>1 DEF FirstPort
<1>3. /\ f \in Resolvers /\ f \in Input /\ e \in Resolvers /\ e \in Input
      /\ length_n(e) \in Nat \ {0} /\ length_n(f) \in Nat \ {0}
  BY <1>0, <1>1, <1>2, OwnLength DEF Taken, Input
<1>4. /\ Cfg.Port_min \in Nat /\ Cfg.Port_min < Width /\ Width \in Nat \ {0}
      /\ given[e] \in Nat
  BY <1>0, <1>3, SettingFacts, WidthFact DEF ListTypes
<1>5. 0 \in Subs(f) /\ Port(Cfg.Port_min, 0) = Cfg.Port_min
  BY <1>3, <1>4, ModSmall DEF Subs, Port
<1>6. q.port \in Block(f)
  BY <1>0, <1>2, <1>5 DEF Block, Ports
<1>7. CASE e = f
  <2>1. Sub_of(q.port, e) = 0
    BY <1>0, <1>2, <1>4, <1>7, ModSmall DEF Sub_of
  <2> QED
    BY <1>2, <1>7, <2>1
<1>8. CASE e # f
  <2>1. ~Before(e, f)
    BY <1>2, <1>3, <1>4 DEF Before
  <2> QED
    BY <1>1, <1>2, <1>3, <1>6, <1>8, <2>1, BlocksApart
<1> QED
  BY <1>7, <1>8

\* What was looked up stays counted for who asked, or for the first test.
LEMMA NextAnswers ==
    ASSUME TypeOK, Places, OwnBlocks, GivenInOrder, PortsByNumber, PortOfBlock,
           LastRegistered, FirstPort, AskedOnce, AnswersCountedForAsker, [Next]_vars
    PROVE  AnswersCountedForAsker'
<1> DEFINE Asker(q, e, i) == \/ e = q.entry /\ i = q.sub
                             \/ outport[q.entry] + q.sub >= Port_max
                             \/ \E f \in Resolvers : Cycled(q.entry, f)
           First(e, i) == \/ given[e] = 0 /\ i = 0
                          \/ \E f \in Resolvers : Cycled(f, e)
           Counted(q, e, i) == IF q.sub = No_sub THEN First(e, i) ELSE Asker(q, e, i)
<1>0. /\ AnswerTypes /\ Port_max' = Port_max
      /\ \A e \in Taken : outport'[e] = outport[e] /\ given'[e] = given[e]
      /\ \A e \in Taken, f \in Resolvers : Cycled(e, f) => Cycled(e, f)'
      /\ Taken \subseteq Resolvers
  BY BlocksStay DEF TypeOK, Taken, Input
<1>1. \A q \in asked : q.sub # No_sub => q.entry \in Taken
  BY DEF AskedOnce, AskedBy
<1>2. \A e \in Taken, f \in Resolvers : Cycled(f, e) => Cycled(f, e)'
  <2> SUFFICES ASSUME NEW e \in Taken, NEW f \in Resolvers, Cycled(f, e)
               PROVE  f \notin resolver_data
    BY <1>0, BlocksStay
  <2> SUFFICES ASSUME f \in resolver_data PROVE FALSE
    OBVIOUS
  <2>1. given[e] + length_n(e) <= given[f]
    BY DEF GivenInOrder, Before
  <2>2. given[e] + length_n(e) - given[f] > Round /\ Round \in Nat
    BY OwnLength DEF Cycled, Round, TypeOK, Taken
  <2>3. given[e] \in Nat /\ given[f] \in Nat /\ length_n(e) \in Nat
    BY <1>0, LengthFacts DEF TypeOK, ListTypes
  <2> QED
    BY <2>1, <2>2, <2>3
<1>3. ASSUME NEW q \in asked, NEW e \in Taken, NEW i, Counted(q, e, i)
      PROVE  Counted(q, e, i)'
  <2>1. CASE q.sub = No_sub
    BY <1>0, <1>2, <1>3, <2>1
  <2>2. CASE q.sub # No_sub
    BY <1>0, <1>1, <1>3, <2>2
  <2> QED
    BY <2>1, <2>2
<1>4. ASSUME NEW q \in asked, q.port \in DOMAIN active_resolvers, NEW e \in Taken,
             e = active_resolvers[q.port]
      PROVE  Counted(q, e, Sub_of(q.port, e))
  <2>1. CASE q.sub = No_sub
    BY <1>4, <2>1, LookupFirst
  <2>2. CASE q.sub # No_sub
    <3>1. q.entry \in Taken
      BY <1>1, <2>2
    <3>2. CASE outport[q.entry] + q.sub >= Port_max
      BY <2>2, <3>2
    <3>3. CASE outport[q.entry] + q.sub < Port_max
      <4>1. \/ e = q.entry /\ Sub_of(q.port, q.entry) = q.sub
            \/ \E f \in Resolvers : Cycled(q.entry, f)
        BY <1>4, <2>2, <3>3, LookupFinds
      <4> QED
        BY <2>2, <4>1
    <3>4. outport[q.entry] \in Nat /\ q.sub \in Nat /\ Port_max \in Nat
      BY <1>0, <2>2, <3>1, SettingFacts, WidthFact DEF AnswerTypes, Queries, TypeOK, ListTypes
    <3> QED
      BY <3>2, <3>3, <3>4
  <2> QED
    BY <2>1, <2>2
<1>5. ASSUME NEW g \in Handlers, hpc[g] = "record"
      PROVE  /\ hpkt[g] \in asked /\ hentry[g] \in Taken
             /\ Counted(hpkt[g], hentry[g], hsub[g])
  BY <1>5 DEF AnswersCountedForAsker, CountedForAsker, CountedForFirst, AskedOnce
<1> SUFFICES ASSUME NEW g \in Handlers, hpc'[g] = "record"
             PROVE  \E q \in asked, e \in Taken : \E i :
                       /\ hpkt'[g] = q /\ hentry'[g] = e /\ hsub'[g] = i
                       /\ Counted(q, e, i)
  <2>1. ASSUME NEW g \in Handlers, NEW q \in asked, NEW e \in Taken, NEW i,
               hpkt'[g] = q, hentry'[g] = e, hsub'[g] = i, Counted(q, e, i)
        PROVE  IF hpkt'[g].sub = No_sub THEN CountedForFirst(g)' ELSE CountedForAsker(g)'
    <3>1. Counted(q, e, i)'
      BY <1>3, <2>1
    <3> QED
      BY <2>1, <3>1 DEF CountedForFirst, CountedForAsker
  <2> QED
    BY <2>1 DEF AnswersCountedForAsker
<1> HIDE DEF Counted
<1>6. ASSUME NEW h \in Handlers, NEW q \in asked, Lookup(h, q)
      PROVE  \E p \in asked, e \in Taken : \E i :
                /\ hpkt'[g] = p /\ hentry'[g] = e /\ hsub'[g] = i /\ Counted(p, e, i)
  <2>1. PICK e \in Taken : q.port \in DOMAIN active_resolvers /\ e = active_resolvers[q.port]
    BY <1>6 DEF Lookup, LastRegistered
  <2>2. /\ hpc' = [hpc EXCEPT ![h] = "record"] /\ hpkt' = [hpkt EXCEPT ![h] = q]
        /\ hentry' = [hentry EXCEPT ![h] = e] /\ hsub' = [hsub EXCEPT ![h] = Sub_of(q.port, e)]
    BY <1>6, <2>1 DEF Lookup
  <2>3. CASE g = h
    <3>1. hpkt'[g] = q /\ hentry'[g] = e /\ hsub'[g] = Sub_of(q.port, e)
      BY <1>0, <2>2, <2>3 DEF AnswerTypes
    <3> QED
      BY <1>4, <2>1, <3>1
  <2>4. CASE g # h
    <3>1. /\ hpc[g] = "record" /\ hpkt'[g] = hpkt[g] /\ hentry'[g] = hentry[g]
          /\ hsub'[g] = hsub[g]
      BY <1>0, <2>2, <2>4 DEF AnswerTypes
    <3> QED
      BY <1>5, <3>1
  <2> QED
    BY <2>3, <2>4
<1>7. ASSUME NEW h \in Handlers, Record(h)
      PROVE  /\ hpc[g] = "record" /\ hpkt'[g] = hpkt[g]
             /\ hentry'[g] = hentry[g] /\ hsub'[g] = hsub[g]
  <2>1. /\ hpc' = [hpc EXCEPT ![h] = "free"] /\ hpkt' = [hpkt EXCEPT ![h] = NULL]
        /\ hentry' = [hentry EXCEPT ![h] = NULL] /\ hsub' = [hsub EXCEPT ![h] = 0]
    BY <1>7 DEF Record
  <2>2. g # h
    BY <1>0, <2>1 DEF AnswerTypes
  <2> QED
    BY <1>0, <2>1, <2>2 DEF AnswerTypes
<1>8. ASSUME UNCHANGED handlerVars
      PROVE  /\ hpc[g] = "record" /\ hpkt'[g] = hpkt[g]
             /\ hentry'[g] = hentry[g] /\ hsub'[g] = hsub[g]
  BY <1>8 DEF handlerVars
<1>9. ASSUME NEW r \in Resolvers, NEW j \in Subs(r), rate_test_target_sub(r, j)
      PROVE  UNCHANGED handlerVars
  BY <1>9 DEF rate_test_target_sub, Sub_send, calc_last_second_rate, Sub_return
<1>10. ASSUME NEW k \in Injectors, Inject_send(k) PROVE UNCHANGED handlerVars
  BY <1>10 DEF Inject_send
<1>11. \/ \E h \in Handlers, q \in asked : Lookup(h, q)
       \/ \E h \in Handlers : Record(h)
       \/ UNCHANGED handlerVars
  BY <1>9, <1>10, Movers DEF Arrival, answerState
<1> QED
  BY <1>5, <1>6, <1>7, <1>8, <1>11

PortsInv == ConserveInv /\ PortInv /\ BlockInv

LEMMA InitBlocks == Init => BlockInv
<1> SUFFICES ASSUME Init PROVE BlockInv
  OBVIOUS
<1>1. /\ resolver_data = Input /\ Taken = {} /\ current_port = Cfg.Port_min
      /\ \A e \in Resolvers : given[e] = 0
      /\ \A d \in Senders : spc[d] \in {"take", "done"}
      /\ DOMAIN active_resolvers = {} /\ asked = {}
      /\ \A g \in Handlers : hpc[g] = "free"
      /\ \A e \in Resolvers : \A i \in Subs(e) : subpc[e][i] = "idle"
  BY DEF Init, Taken
<1>2. Input \subseteq Resolvers
  BY DEF Input
<1>3. DeletesFinished /\ PortsKept /\ AnswersCountedForAsker
  BY <1>1 DEF DeletesFinished, PortsKept, AnswersCountedForAsker, Testing
<1>4. GivenInOrder /\ PortsByNumber /\ LastRegistered
  BY <1>1, <1>2 DEF GivenInOrder, PortsByNumber, LastRegistered
<1>5. AskedOnce
  BY <1>1 DEF AskedOnce
<1>6. FirstPort
  BY <1>1, <1>2 DEF FirstPort, Init
<1> QED
  BY <1>3, <1>4, <1>5, <1>6 DEF BlockInv, BlocksInv

LEMMA NextBlocks == PortsInv /\ [Next]_vars => PortsInv'
<1> SUFFICES ASSUME PortsInv, [Next]_vars PROVE PortsInv'
  OBVIOUS
<1>1. ConserveInv' /\ TypeOK /\ Places /\ PortOfBlock /\ ConserveInv /\ DeletesFinished
  BY NextConserves DEF PortsInv, ConserveInv, PortInv, BlockInv
<1>2. PortInv'
  BY NextTyped, NextPorts, NextHandlers DEF PortsInv, PortInv
<1>3. DeletesFinished'
  BY <1>1, NextDeletesFinished
<1>4. OwnBlocks' <=> OwnBlocks
  BY Fixed DEF OwnBlocks
<1>5. ASSUME OwnBlocks
      PROVE  /\ GivenInOrder' /\ PortsByNumber' /\ LastRegistered' /\ FirstPort' /\ AskedOnce'
             /\ PortsKept' /\ AnswersCountedForAsker'
  <2>1. /\ GivenInOrder /\ PortsByNumber /\ LastRegistered /\ FirstPort /\ AskedOnce
        /\ PortsKept /\ AnswersCountedForAsker
    BY <1>5 DEF PortsInv, BlockInv, BlocksInv
  <2> QED
    BY <1>1, <1>5, <2>1, NextGiven, NextLast, NextFirst, NextAsked, NextKept,
       NextAnswers
<1> QED
  BY <1>1, <1>2, <1>3, <1>4, <1>5 DEF PortsInv, BlockInv, BlocksInv

LEMMA PortsSpec == Spec => []PortsInv
<1>1. Init => PortsInv
  BY InitConserves, InitBlocks, InitTyped DEF Init, PortsInv, PortInv, PortOfBlock, HandlersOfTests
<1> QED
  BY <1>1, NextBlocks, PTL DEF Spec

\* A port that a test registers leads to it as long as it is tested (609-651): nobody
\* registers it again, and nobody who deletes the ports of an earlier test takes it
\* away, unless the ports have gone once round between the two tests.
THEOREM PortsStay == Spec => []PortsKept
<1>1. PortsInv => PortsKept
  BY DEF PortsInv, BlockInv, BlocksInv, PortsKept
<1> QED
  BY <1>1, PortsSpec, PTL

\* An answer that Handle_pkt looks up (696-714) is counted for the test and the
\* subroutine that asked, however late it comes, but for what was asked at Port_max
\* and what comes when the ports have gone once round.  A late answer to inject_cache
\* (731, 755) is counted as well, for one test only: the first, and its first port.
THEOREM AnswersCounted == Spec => []AnswersCountedForAsker
<1>1. PortsInv => AnswersCountedForAsker
  BY DEF PortsInv, BlockInv, BlocksInv, AnswersCountedForAsker
<1> QED
  BY <1>1, PortsSpec, PTL

-----------------------------------------------------------------------------
(***************************************************************************)
(* The rounds of a test are barriers: a round ends with the last             *)
(* subroutine's report, what is summed up for a rate was measured at it, and *)
(* no round follows the last rate.                                           *)
(*                                                                          *)
(* The sender that collects knows two numbers, how many go on and how many   *)
(* have given up in this round or before.  The argument is that those who    *)
(* are at work, those whose report is in the channel and these two make up   *)
(* all subroutines, so that the sender is through when nobody is at work and *)
(* the channel is empty.                                                     *)
(***************************************************************************)
RoundOf(e) == <<subid_pool[e], chan_count[e], ret_chan[e], rate_pos[e], acc_rate_data[e],
                subpc[e], rate_curve_pair[e]>>

\* A sender is at l with e.
Stage(e, l) == \E d \in Senders : sentry[d] = e /\ spc[d] = l

Busy(e) == {i \in Subs(e) : subpc[e][i] # "idle"}
Quiet(e) == Busy(e) = {} /\ ret_chan[e] = <<>>

\* The property, for one resolver, and what it says of who measured what.
Summed(e) ==
    \A k \in 1 .. Len(acc_rate_data[e]) :
        /\ acc_rate_data[e][k] # {}
        /\ acc_rate_data[e][k] =
              {<<i, k - 1>> : i \in {j \in Subs(e) : Len(rate_curve_pair[e][j]) >= k}}
Pairs(e) ==
    \A i \in Subs(e) : \A k \in 1 .. Len(rate_curve_pair[e][i]) :
        rate_curve_pair[e][i][k] = k - 1

Fresh(e) ==
    /\ subid_pool[e] = {} /\ rate_pos[e] = 0 /\ acc_rate_data[e] = <<>>
    /\ \A i \in Subs(e) : rate_curve_pair[e][i] = <<>>

\* Before a round: who has not given up has measured at all the rates before.
Ready(e) ==
    /\ Len(acc_rate_data[e]) = rate_pos[e] /\ subid_pool[e] # Subs(e)
    /\ \A i \in Subs(e) : IF i \in subid_pool[e]
                          THEN Len(rate_curve_pair[e][i]) <= rate_pos[e]
                          ELSE Len(rate_curve_pair[e][i]) = rate_pos[e]

\* During a round: every subroutine is at work, in the channel or counted, as one
\* that goes on or as one that has given up; at the last rate nobody goes on.
Reported(e) == {ret_chan[e][k] : k \in 1 .. Len(ret_chan[e])}

Counts(e) ==
    /\ Cardinality(Busy(e)) + Len(ret_chan[e]) + chan_count[e] + Cardinality(subid_pool[e])
         = length_n(e)
    /\ Busy(e) \cap subid_pool[e] = {}
    /\ Reported(e) \cap (Busy(e) \cup subid_pool[e]) = {}
    /\ \A j, k \in 1 .. Len(ret_chan[e]) :
          ret_chan[e][j] = ret_chan[e][k] /\ ret_chan[e][j] # -1 => j = k
    /\ rate_pos[e] = Cfg.curve - 1 => chan_count[e] = 0 /\ -1 \notin Reported(e)

Done(e, i) == IF subpc[e][i] \in {"send", "calc"} THEN rate_pos[e] ELSE rate_pos[e] + 1

Measuring(e) ==
    /\ Len(acc_rate_data[e]) = rate_pos[e]
    /\ \A i \in Subs(e) : IF i \in subid_pool[e]
                          THEN Len(rate_curve_pair[e][i]) <= rate_pos[e] + 1
                          ELSE Len(rate_curve_pair[e][i]) = Done(e, i)
    /\ \E i \in Subs(e) : i \in Busy(e) \/ Len(rate_curve_pair[e][i]) = rate_pos[e] + 1

\* After a round: at the last rate all have given up.
Complete(e) ==
    /\ Measuring(e)
    /\ rate_pos[e] = Cfg.curve - 1 => Cardinality(subid_pool[e]) = length_n(e)

RoundInv(e) ==
    /\ rate_pos[e] < Cfg.curve /\ Summed(e) /\ Pairs(e)
    /\ e \in resolver_data => Fresh(e)
    /\ ~Stage(e, "collect") => Quiet(e)
    /\ Stage(e, "round") => Ready(e)
    /\ Stage(e, "collect") => Counts(e) /\ Measuring(e)
    /\ Stage(e, "sum") => Complete(e)

-----------------------------------------------------------------------------
(***************************************************************************)
(* Numbers of subroutines, and who is at which stage.                       *)
(***************************************************************************)
LEMMA SubsCount ==
    ASSUME Cfg \in Configs, NEW e \in Resolvers
    PROVE  /\ IsFiniteSet(Subs(e)) /\ Cardinality(Subs(e)) = length_n(e)
           /\ length_n(e) \in Nat
           /\ \A T \in SUBSET Subs(e) :
                 /\ IsFiniteSet(T) /\ Cardinality(T) \in Nat
                 /\ Cardinality(T) = length_n(e) <=> T = Subs(e)
                 /\ Cardinality(Subs(e) \ T) = length_n(e) - Cardinality(T)
<1>1. length_n(e) \in Nat
  BY LengthFacts
<1>2. IsFiniteSet(Subs(e)) /\ Cardinality(Subs(e)) = length_n(e)
  <2>1. /\ IsFiniteSet(0 .. (length_n(e) - 1))
        /\ Cardinality(0 .. (length_n(e) - 1)) =
              IF 0 > length_n(e) - 1 THEN 0 ELSE (length_n(e) - 1) - 0 + 1
    BY <1>1, FS_Interval
  <2> QED
    BY <1>1, <2>1 DEF Subs
<1>3. ASSUME NEW T \in SUBSET Subs(e)
      PROVE  /\ IsFiniteSet(T) /\ Cardinality(T) \in Nat
             /\ Cardinality(T) = length_n(e) <=> T = Subs(e)
             /\ Cardinality(Subs(e) \ T) = length_n(e) - Cardinality(T)
  <2>1. IsFiniteSet(T) /\ (Cardinality(Subs(e)) = Cardinality(T) => Subs(e) = T)
    BY <1>2, FS_Subset
  <2>2. Cardinality(T) \in Nat
    BY <2>1, FS_CardinalityType
  <2>3. Cardinality(Subs(e) \ T) = Cardinality(Subs(e)) - Cardinality(Subs(e) \cap T)
    BY <1>2, FS_Difference
  <2>4. Subs(e) \cap T = T
    OBVIOUS
  <2> QED
    BY <1>2, <2>1, <2>2, <2>3, <2>4
<1> QED
  BY <1>1, <1>2, <1>3

Rounds == {"round", "collect", "sum"}

\* A resolver under test is at the stage of the one sender that tests it.
LEMMA OneStage ==
    ASSUME OneTester, NEW d \in Senders, spc[d] \in Rounds, NEW l \in Rounds
    PROVE  Stage(sentry[d], l) <=> spc[d] = l
BY DEF OneTester, Testing, Stage, Rounds

\* A resolver's rounds depend on its own variables, and on where its sender is.
LEMMA RoundFrame ==
    ASSUME [Next]_vars, NEW e \in Resolvers, RoundInv(e),
           RoundOf(e)' = RoundOf(e), e \in resolver_data' => e \in resolver_data,
           \A l \in Rounds : Stage(e, l)' <=> Stage(e, l)
    PROVE  RoundInv(e)'
<1>1. /\ Cfg' = Cfg /\ Subs(e)' = Subs(e) /\ length_n(e)' = length_n(e)
  BY Fixed
<1>2. /\ subid_pool'[e] = subid_pool[e] /\ chan_count'[e] = chan_count[e]
      /\ ret_chan'[e] = ret_chan[e] /\ rate_pos'[e] = rate_pos[e]
      /\ acc_rate_data'[e] = acc_rate_data[e] /\ subpc'[e] = subpc[e]
      /\ rate_curve_pair'[e] = rate_curve_pair[e]
  BY DEF RoundOf
<1>3. UNCHANGED <<Busy(e), Reported(e)>>
  BY <1>1, <1>2 DEF Busy, Reported
<1>4. (Quiet(e)' <=> Quiet(e)) /\ (Fresh(e)' <=> Fresh(e)) /\ (Ready(e)' <=> Ready(e))
  BY <1>1, <1>2, <1>3 DEF Quiet, Fresh, Ready
<1>5. (Summed(e)' <=> Summed(e)) /\ (Pairs(e)' <=> Pairs(e))
  BY <1>1, <1>2 DEF Summed, Pairs
<1>6. Counts(e)' <=> Counts(e)
  BY <1>1, <1>2, <1>3 DEF Counts
<1>7. Measuring(e)' <=> Measuring(e)
  BY <1>1, <1>2, <1>3 DEF Measuring, Done
<1>8. Complete(e)' <=> Complete(e)
  BY <1>1, <1>2, <1>7 DEF Complete
<1>9. (rate_pos[e] < Cfg.curve)' <=> rate_pos[e] < Cfg.curve
  BY <1>1, <1>2
<1> QED
  BY <1>4, <1>5, <1>6, <1>7, <1>8, <1>9 DEF RoundInv, Rounds

\* What a sender's step to the stage m changes.
LEMMA StageStep ==
    ASSUME SenderTypes, OneTester, NEW d \in Senders, spc[d] \in Rounds, NEW m,
           spc' = [spc EXCEPT ![d] = m], sentry' = sentry, NEW l \in Rounds
    PROVE  /\ Stage(sentry[d], l)' <=> l = m
           /\ \A r : r # sentry[d] => (Stage(r, l)' <=> Stage(r, l))
<1>1. /\ spc'[d] = m
      /\ \A c \in Senders : c # d => spc'[c] = spc[c]
  BY DEF SenderTypes
<1>2. \A c \in Senders : sentry[c] = sentry[d] /\ spc[c] = l => c = d
  BY DEF OneTester, Testing, Rounds
<1>3. Stage(sentry[d], l)' <=> l = m
  BY <1>1, <1>2 DEF Stage
<1>4. ASSUME NEW r, r # sentry[d] PROVE Stage(r, l)' <=> Stage(r, l)
  BY <1>1, <1>4 DEF Stage
<1> QED
  BY <1>3, <1>4

\* A resolver under test is not in the list.
LEMMA TestedTaken ==
    ASSUME Places, NEW e, NEW l \in Rounds, Stage(e, l)
    PROVE  e \notin resolver_data
<1>1. e \in UnderTest
  BY DEF Stage, UnderTest, Testing, Rounds
<1> QED
  BY <1>1 DEF Places

\* A subroutine at work belongs to a test that collects.
LEMMA AtWork ==
    ASSUME ConserveInv, NEW e \in Resolvers, RoundInv(e), NEW i \in Busy(e)
    PROVE  /\ Stage(e, "collect") /\ ~Stage(e, "round") /\ ~Stage(e, "sum")
           /\ e \notin resolver_data /\ Counts(e) /\ Measuring(e)
           /\ rate_pos[e] < Cfg.curve /\ Summed(e) /\ Pairs(e)
<1>1. Stage(e, "collect")
  BY DEF RoundInv, Quiet
<1>2. PICK d \in Senders : sentry[d] = e /\ spc[d] = "collect"
  BY <1>1 DEF Stage
<1>3. ~Stage(e, "round") /\ ~Stage(e, "sum")
  BY <1>2, OneStage DEF ConserveInv, Rounds
<1>4. e \notin resolver_data
  BY <1>1, TestedTaken DEF ConserveInv, Rounds
<1> QED
  BY <1>1, <1>3, <1>4 DEF RoundInv

\* The types of one resolver's rounds.
RoundType(e) ==
    /\ e \in Resolvers
    /\ subid_pool[e] \in SUBSET Subs(e)
    /\ chan_count[e] \in Nat /\ rate_pos[e] \in Nat
    /\ ret_chan[e] \in Seq(Subs(e) \cup {-1}) /\ Len(ret_chan[e]) \in Nat
    /\ acc_rate_data[e] \in Seq(SUBSET (Subs(e) \X Nat)) /\ Len(acc_rate_data[e]) \in Nat
    /\ subpc[e] \in [Subs(e) -> {"idle", "send", "calc", "return", "return_none"}]
    /\ \A i \in Subs(e) : /\ rate_curve_pair[e][i] \in Seq(Nat)
                          /\ Len(rate_curve_pair[e][i]) \in Nat
    /\ Busy(e) \in SUBSET Subs(e)
    /\ Cfg \in Configs /\ Cfg.curve \in Nat

LEMMA RoundTypeFact ==
    ASSUME TypeOK, NEW e \in Resolvers
    PROVE  RoundType(e)
<1>1. RoundTypes /\ Cfg \in Configs /\ Cfg.curve \in Nat
  BY SettingFacts DEF TypeOK
<1>2. Len(ret_chan[e]) \in Nat
  BY <1>1, LenProperties DEF RoundTypes
<1>3. Len(acc_rate_data[e]) \in Nat
  BY <1>1, LenProperties DEF RoundTypes
<1>4. \A i \in Subs(e) : rate_curve_pair[e][i] \in Seq(Nat)
  BY <1>1 DEF RoundTypes
<1>5. \A i \in Subs(e) : Len(rate_curve_pair[e][i]) \in Nat
  BY <1>4, LenProperties
<1> QED
  BY <1>1, <1>2, <1>3, <1>4, <1>5 DEF RoundTypes, RoundType, Busy

-----------------------------------------------------------------------------
(***************************************************************************)
(* The steps of the sender.                                                 *)
(***************************************************************************)
LEMMA StartRounds ==
    ASSUME ConserveInv, [Next]_vars, NEW d \in Senders, Start_round(d),
           NEW e, e = sentry[d], RoundInv(e)
    PROVE  RoundInv(e)'
<1>0. /\ spc[d] = "round" /\ SenderTypes /\ RoundTypes /\ e \in Resolvers
      /\ Cfg' = Cfg /\ Subs(e)' = Subs(e) /\ length_n(e)' = length_n(e)
  BY Fixed DEF ConserveInv, TypeOK, SenderTypes, Start_round
<1>1. RoundType(e)
  BY <1>0, RoundTypeFact DEF ConserveInv
<1>2. /\ subpc'[e] = [i \in Subs(e) |-> IF i \in subid_pool[e] THEN "idle" ELSE "send"]
      /\ chan_count'[e] = 0
      /\ sentry' = sentry /\ spc' = [spc EXCEPT ![d] = "collect"]
      /\ UNCHANGED <<subid_pool, rate_pos, acc_rate_data, ret_chan, rate_curve_pair,
                     resolver_data>>
  BY <1>0 DEF Start_round, RoundTypes, listVars, subVars
<1>3. \A l \in Rounds : Stage(e, l)' <=> l = "collect"
  BY <1>0, <1>2, StageStep DEF ConserveInv, Rounds
<1>4. e \notin resolver_data /\ ~Stage(e, "collect") /\ Stage(e, "round")
  BY <1>0, OneStage, TestedTaken DEF ConserveInv, Rounds
<1>5. Ready(e) /\ Quiet(e) /\ rate_pos[e] < Cfg.curve /\ Summed(e) /\ Pairs(e)
  BY <1>4 DEF RoundInv
<1>6. Busy(e)' = Subs(e) \ subid_pool[e]
  BY <1>0, <1>2 DEF Busy
<1>7. Reported(e)' = {} /\ ret_chan'[e] = <<>> /\ Len(ret_chan'[e]) = 0
  BY <1>2, <1>5 DEF Quiet, Reported
<1>8. Cardinality(Subs(e) \ subid_pool[e]) = length_n(e) - Cardinality(subid_pool[e])
      /\ length_n(e) \in Nat /\ Cardinality(subid_pool[e]) \in Nat
  BY <1>1, SubsCount DEF RoundType
<1>9. Counts(e)'
  BY <1>0, <1>2, <1>6, <1>7, <1>8 DEF Counts
<1>10. Measuring(e)'
  <2>1. /\ Len(acc_rate_data[e]) = rate_pos[e] /\ subid_pool[e] # Subs(e)
        /\ rate_pos[e] \in Nat
        /\ \A i \in Subs(e) : /\ Len(rate_curve_pair[e][i]) \in Nat
                              /\ IF i \in subid_pool[e]
                                 THEN Len(rate_curve_pair[e][i]) <= rate_pos[e]
                                 ELSE Len(rate_curve_pair[e][i]) = rate_pos[e]
    BY <1>1, <1>5 DEF Ready, RoundType
  <2>2. \A i \in Subs(e) :
          IF i \in subid_pool[e] THEN Len(rate_curve_pair[e][i]) <= rate_pos[e] + 1
                                 ELSE Len(rate_curve_pair[e][i]) = Done(e, i)'
    BY <1>2, <2>1 DEF Done
  <2>3. \E i \in Subs(e) : i \in Busy(e)'
    BY <1>1, <1>6, <2>1 DEF RoundType
  <2> QED
    BY <1>0, <1>2, <2>1, <2>2, <2>3 DEF Measuring
<1>11. Summed(e)' /\ Pairs(e)'
  BY <1>0, <1>2, <1>5 DEF Summed, Pairs
<1> QED
  BY <1>0, <1>2, <1>3, <1>4, <1>5, <1>9, <1>10, <1>11 DEF RoundInv, Rounds

\* A report moves from the channel to one of the two numbers; when these are all,
\* nothing is left.
LEMMA Moved ==
    ASSUME NEW b \in Nat, NEW l \in Nat \ {0}, NEW c \in Nat, NEW p \in Nat, NEW n \in Nat,
           b + l + c + p = n
    PROVE  /\ b + (l - 1) + (c + 1) + p = n /\ b + (l - 1) + c + (p + 1) = n
           /\ l - 1 \in Nat /\ c + 1 \in Nat /\ p + 1 \in Nat
OBVIOUS

LEMMA NobodyLeft ==
    ASSUME NEW b \in Nat, NEW l \in Nat, NEW c \in Nat, NEW p \in Nat, NEW n \in Nat,
           b + l + c + p = n
    PROVE  /\ c = n - p => b = 0 /\ l = 0
           /\ b = 0 /\ l = 0 /\ c = 0 => p = n
OBVIOUS

LEMMA CollectRounds ==
    ASSUME ConserveInv, [Next]_vars, NEW d \in Senders, Collect(d),
           NEW e, e = sentry[d], RoundInv(e)
    PROVE  RoundInv(e)'
<1> DEFINE subid == Head(ret_chan[e])
           pool == IF subid # -1 THEN subid_pool[e] \cup {subid} ELSE subid_pool[e]
           count == IF subid = -1 THEN chan_count[e] + 1 ELSE chan_count[e]
           full == count = length_n(e) - Cardinality(pool)
           m == IF full THEN "sum" ELSE "collect"
<1>0. /\ spc[d] = "collect" /\ SenderTypes /\ RoundTypes /\ e \in Resolvers
      /\ Cfg' = Cfg /\ Subs(e)' = Subs(e) /\ length_n(e)' = length_n(e)
  BY Fixed DEF ConserveInv, TypeOK, SenderTypes, Collect
<1>1. RoundType(e)
  BY <1>0, RoundTypeFact DEF ConserveInv
<1>2. /\ ret_chan[e] # <<>>
      /\ subid_pool'[e] = pool /\ chan_count'[e] = count
      /\ ret_chan'[e] = Tail(ret_chan[e])
      /\ sentry' = sentry /\ spc' = [spc EXCEPT ![d] = m]
      /\ UNCHANGED <<rate_pos, acc_rate_data, subpc, rate_curve_pair, resolver_data>>
  <2>1. /\ ret_chan[e] # <<>>
        /\ subid_pool' = [subid_pool EXCEPT ![e] = pool]
        /\ chan_count' = [chan_count EXCEPT ![e] = count]
        /\ ret_chan' = [ret_chan EXCEPT ![e] = Tail(ret_chan[e])]
        /\ sentry' = sentry /\ spc' = [spc EXCEPT ![d] = m]
    BY DEF Collect, All_returned
  <2>2. UNCHANGED <<rate_pos, acc_rate_data, subpc, rate_curve_pair, resolver_data>>
    BY DEF Collect, listVars, subVars
  <2>3. /\ DOMAIN subid_pool = Resolvers /\ DOMAIN chan_count = Resolvers
        /\ DOMAIN ret_chan = Resolvers
    BY <1>0 DEF RoundTypes
  <2> HIDE DEF pool, count, m
  <2> QED
    BY <1>0, <2>1, <2>2, <2>3
<1>3. \A l \in Rounds : Stage(e, l)' <=> l = m
  <2>1. OneTester /\ spc[d] \in Rounds
    BY <1>0 DEF ConserveInv, Rounds
  <2>2. sentry' = sentry /\ spc' = [spc EXCEPT ![d] = m]
    BY <1>2
  <2> HIDE DEF m
  <2> QED
    BY <1>0, <2>1, <2>2, StageStep
<1>4. e \notin resolver_data /\ Stage(e, "collect")
  BY <1>0, OneStage, TestedTaken DEF ConserveInv, Rounds
<1>5. Counts(e) /\ Measuring(e) /\ rate_pos[e] < Cfg.curve /\ Summed(e) /\ Pairs(e)
  BY <1>4 DEF RoundInv
\* The report that is taken out.
<1>6. /\ Len(ret_chan[e]) \in Nat \ {0} /\ subid = ret_chan[e][1]
      /\ subid \in Subs(e) \cup {-1}
      /\ Len(ret_chan'[e]) = Len(ret_chan[e]) - 1
      /\ \A k \in 1 .. Len(ret_chan[e]) - 1 : ret_chan'[e][k] = ret_chan[e][k + 1]
  BY <1>1, <1>2, HeadTailProperties, LenProperties, EmptySeq DEF RoundType
<1>7. subid \in Reported(e) /\ subid \notin Busy(e) /\ subid \notin subid_pool[e]
  <2>1. subid \in Reported(e)
    BY <1>6 DEF Reported
  <2> QED
    BY <1>5, <2>1 DEF Counts
<1>8. Busy(e)' = Busy(e)
  BY <1>0, <1>2 DEF Busy
<1>9. \A x \in Reported(e)' : x \in Reported(e) /\ (x # -1 => x # subid)
  <2> TAKE x \in Reported(e)'
  <2>1. PICK k \in 1 .. Len(ret_chan[e]) - 1 : x = ret_chan[e][k + 1]
    BY <1>6 DEF Reported
  <2>2. k + 1 \in 1 .. Len(ret_chan[e]) /\ 1 \in 1 .. Len(ret_chan[e]) /\ k + 1 # 1
    BY <1>6, <2>1
  <2> QED
    BY <1>5, <1>6, <2>1, <2>2 DEF Counts, Reported
<1>10. -1 \notin Subs(e) /\ subid_pool[e] \in SUBSET Subs(e) /\ pool \in SUBSET Subs(e)
  <2>1. -1 \notin Subs(e)
    BY DEF Subs
  <2> QED
    BY <1>1, <1>6, <2>1 DEF RoundType
<1>11. /\ Cardinality(pool) = IF subid # -1 THEN Cardinality(subid_pool[e]) + 1
                                           ELSE Cardinality(subid_pool[e])
       /\ Cardinality(subid_pool[e]) \in Nat /\ Cardinality(Busy(e)) \in Nat
       /\ length_n(e) \in Nat /\ chan_count[e] \in Nat
  <2>1. IsFiniteSet(subid_pool[e])
    BY <1>1, <1>10, SubsCount DEF RoundType
  <2>2. Cardinality(subid_pool[e] \cup {subid}) = Cardinality(subid_pool[e]) + 1
    BY <1>7, <2>1, FS_AddElement
  <2> QED
    BY <1>1, <1>10, <2>2, SubsCount DEF RoundType
<1>12. Cardinality(Busy(e)) + Len(ret_chan[e]) + chan_count[e] + Cardinality(subid_pool[e])
         = length_n(e)
  BY <1>5 DEF Counts
<1> HIDE DEF subid, pool, count, full, m
<1>13. Cardinality(Busy(e)) + (Len(ret_chan[e]) - 1) + count + Cardinality(pool) = length_n(e)
       /\ count \in Nat /\ Cardinality(pool) \in Nat
       /\ Len(ret_chan[e]) - 1 \in Nat
  <2>1. /\ Cardinality(Busy(e)) \in Nat /\ Len(ret_chan[e]) \in Nat \ {0}
        /\ chan_count[e] \in Nat /\ Cardinality(subid_pool[e]) \in Nat /\ length_n(e) \in Nat
    BY <1>6, <1>11
  <2>2. /\ Cardinality(Busy(e)) + (Len(ret_chan[e]) - 1) + (chan_count[e] + 1)
             + Cardinality(subid_pool[e]) = length_n(e)
        /\ Cardinality(Busy(e)) + (Len(ret_chan[e]) - 1) + chan_count[e]
             + (Cardinality(subid_pool[e]) + 1) = length_n(e)
        /\ Len(ret_chan[e]) - 1 \in Nat /\ chan_count[e] + 1 \in Nat
        /\ Cardinality(subid_pool[e]) + 1 \in Nat
    <3> DEFINE b == Cardinality(Busy(e))
               l == Len(ret_chan[e])
               c == chan_count[e]
               p == Cardinality(subid_pool[e])
               n == length_n(e)
    <3>1. b \in Nat /\ l \in Nat \ {0} /\ c \in Nat /\ p \in Nat /\ n \in Nat
          /\ b + l + c + p = n
      BY <1>12, <2>1
    <3> HIDE DEF b, l, c, p, n
    <3>2. /\ b + (l - 1) + (c + 1) + p = n /\ b + (l - 1) + c + (p + 1) = n
          /\ l - 1 \in Nat /\ c + 1 \in Nat /\ p + 1 \in Nat
      BY <3>1, Moved
    <3> QED
      BY <3>2 DEF b, l, c, p, n
  <2>3. CASE subid = -1
    <3>1. count = chan_count[e] + 1 /\ Cardinality(pool) = Cardinality(subid_pool[e])
      BY <1>11, <2>3 DEF count
    <3> QED
      BY <2>1, <2>2, <3>1
  <2>4. CASE subid # -1
    <3>1. count = chan_count[e] /\ Cardinality(pool) = Cardinality(subid_pool[e]) + 1
      BY <1>11, <2>4 DEF count
    <3> QED
      BY <2>1, <2>2, <3>1
  <2> QED
    BY <2>3, <2>4
<1>14. Counts(e)'
  <2>1. Busy(e)' \cap subid_pool'[e] = {}
    BY <1>2, <1>5, <1>7, <1>8 DEF Counts, pool
  <2>2. Reported(e)' \cap (Busy(e)' \cup subid_pool'[e]) = {}
    <3>1. Reported(e) \cap (Busy(e) \cup subid_pool[e]) = {}
      BY <1>5 DEF Counts
    <3>2. ASSUME NEW x \in Reported(e)' PROVE x \notin pool
      <4>1. x \notin subid_pool[e] /\ (x = subid => subid = -1)
        BY <1>9, <3>1
      <4> QED
        BY <4>1 DEF pool
    <3> QED
      BY <1>2, <1>8, <1>9, <3>1, <3>2
  <2>3. ASSUME NEW j \in 1 .. Len(ret_chan'[e]), NEW k \in 1 .. Len(ret_chan'[e]),
               ret_chan'[e][j] = ret_chan'[e][k], ret_chan'[e][j] # -1
        PROVE  j = k
    <3>1. /\ j \in Int /\ k \in Int
          /\ j + 1 \in 1 .. Len(ret_chan[e]) /\ k + 1 \in 1 .. Len(ret_chan[e])
          /\ ret_chan[e][j + 1] = ret_chan[e][k + 1] /\ ret_chan[e][j + 1] # -1
      BY <1>6, <2>3
    <3>2. j + 1 = k + 1
      BY <1>5, <3>1 DEF Counts
    <3> QED
      BY <3>1, <3>2
  <2>4. rate_pos'[e] = Cfg'.curve - 1 => chan_count'[e] = 0 /\ -1 \notin Reported(e)'
    <3>1. rate_pos[e] = Cfg.curve - 1 => chan_count[e] = 0 /\ -1 \notin Reported(e)
      BY <1>5 DEF Counts
    <3> QED
      BY <1>0, <1>2, <1>7, <1>9, <3>1 DEF count
  <2> QED
    BY <1>0, <1>2, <1>6, <1>8, <1>13, <2>1, <2>2, <2>3, <2>4 DEF Counts
<1>15. Measuring(e)'
  <2>1. \A i \in Subs(e) : Done(e, i)' = Done(e, i)
    BY <1>2 DEF Done
  <2>2. subid \in Subs(e) => Done(e, subid) = rate_pos[e] + 1
    BY <1>7 DEF Busy, Done
  <2>3. rate_pos[e] \in Nat
    BY <1>1 DEF RoundType
  <2>4. \A i \in Subs(e) : IF i \in pool
                           THEN Len(rate_curve_pair[e][i]) <= rate_pos[e] + 1
                           ELSE Len(rate_curve_pair[e][i]) = Done(e, i)
    BY <1>5, <2>2, <2>3 DEF Measuring, pool
  <2> QED
    BY <1>0, <1>2, <1>5, <1>8, <2>1, <2>4 DEF Measuring
<1>16. Summed(e)' /\ Pairs(e)'
  BY <1>0, <1>2, <1>5 DEF Summed, Pairs
\* The sender is through when nobody is at work and the channel is empty.
<1>17. full => Quiet(e)' /\ Complete(e)'
  <2> SUFFICES ASSUME full PROVE Quiet(e)' /\ Complete(e)'
    OBVIOUS
  <2>1. /\ Cardinality(Busy(e)) = 0 /\ Len(ret_chan[e]) - 1 = 0
        /\ count = 0 => Cardinality(pool) = length_n(e)
    <3> DEFINE b == Cardinality(Busy(e))
               l == Len(ret_chan[e]) - 1
               p == Cardinality(pool)
               n == length_n(e)
    <3>1. /\ b \in Nat /\ l \in Nat /\ count \in Nat /\ p \in Nat /\ n \in Nat
          /\ b + l + count + p = n
      BY <1>11, <1>13
    <3>2. count = n - p
      BY DEF full
    <3> HIDE DEF b, l, p, n
    <3>3. b = 0 /\ l = 0 /\ (count = 0 => p = n)
      BY <3>1, <3>2, NobodyLeft
    <3> QED
      BY <3>3 DEF b, l, p, n
  <2>2. Busy(e)' = {}
    <3>1. IsFiniteSet(Busy(e))
      BY <1>1, SubsCount DEF RoundType
    <3> QED
      BY <1>8, <2>1, <3>1, FS_EmptySet
  <2>3. ret_chan'[e] = <<>>
    <3>1. ret_chan'[e] \in Seq(Subs(e) \cup {-1})
      BY <1>1, <1>2, HeadTailProperties DEF RoundType
    <3>2. Len(ret_chan'[e]) = 0
      BY <1>6, <2>1
    <3> QED
      BY <3>1, <3>2, EmptySeq
  <2>4. rate_pos[e] = Cfg.curve - 1 => Cardinality(pool) = length_n(e)
    <3>1. rate_pos[e] = Cfg.curve - 1 => count = 0
      BY <1>0, <1>2, <1>14 DEF Counts
    <3> QED
      BY <2>1, <3>1
  <2> QED
    BY <1>0, <1>2, <1>15, <2>2, <2>3, <2>4 DEF Quiet, Complete
<1>18. CASE full
  <2>1. m = "sum"
    BY <1>18 DEF m
  <2> QED
    BY <1>0, <1>2, <1>3, <1>4, <1>5, <1>16, <1>17, <1>18, <2>1 DEF RoundInv, Rounds
<1>19. CASE ~full
  <2>1. m = "collect"
    BY <1>19 DEF m
  <2> QED
    BY <1>0, <1>2, <1>3, <1>4, <1>5, <1>14, <1>15, <1>16, <2>1 DEF RoundInv, Rounds
<1> QED
  BY <1>18, <1>19

LEMMA SumRounds ==
    ASSUME ConserveInv, [Next]_vars, NEW d \in Senders, Sum_up(d),
           NEW e, e = sentry[d], RoundInv(e)
    PROVE  RoundInv(e)'
<1> DEFINE row == {<<i, rate_curve_pair[e][i][rate_pos[e] + 1]>> : i \in Measured(e)}
           over == Cardinality(subid_pool[e]) = length_n(e)
           m == IF over THEN "finish" ELSE "round"
<1>0. /\ spc[d] = "sum" /\ SenderTypes /\ RoundTypes /\ e \in Resolvers
      /\ Cfg' = Cfg /\ Subs(e)' = Subs(e) /\ length_n(e)' = length_n(e)
  BY Fixed DEF ConserveInv, TypeOK, SenderTypes, Sum_up
<1>1. RoundType(e)
  BY <1>0, RoundTypeFact DEF ConserveInv
<1>2. /\ acc_rate_data'[e] = Append(acc_rate_data[e], row)
      /\ rate_pos'[e] = IF over THEN rate_pos[e] ELSE rate_pos[e] + 1
      /\ sentry' = sentry /\ spc' = [spc EXCEPT ![d] = m]
      /\ UNCHANGED <<subid_pool, chan_count, ret_chan, subpc, rate_curve_pair, resolver_data>>
  BY <1>0 DEF Sum_up, RoundTypes, listVars, subVars
<1>3. \A l \in Rounds : Stage(e, l)' <=> l = m
  BY <1>0, <1>2, StageStep DEF ConserveInv, Rounds
<1>4. e \notin resolver_data /\ Stage(e, "sum") /\ ~Stage(e, "collect")
  BY <1>0, OneStage, TestedTaken DEF ConserveInv, Rounds
<1>5. Complete(e) /\ Measuring(e) /\ Quiet(e) /\ rate_pos[e] < Cfg.curve /\ Summed(e)
      /\ Pairs(e)
  BY <1>4 DEF RoundInv, Complete
<1>6. /\ rate_pos[e] \in Nat /\ Len(acc_rate_data[e]) = rate_pos[e]
      /\ \A i \in Subs(e) : Len(rate_curve_pair[e][i]) \in Nat
      /\ Cfg.curve \in Nat
  BY <1>1, <1>5 DEF Measuring, RoundType
<1>7. Measured(e) = {j \in Subs(e) : Len(rate_curve_pair[e][j]) >= rate_pos[e] + 1}
  BY <1>6 DEF Measured
<1>8. row = {<<i, rate_pos[e]>> : i \in Measured(e)}
  <2>1. ASSUME NEW i \in Measured(e)
        PROVE  rate_curve_pair[e][i][rate_pos[e] + 1] = rate_pos[e]
    <3>1. i \in Subs(e) /\ rate_pos[e] + 1 \in 1 .. Len(rate_curve_pair[e][i])
      BY <1>6, <1>7
    <3>2. rate_curve_pair[e][i][rate_pos[e] + 1] = (rate_pos[e] + 1) - 1
      BY <1>5, <3>1 DEF Pairs
    <3> QED
      BY <1>6, <3>2
  <2> QED
    BY <2>1
<1>9. row # {}
  <2>1. PICK i \in Subs(e) : Len(rate_curve_pair[e][i]) = rate_pos[e] + 1
    BY <1>5 DEF Measuring, Quiet
  <2>2. i \in Measured(e)
    BY <1>6, <1>7, <2>1
  <2> QED
    BY <1>8, <2>2
<1>10. /\ Len(acc_rate_data'[e]) = rate_pos[e] + 1
       /\ acc_rate_data'[e][rate_pos[e] + 1] = row
       /\ \A k \in 1 .. rate_pos[e] : acc_rate_data'[e][k] = acc_rate_data[e][k]
  <2>1. row \in SUBSET (Subs(e) \X Nat)
    BY <1>6, <1>7, <1>8
  <2> DEFINE T == SUBSET (Subs(e) \X Nat)
  <2>2. acc_rate_data[e] \in Seq(T) /\ row \in T
    BY <1>1, <2>1 DEF RoundType
  <2> HIDE DEF T, row
  <2> QED
    BY <1>2, <1>6, <2>2, AppendProperties
<1> HIDE DEF row, over, m
<1>11. Summed(e)'
  <2>1. ASSUME NEW k \in 1 .. rate_pos[e] + 1
        PROVE  /\ acc_rate_data'[e][k] # {}
               /\ acc_rate_data'[e][k] =
                    {<<i, k - 1>> : i \in {j \in Subs(e) : Len(rate_curve_pair[e][j]) >= k}}
    <3>1. CASE k = rate_pos[e] + 1
      <4>1. k - 1 = rate_pos[e]
        BY <1>6, <3>1
      <4> QED
        BY <1>7, <1>8, <1>9, <1>10, <3>1, <4>1
    <3>2. CASE k # rate_pos[e] + 1
      <4>1. k \in 1 .. rate_pos[e] /\ k \in 1 .. Len(acc_rate_data[e])
        BY <1>6, <3>2
      <4>2. acc_rate_data'[e][k] = acc_rate_data[e][k]
        BY <1>10, <4>1
      <4> QED
        BY <1>5, <4>1, <4>2 DEF Summed
    <3> QED
      BY <3>1, <3>2
  <2> QED
    BY <1>0, <1>2, <1>10, <2>1 DEF Summed
<1>12. Pairs(e)'
  BY <1>0, <1>2, <1>5 DEF Pairs
<1>13. Quiet(e)'
  BY <1>0, <1>2, <1>5 DEF Quiet, Busy
<1>14. CASE over
  <2>1. m = "finish" /\ rate_pos'[e] = rate_pos[e]
    BY <1>2, <1>14 DEF m
  <2> QED
    BY <1>0, <1>2, <1>3, <1>4, <1>5, <1>11, <1>12, <1>13, <2>1 DEF RoundInv, Rounds
<1>15. CASE ~over
  <2>1. m = "round" /\ rate_pos'[e] = rate_pos[e] + 1
    BY <1>2, <1>15 DEF m
  <2>2. Cardinality(subid_pool[e]) # length_n(e)
    BY <1>15 DEF over
  <2>3. rate_pos'[e] < Cfg'.curve
    <3>1. rate_pos[e] # Cfg.curve - 1
      BY <1>5, <2>2 DEF Complete
    <3> QED
      BY <1>0, <1>5, <1>6, <2>1, <3>1
  <2>4. subid_pool[e] # Subs(e)
    BY <1>1, <2>2, SubsCount DEF RoundType
  <2>5. \A i \in Subs(e) : IF i \in subid_pool[e]
                           THEN Len(rate_curve_pair[e][i]) <= rate_pos[e] + 1
                           ELSE Len(rate_curve_pair[e][i]) = rate_pos[e] + 1
    BY <1>5 DEF Measuring, Done, Quiet, Busy
  <2>6. Ready(e)'
    BY <1>0, <1>2, <1>10, <2>1, <2>4, <2>5 DEF Ready
  <2> QED
    BY <1>0, <1>2, <1>3, <1>4, <1>11, <1>12, <1>13, <2>1, <2>3, <2>6 DEF RoundInv, Rounds
<1> QED
  BY <1>14, <1>15

-----------------------------------------------------------------------------
(***************************************************************************)
(* The steps of a subroutine.                                               *)
(***************************************************************************)
LEMMA SendRounds ==
    ASSUME ConserveInv, [Next]_vars, NEW e \in Resolvers, NEW i \in Subs(e),
           Sub_send(e, i), RoundInv(e)
    PROVE  RoundInv(e)'
<1>0. /\ RoundTypes /\ RoundType(e) /\ Cfg' = Cfg /\ Subs(e)' = Subs(e)
      /\ length_n(e)' = length_n(e)
  BY Fixed, RoundTypeFact DEF ConserveInv, TypeOK
<1>1. /\ subpc[e][i] = "send" /\ subpc'[e] = [subpc[e] EXCEPT ![i] = "calc"]
      /\ UNCHANGED <<senderVars, resolver_data, subid_pool, chan_count, ret_chan, rate_pos,
                     acc_rate_data, rate_curve_pair>>
  BY <1>0 DEF Sub_send, Sub_goto, RoundTypes, listVars, roundVars
<1>2. i \in Busy(e)
  BY <1>1 DEF Busy
<1>3. /\ Stage(e, "collect") /\ ~Stage(e, "round") /\ ~Stage(e, "sum")
      /\ e \notin resolver_data /\ Counts(e) /\ Measuring(e)
      /\ rate_pos[e] < Cfg.curve /\ Summed(e) /\ Pairs(e)
  BY <1>2, AtWork
<1>4. \A l : Stage(e, l)' <=> Stage(e, l)
  BY <1>1 DEF Stage, senderVars
<1>5. subpc[e] \in [Subs(e) -> {"idle", "send", "calc", "return", "return_none"}]
  BY <1>0 DEF RoundType
<1>6. Busy(e)' = Busy(e) /\ \A j \in Subs(e) : Done(e, j)' = Done(e, j)
  BY <1>0, <1>1, <1>5 DEF Busy, Done
<1>7. Counts(e)'
  BY <1>0, <1>1, <1>3, <1>6 DEF Counts, Reported
<1>8. Measuring(e)'
  BY <1>0, <1>1, <1>3, <1>6 DEF Measuring
<1>9. Summed(e)' /\ Pairs(e)'
  BY <1>0, <1>1, <1>3 DEF Summed, Pairs
<1> QED
  BY <1>0, <1>1, <1>3, <1>4, <1>7, <1>8, <1>9 DEF RoundInv

LEMMA CalcRounds ==
    ASSUME ConserveInv, [Next]_vars, NEW e \in Resolvers, NEW i \in Subs(e),
           calc_last_second_rate(e, i), RoundInv(e)
    PROVE  RoundInv(e)'
<1>0. /\ RoundTypes /\ RoundType(e) /\ Cfg' = Cfg /\ Subs(e)' = Subs(e)
      /\ length_n(e)' = length_n(e)
  BY Fixed, RoundTypeFact DEF ConserveInv, TypeOK
<1>1. PICK l \in {"return", "return_none"} : Sub_goto(e, i, l)
  BY DEF calc_last_second_rate
<1>2. /\ subpc[e][i] = "calc" /\ subpc'[e] = [subpc[e] EXCEPT ![i] = l]
      /\ rate_curve_pair'[e] =
            [rate_curve_pair[e] EXCEPT ![i] = Append(rate_curve_pair[e][i], rate_pos[e])]
      /\ UNCHANGED <<senderVars, resolver_data, subid_pool, chan_count, ret_chan, rate_pos,
                     acc_rate_data>>
  BY <1>0, <1>1 DEF calc_last_second_rate, Sub_goto, RoundTypes, listVars, roundVars
<1>3. i \in Busy(e)
  BY <1>2 DEF Busy
<1>4. /\ Stage(e, "collect") /\ ~Stage(e, "round") /\ ~Stage(e, "sum")
      /\ e \notin resolver_data /\ Counts(e) /\ Measuring(e)
      /\ rate_pos[e] < Cfg.curve /\ Summed(e) /\ Pairs(e)
  BY <1>3, AtWork
<1>5. \A x : Stage(e, x)' <=> Stage(e, x)
  BY <1>2 DEF Stage, senderVars
<1>6. /\ subpc[e] \in [Subs(e) -> {"idle", "send", "calc", "return", "return_none"}]
      /\ rate_curve_pair[e] \in [Subs(e) -> Seq(Nat)]
      /\ rate_pos[e] \in Nat /\ rate_curve_pair[e][i] \in Seq(Nat)
  BY <1>0 DEF RoundType, RoundTypes
\* i has measured at the rates before this one.
<1>7. Len(rate_curve_pair[e][i]) = rate_pos[e] /\ i \notin subid_pool[e]
  <2>1. i \notin subid_pool[e]
    BY <1>3, <1>4 DEF Counts
  <2> QED
    BY <1>2, <1>4, <2>1 DEF Measuring, Done
<1>8. /\ Len(rate_curve_pair'[e][i]) = rate_pos[e] + 1
      /\ rate_curve_pair'[e][i][rate_pos[e] + 1] = rate_pos[e]
      /\ \A k \in 1 .. rate_pos[e] :
            rate_curve_pair'[e][i][k] = rate_curve_pair[e][i][k]
      /\ \A j \in Subs(e) : j # i => rate_curve_pair'[e][j] = rate_curve_pair[e][j]
  <2>1. rate_curve_pair'[e][i] = Append(rate_curve_pair[e][i], rate_pos[e])
    BY <1>2, <1>6
  <2>2. \A j \in Subs(e) : j # i => rate_curve_pair'[e][j] = rate_curve_pair[e][j]
    BY <1>2, <1>6
  <2> QED
    BY <1>6, <1>7, <2>1, <2>2, AppendProperties
<1>9. /\ subpc'[e][i] = l /\ \A j \in Subs(e) : j # i => subpc'[e][j] = subpc[e][j]
  BY <1>2, <1>6
<1>10. Busy(e)' = Busy(e)
  BY <1>0, <1>2, <1>9 DEF Busy
<1>11. Counts(e)'
  BY <1>0, <1>2, <1>4, <1>10 DEF Counts, Reported
<1>12. Measuring(e)'
  <2>1. \A j \in Subs(e) :
          IF j \in subid_pool[e] THEN Len(rate_curve_pair'[e][j]) <= rate_pos[e] + 1
                                 ELSE Len(rate_curve_pair'[e][j]) = Done(e, j)'
    <3> TAKE j \in Subs(e)
    <3>1. CASE j = i
      <4>1. Done(e, i)' = rate_pos[e] + 1
        BY <1>1, <1>2, <1>9 DEF Done
      <4> QED
        BY <1>7, <1>8, <3>1, <4>1
    <3>2. CASE j # i
      <4>1. Done(e, j)' = Done(e, j) /\ rate_curve_pair'[e][j] = rate_curve_pair[e][j]
        BY <1>2, <1>8, <1>9, <3>2 DEF Done
      <4> QED
        BY <1>4, <4>1 DEF Measuring
    <3> QED
      BY <3>1, <3>2
  <2>2. \E j \in Subs(e) : j \in Busy(e)'
    BY <1>3, <1>10
  <2> QED
    BY <1>0, <1>2, <1>4, <2>1, <2>2 DEF Measuring
<1>13. Pairs(e)'
  <2>1. ASSUME NEW j \in Subs(e), NEW k \in 1 .. Len(rate_curve_pair'[e][j])
        PROVE  rate_curve_pair'[e][j][k] = k - 1
    <3>1. CASE j # i
      BY <1>4, <1>8, <3>1 DEF Pairs
    <3>2. CASE j = i /\ k = rate_pos[e] + 1
      BY <1>6, <1>8, <3>2
    <3>3. CASE j = i /\ k # rate_pos[e] + 1
      <4>1. k \in 1 .. rate_pos[e] /\ k \in 1 .. Len(rate_curve_pair[e][i])
        BY <1>6, <1>7, <1>8, <3>3
      <4>2. rate_curve_pair[e][i][k] = k - 1
        BY <1>4, <4>1 DEF Pairs
      <4> QED
        BY <1>8, <3>3, <4>1, <4>2
    <3> QED
      BY <3>1, <3>2, <3>3
  <2> QED
    BY <1>0, <2>1 DEF Pairs
\* A sum that is made already has all of i's measurements it asks for.
<1>14. Summed(e)'
  <2>1. Len(acc_rate_data[e]) = rate_pos[e]
    BY <1>4 DEF Measuring
  <2>2. ASSUME NEW k \in 1 .. Len(acc_rate_data[e])
        PROVE  {j \in Subs(e) : Len(rate_curve_pair'[e][j]) >= k} =
               {j \in Subs(e) : Len(rate_curve_pair[e][j]) >= k}
    <3>1. Len(rate_curve_pair'[e][i]) >= k /\ Len(rate_curve_pair[e][i]) >= k
      BY <1>6, <1>7, <1>8, <2>1
    <3> QED
      BY <1>8, <3>1
  <2> QED
    BY <1>0, <1>2, <1>4, <2>2 DEF Summed
<1> QED
  BY <1>0, <1>2, <1>4, <1>5, <1>11, <1>12, <1>13, <1>14 DEF RoundInv

LEMMA ReturnRounds ==
    ASSUME ConserveInv, [Next]_vars, NEW e \in Resolvers, NEW i \in Subs(e),
           Sub_return(e, i), RoundInv(e)
    PROVE  RoundInv(e)'
<1>0. /\ RoundTypes /\ RoundType(e) /\ Cfg' = Cfg /\ Subs(e)' = Subs(e)
      /\ length_n(e)' = length_n(e)
  BY Fixed, RoundTypeFact DEF ConserveInv, TypeOK
<1>1. PICK subid \in Verdicts(e, i) :
        ret_chan' = [ret_chan EXCEPT ![e] = Append(ret_chan[e], subid)]
  BY DEF Sub_return
<1>2. /\ subpc[e][i] \in {"return", "return_none"}
      /\ subpc'[e] = [subpc[e] EXCEPT ![i] = "idle"]
      /\ ret_chan'[e] = Append(ret_chan[e], subid)
      /\ UNCHANGED <<senderVars, resolver_data, subid_pool, chan_count, rate_pos,
                     acc_rate_data, rate_curve_pair>>
  BY <1>0, <1>1 DEF Sub_return, Sub_goto, RoundTypes, listVars, roundVars, subVars
<1>3. subid \in {-1, i} /\ (rate_pos[e] = Cfg.curve - 1 => subid = i)
  BY <1>1 DEF Verdicts
<1>4. i \in Busy(e)
  BY <1>2 DEF Busy
<1>5. /\ Stage(e, "collect") /\ ~Stage(e, "round") /\ ~Stage(e, "sum")
      /\ e \notin resolver_data /\ Counts(e) /\ Measuring(e)
      /\ rate_pos[e] < Cfg.curve /\ Summed(e) /\ Pairs(e)
  BY <1>4, AtWork
<1>6. \A x : Stage(e, x)' <=> Stage(e, x)
  BY <1>2 DEF Stage, senderVars
<1>7. /\ subpc[e] \in [Subs(e) -> {"idle", "send", "calc", "return", "return_none"}]
      /\ ret_chan[e] \in Seq(Subs(e) \cup {-1}) /\ Len(ret_chan[e]) \in Nat
      /\ subid \in Subs(e) \cup {-1}
  BY <1>0, <1>3 DEF RoundType
<1>8. /\ subpc'[e][i] = "idle" /\ \A j \in Subs(e) : j # i => subpc'[e][j] = subpc[e][j]
  BY <1>2, <1>7
<1>9. Busy(e)' = Busy(e) \ {i}
  BY <1>0, <1>2, <1>8 DEF Busy
<1>10. /\ Len(ret_chan'[e]) = Len(ret_chan[e]) + 1
       /\ \A k \in 1 .. Len(ret_chan[e]) : ret_chan'[e][k] = ret_chan[e][k]
       /\ ret_chan'[e][Len(ret_chan[e]) + 1] = subid
  BY <1>2, <1>7, AppendProperties
<1>11. \A x : x \in Reported(e)' => x \in Reported(e) \/ x = subid
  BY <1>7, <1>10 DEF Reported
<1>12. i \notin Reported(e) /\ i \notin subid_pool[e] /\ i # -1
  <2>1. i # -1
    BY DEF Subs
  <2> QED
    BY <1>4, <1>5, <2>1 DEF Counts
<1>13. Counts(e)'
  <2>1. Cardinality(Busy(e)') + Len(ret_chan'[e]) + chan_count[e] + Cardinality(subid_pool[e])
          = length_n(e)
    <3> DEFINE b == Cardinality(Busy(e))
               l == Len(ret_chan[e])
               c == chan_count[e]
               p == Cardinality(subid_pool[e])
               n == length_n(e)
    <3>1. IsFiniteSet(Busy(e)) /\ b \in Nat /\ l \in Nat /\ c \in Nat /\ p \in Nat /\ n \in Nat
      BY <1>0, SubsCount DEF RoundType
    <3>2. Cardinality(Busy(e)') = b - 1
      BY <1>4, <1>9, <3>1, FS_RemoveElement
    <3>3. b + l + c + p = n
      BY <1>5 DEF Counts
    <3>4. Len(ret_chan'[e]) = l + 1
      BY <1>10
    <3> HIDE DEF b, l, c, p, n
    <3>5. (b - 1) + (l + 1) + c + p = n
      BY <3>1, <3>3
    <3> QED
      BY <3>2, <3>4, <3>5 DEF c, p, n
  <2>2. Busy(e)' \cap subid_pool[e] = {}
    BY <1>5, <1>9 DEF Counts
  <2>3. Reported(e)' \cap (Busy(e)' \cup subid_pool[e]) = {}
    <3>1. -1 \notin Busy(e) /\ -1 \notin subid_pool[e]
      <4>1. -1 \notin Subs(e)
        BY DEF Subs
      <4> QED
        BY <1>0, <4>1 DEF RoundType
    <3>2. Reported(e) \cap (Busy(e) \cup subid_pool[e]) = {}
      BY <1>5 DEF Counts
    <3> QED
      BY <1>3, <1>9, <1>11, <1>12, <3>1, <3>2
  <2>4. ASSUME NEW j \in 1 .. Len(ret_chan'[e]), NEW k \in 1 .. Len(ret_chan'[e]),
               ret_chan'[e][j] = ret_chan'[e][k], ret_chan'[e][j] # -1
        PROVE  j = k
    <3> DEFINE l == Len(ret_chan[e])
    <3>1. \A x \in 1 .. l : ret_chan'[e][x] \in Reported(e)
      BY <1>10 DEF Reported
    <3>2. CASE j \in 1 .. l /\ k \in 1 .. l
      BY <1>5, <1>10, <2>4, <3>2 DEF Counts
    <3>3. CASE j = l + 1 /\ k = l + 1
      BY <3>3
    <3>4. CASE j = l + 1 /\ k \in 1 .. l
      BY <1>3, <1>10, <1>12, <2>4, <3>1, <3>4
    <3>5. CASE j \in 1 .. l /\ k = l + 1
      BY <1>3, <1>10, <1>12, <2>4, <3>1, <3>5
    <3>6. j \in 1 .. l + 1 /\ k \in 1 .. l + 1 /\ l \in Nat
      BY <1>7, <1>10
    <3> HIDE DEF l
    <3>7. (j \in 1 .. l \/ j = l + 1) /\ (k \in 1 .. l \/ k = l + 1)
      BY <3>6
    <3> QED
      BY <3>2, <3>3, <3>4, <3>5, <3>7
  <2>5. rate_pos[e] = Cfg.curve - 1 => chan_count[e] = 0 /\ -1 \notin Reported(e)'
    BY <1>3, <1>5, <1>11, <1>12 DEF Counts
  <2> QED
    BY <1>0, <1>2, <2>1, <2>2, <2>3, <2>4, <2>5 DEF Counts
<1>14. Measuring(e)'
  <2>1. \A j \in Subs(e) : Done(e, j)' = Done(e, j)
    BY <1>2, <1>8 DEF Done
  <2>2. Len(rate_curve_pair[e][i]) = rate_pos[e] + 1
    BY <1>2, <1>5, <1>12 DEF Measuring, Done
  <2> QED
    BY <1>0, <1>2, <1>5, <2>1, <2>2 DEF Measuring
<1>15. Summed(e)' /\ Pairs(e)'
  BY <1>0, <1>2, <1>5 DEF Summed, Pairs
<1> QED
  BY <1>0, <1>2, <1>5, <1>6, <1>13, <1>14, <1>15 DEF RoundInv

-----------------------------------------------------------------------------
(***************************************************************************)
(* All steps.                                                               *)
(***************************************************************************)
\* A resolver that is taken has nothing measured yet.
LEMMA TakeRounds ==
    ASSUME ConserveInv, [Next]_vars, NEW d \in Senders, Take(d),
           NEW r \in Resolvers, RoundInv(r)
    PROVE  RoundInv(r)'
<1>0. SenderTypes /\ ListTypes /\ Places
  BY DEF ConserveInv, TypeOK
<1>1. PICK e \in resolver_data : Register(e) /\ sentry' = [sentry EXCEPT ![d] = e]
  BY DEF Take
<1>2. /\ spc[d] = "take" /\ spc' = [spc EXCEPT ![d] = "round"]
      /\ UNCHANGED roundState /\ resolver_data' = resolver_data \ {e}
      /\ UNCHANGED RoundOf(r)
  BY <1>1 DEF Take, Register, Rest, roundState, RoundOf, roundVars, subVars
<1>3. /\ sentry'[d] = e /\ spc'[d] = "round"
      /\ \A c \in Senders : c # d => sentry'[c] = sentry[c] /\ spc'[c] = spc[c]
  BY <1>0, <1>1, <1>2 DEF SenderTypes
<1>4. CASE r # e
  <2>1. ASSUME NEW l \in Rounds PROVE Stage(r, l)' <=> Stage(r, l)
    BY <1>2, <1>3, <1>4 DEF Stage, Rounds
  <2> QED
    BY <1>2, <2>1, RoundFrame
<1>5. CASE r = e
  <2>1. ~Stage(r, "round") /\ ~Stage(r, "collect") /\ ~Stage(r, "sum")
    BY <1>0, <1>5, TestedTaken DEF Rounds
  <2>2. /\ Fresh(r) /\ Quiet(r) /\ rate_pos[r] < Cfg.curve /\ Summed(r) /\ Pairs(r)
    BY <1>5, <2>1 DEF RoundInv
  <2>3. ~Stage(r, "collect")' /\ ~Stage(r, "sum")'
    BY <1>3, <2>1 DEF Stage
  <2>4. Cfg' = Cfg /\ Subs(r)' = Subs(r) /\ Cfg \in Configs
    BY Fixed DEF ConserveInv, TypeOK
  <2>5. /\ subid_pool'[r] = subid_pool[r] /\ ret_chan'[r] = ret_chan[r]
        /\ rate_pos'[r] = rate_pos[r] /\ acc_rate_data'[r] = acc_rate_data[r]
        /\ subpc'[r] = subpc[r] /\ rate_curve_pair'[r] = rate_curve_pair[r]
    BY <1>2 DEF roundState
  <2>6. Subs(r) # {}
    <3>1. r \in Input
      BY <1>0, <1>5 DEF Places
    <3>2. length_n(r) \in Nat /\ length_n(r) # 0
      BY <2>4, <3>1, LengthFacts
    <3>3. 0 \in Subs(r)
      BY <3>2 DEF Subs
    <3> QED
      BY <3>3
  <2>7. Ready(r)
    <3>1. Len(acc_rate_data[r]) = rate_pos[r] /\ rate_pos[r] = 0
      BY <2>2 DEF Fresh
    <3>2. \A i \in Subs(r) : Len(rate_curve_pair[r][i]) = 0
      BY <2>2 DEF Fresh
    <3> QED
      BY <2>2, <2>6, <3>1, <3>2 DEF Fresh, Ready
  <2>8. Ready(r)' /\ Quiet(r)' /\ Summed(r)' /\ Pairs(r)'
    <3>1. Ready(r)'
      BY <2>4, <2>5, <2>7 DEF Ready
    <3>2. Quiet(r)'
      BY <2>2, <2>4, <2>5 DEF Quiet, Busy
    <3>3. Summed(r)' /\ Pairs(r)'
      BY <2>2, <2>4, <2>5 DEF Summed, Pairs
    <3> QED
      BY <3>1, <3>2, <3>3
  <2>9. (r \notin resolver_data)' /\ (rate_pos[r] < Cfg.curve)'
    BY <1>2, <1>5, <2>2, <2>4, <2>5
  <2> QED
    BY <2>3, <2>8, <2>9 DEF RoundInv
<1> QED
  BY <1>4, <1>5

LEMMA NextRounds ==
    ASSUME ConserveInv, [Next]_vars, NEW r \in Resolvers,
           \A e \in Resolvers : RoundInv(e)
    PROVE  RoundInv(r)'
<1>0. SenderTypes /\ RoundTypes /\ RoundInv(r) /\ OneTester
  BY DEF ConserveInv, TypeOK
<1>1. ASSUME NEW d \in Senders, Take(d) PROVE RoundInv(r)'
  BY <1>0, <1>1, TakeRounds
<1>2. ASSUME NEW d \in Senders, rate_test_target(d) PROVE RoundInv(r)'
  <2>1. CASE r = sentry[d]
    BY <1>0, <1>2, <2>1, StartRounds, CollectRounds, SumRounds DEF rate_test_target
  <2>2. CASE r # sentry[d]
    <3>1. /\ spc[d] \in Rounds /\ sentry' = sentry /\ UNCHANGED resolver_data
          /\ \E m : spc' = [spc EXCEPT ![d] = m]
      BY <1>2 DEF rate_test_target, Start_round, Collect, Sum_up, Rounds, listVars
    <3>2. \A l \in Rounds : Stage(r, l)' <=> Stage(r, l)
      BY <1>0, <2>2, <3>1, StageStep
    <3>3. RoundOf(r)' = RoundOf(r)
      <4>1. CASE Start_round(d)
        BY <1>0, <2>2, <4>1 DEF Start_round, RoundTypes, RoundOf, subVars
      <4>2. CASE Collect(d)
        BY <1>0, <2>2, <4>2 DEF Collect, RoundTypes, RoundOf, subVars
      <4>3. CASE Sum_up(d)
        BY <1>0, <2>2, <4>3 DEF Sum_up, RoundTypes, RoundOf, subVars
      <4> QED
        BY <1>2, <4>1, <4>2, <4>3 DEF rate_test_target
    <3> QED
      BY <1>0, <3>1, <3>2, <3>3, RoundFrame
  <2> QED
    BY <2>1, <2>2
<1>3. ASSUME NEW e \in Resolvers, NEW i \in Subs(e), rate_test_target_sub(e, i)
      PROVE  RoundInv(r)'
  <2>1. CASE r = e
    BY <1>0, <1>3, <2>1, SendRounds, CalcRounds, ReturnRounds DEF rate_test_target_sub
  <2>2. CASE r # e
    <3>1. UNCHANGED senderVars /\ UNCHANGED resolver_data
      BY <1>3 DEF rate_test_target_sub, Sub_send, calc_last_second_rate, Sub_return, listVars
    <3>2. \A l : Stage(r, l)' <=> Stage(r, l)
      BY <3>1 DEF Stage, senderVars
    <3>3. RoundOf(r)' = RoundOf(r)
      <4>1. CASE Sub_send(e, i)
        BY <1>0, <2>2, <4>1 DEF Sub_send, Sub_goto, RoundTypes, RoundOf, roundVars
      <4>2. CASE calc_last_second_rate(e, i)
        BY <1>0, <2>2, <4>2 DEF calc_last_second_rate, Sub_goto, RoundTypes, RoundOf, roundVars
      <4>3. CASE Sub_return(e, i)
        BY <1>0, <2>2, <4>3 DEF Sub_return, Sub_goto, RoundTypes, RoundOf, roundVars, subVars
      <4> QED
        BY <1>3, <4>1, <4>2, <4>3 DEF rate_test_target_sub
    <3> QED
      BY <1>0, <3>1, <3>2, <3>3, RoundFrame
  <2> QED
    BY <2>1, <2>2
<1>4. ASSUME UNCHANGED roundState, UNCHANGED resolver_data,
             \A l \in Rounds : Stage(r, l)' <=> Stage(r, l)
      PROVE  RoundInv(r)'
  <2>1. RoundOf(r)' = RoundOf(r)
    BY <1>4 DEF roundState, RoundOf
  <2> QED
    BY <1>0, <1>4, <2>1, RoundFrame
<1>5. ASSUME NEW d \in Senders, Exhausted(d) \/ Finish(d) \/ Delete(d) PROVE RoundInv(r)'
  <2>1. /\ UNCHANGED roundState /\ UNCHANGED resolver_data
        /\ spc[d] \notin Rounds /\ spc'[d] \notin Rounds
        /\ \A c \in Senders : c # d => spc'[c] = spc[c] /\ sentry'[c] = sentry[c]
    <3>1. CASE Exhausted(d)
      BY <1>0, <3>1 DEF Exhausted, SenderTypes, Rounds, roundState, listVars, roundVars, subVars
    <3>2. CASE Finish(d)
      BY <1>0, <3>2 DEF Finish, SenderTypes, Rounds, roundState, listVars, roundVars, subVars
    <3>3. CASE Delete(d)
      BY <1>0, <3>3 DEF Delete, SenderTypes, Rounds, roundState, listVars, roundVars, subVars
    <3> QED
      BY <1>5, <3>1, <3>2, <3>3
  <2>2. ASSUME NEW l \in Rounds PROVE Stage(r, l)' <=> Stage(r, l)
    BY <2>1 DEF Stage
  <2> QED
    BY <1>4, <2>1, <2>2
<1>6. ASSUME UNCHANGED roundState, UNCHANGED resolver_data, UNCHANGED senderVars
      PROVE  RoundInv(r)'
  <2>1. \A l : Stage(r, l)' <=> Stage(r, l)
    BY <1>6 DEF Stage, senderVars
  <2> QED
    BY <1>4, <1>6, <2>1
<1>7. CASE Arrival \/ (\E g \in Handlers : Record(g))
  BY <1>6, <1>7 DEF Arrival, Lookup, Record, roundState, listVars, roundVars, subVars
<1>8. CASE \E k \in Injectors : inject_cache(k)
  BY <1>6, <1>8 DEF inject_cache, Inject_take, Inject_send, roundState, listVars, roundVars,
                    subVars
<1>9. CASE write_results
  BY <1>6, <1>9 DEF write_results, Write_take, Write_open, Write_file, Write_return,
                    roundState, listVars, roundVars, subVars
<1>10. CASE Start_ratetest
  BY <1>6, <1>10 DEF Start_ratetest, Injected, Stop, End, roundState, listVars, roundVars,
                     subVars
<1>11. CASE UNCHANGED vars
  BY <1>6, <1>11 DEF vars, roundState, listVars, roundVars, subVars
<1> QED
  BY <1>1, <1>2, <1>3, <1>5, <1>7, <1>8, <1>9, <1>10, <1>11 DEF Next, Step, send_packets

LEMMA InitRounds ==
    ASSUME Init, NEW e \in Resolvers
    PROVE  RoundInv(e)
<1>1. /\ \A d \in Senders : spc[d] \notin Rounds
      /\ subid_pool[e] = {} /\ rate_pos[e] = 0 /\ acc_rate_data[e] = <<>>
      /\ ret_chan[e] = <<>>
      /\ \A i \in Subs(e) : rate_curve_pair[e][i] = <<>> /\ subpc[e][i] = "idle"
  BY DEF Init, Rounds
<1>2. rate_pos[e] < Cfg.curve
  <2>1. Cfg \in Configs
    BY DEF Init
  <2> QED
    BY <1>1, <2>1, SettingFacts
<1>3. Summed(e) /\ Pairs(e)
  BY <1>1 DEF Summed, Pairs
<1>4. Fresh(e) /\ Quiet(e)
  BY <1>1 DEF Fresh, Quiet, Busy
<1>5. \A l \in Rounds : ~Stage(e, l)
  BY <1>1 DEF Stage
<1> QED
  BY <1>2, <1>3, <1>4, <1>5 DEF RoundInv, Rounds

RoundsInv == ConserveInv /\ \A e \in Resolvers : RoundInv(e)

LEMMA RoundsInvariant == Spec => []RoundsInv
<1>1. Init => RoundsInv
  BY InitConserves, InitRounds DEF RoundsInv
<1>2. RoundsInv /\ [Next]_vars => RoundsInv'
  BY NextConserves, NextRounds DEF RoundsInv
<1> QED
  BY <1>1, <1>2, PTL DEF Spec

\* A round is a barrier (515-530): what is summed up for a rate was measured at that
\* rate, by everyone who measured at it, whatever the order of the reports, however
\* many subroutines give up and in whichever round.
THEOREM Barrier == Spec => []RatesOfOneRound
<1>1. RoundsInv => RatesOfOneRound
  BY DEF RoundsInv, RoundInv, Summed, RatesOfOneRound
<1> QED
  BY <1>1, RoundsInvariant, PTL

\* Neither rate_curve (469, 564) nor rate_data (705) is read out of its range.
THEOREM InRange == Spec => []IndexInRange
<1>1. RoundsInv => RateInCurve
  BY DEF RoundsInv, RoundInv, RateInCurve
<1> QED
  BY <1>1, RoundsInvariant, SubCorrect, PTL DEF IndexInRange

=============================================================================
