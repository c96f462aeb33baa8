------------------------------- MODULE RateLimit -------------------------------
(***************************************************************************)
(* The rate limit tester: ratelimit/ratelimit.go.                           *)
(*                                                                          *)
(* Senders take resolvers from the list, one each, and test them in rounds  *)
(* of rising rate.  In a round every subroutine of the test that has not    *)
(* given up sends queries from a port of its own, waits, counts the answers *)
(* and reports whether it can go on.  Answers find the test and subroutine  *)
(* by the port they arrive at: a test registers a block of ports, and the   *)
(* next block starts at current_port, which goes round.  What is tested is  *)
(* queued for a writer that nobody waits for.                               *)
(*                                                                          *)
(* A rate is its position in the rate curve; a measurement is the rate it   *)
(* was made at.  Whether enough came back is up to the network, except that *)
(* a subroutine that heard nothing gives up.                                *)
(***************************************************************************)
EXTENDS Integers, Sequences, FiniteSets

CONSTANTS
    Resolvers,  \* resolvers the input may name
    Senders,    \* send_packets goroutines
    Injectors,  \* the goroutines of inject_cache (config.Rate_inject_routines)
    Handlers,   \* bound: packets handled at a time
    RetCap,     \* capacity of ret_chan (32)
    FinCap,     \* capacity of finished_resolvers (128)
    MaxPool,    \* bound: forwarders of a resolver
    Port_max,
    Configs,    \* the settings and inputs tried
    NULL

(* routines: the Number_routines senders; concurrent: rate_concurrent_pool, *)
(* with a subroutine per forwarder, else subroutines many; curve: the       *)
(* length of the rate curve; inject: the domain mode; ignore: no subroutine *)
(* is expected to hear anything, by rate_ignore_threshold or a threshold    *)
(* of 0; fwds: the forwarders that read_forwarders collects, or             *)
(* find_active_fwds leaves, for a resolver.                                 *)
Settings == [routines : SUBSET Senders, concurrent : BOOLEAN,
             subroutines : Nat \ {0}, curve : Nat \ {0}, Port_min : 0 .. Port_max - 1,
             inject : BOOLEAN, ignore : BOOLEAN, fwds : [Resolvers -> 0 .. MaxPool]]

\* The values of a uint16.
Width == 65536

ASSUME ConfigAssumption ==
    /\ MaxPool \in Nat /\ RetCap \in Nat \ {0} /\ FinCap \in Nat \ {0}
    /\ Port_max \in 1 .. Width - 1
    /\ Configs \subseteq Settings
    /\ \A c \in Configs, e \in Resolvers : c.fwds[e] <= Port_max - c.Port_min + 1
ASSUME NamesAssumption == NULL \notin Resolvers \cup {"writer", "main"}

VARIABLES
    Cfg,
    main,                \* Start_ratetest: "inject", "test", "stop", "end"
    inject_data, ipc, ientry,                 \* inject_cache
    resolver_data, current_port,
    spc, sentry,         \* send_packets: control, resolver under test
    outport, active_resolvers,
    subid_pool, chan_count, ret_chan,         \* rate_test_target
    rate_pos, acc_rate_data,
    subpc, rate_curve_pair, first_response,   \* rate_test_target_sub
    asked,               \* queries: port they left from, resolver, subroutine
    hpc, hpkt, hentry, hsub,                  \* Handle_pkt
    finished_resolvers, wpc, wentry, open_writer, files,
    given                \* ports given away before a resolver got its own

injectVars == <<inject_data, ipc, ientry>>
listVars == <<resolver_data, current_port, outport, given>>
senderVars == <<spc, sentry>>
roundVars == <<subid_pool, chan_count, rate_pos, acc_rate_data>>
subVars == <<rate_curve_pair, asked>>
handlerVars == <<hpc, hpkt, hentry, hsub>>
writerVars == <<wpc, wentry, files>>
vars == <<Cfg, main, injectVars, listVars, senderVars, active_resolvers, roundVars,
          ret_chan, subpc, subVars, first_response, handlerVars, finished_resolvers,
          writerVars, open_writer>>

Running == main # "end"

\* A test's subroutines, as many as it has ports: length_n, and len(rate_data).
length_n(e) == IF Cfg.concurrent THEN Cfg.fwds[e] ELSE Cfg.subroutines
Subs(e) == 0 .. length_n(e) - 1

\* Every resolver that has a forwarder.
Input == {e \in Resolvers : Cfg.fwds[e] > 0}

Init ==
    /\ Cfg \in Configs
    /\ main = IF Cfg.inject THEN "inject" ELSE "test"
    /\ inject_data = IF Cfg.inject THEN Input ELSE {}
    /\ ipc = [k \in Injectors |-> IF Cfg.inject THEN "select" ELSE "done"]
    /\ ientry = [k \in Injectors |-> NULL]
    /\ resolver_data = Input
    /\ current_port = Cfg.Port_min
    /\ spc = [d \in Senders |-> IF d \in Cfg.routines THEN "take" ELSE "done"]
    /\ sentry = [d \in Senders |-> NULL]
    /\ outport = [e \in Resolvers |-> 0]
    /\ active_resolvers = <<>>
    /\ subid_pool = [e \in Resolvers |-> {}]
    /\ chan_count = [e \in Resolvers |-> 0]
    /\ ret_chan = [e \in Resolvers |-> <<>>]
    /\ rate_pos = [e \in Resolvers |-> 0]
    /\ acc_rate_data = [e \in Resolvers |-> <<>>]
    /\ subpc = [e \in Resolvers |-> [i \in Subs(e) |-> "idle"]]
    /\ rate_curve_pair = [e \in Resolvers |-> [i \in Subs(e) |-> <<>>]]
    /\ first_response = [e \in Resolvers |-> [i \in Subs(e) |-> FALSE]]
    /\ asked = {}
    /\ hpc = [g \in Handlers |-> "free"]
    /\ hpkt = [g \in Handlers |-> NULL]
    /\ hentry = [g \in Handlers |-> NULL]
    /\ hsub = [g \in Handlers |-> 0]
    /\ finished_resolvers = <<>>
    /\ wpc = "select" /\ wentry = NULL
    /\ open_writer = NULL
    /\ files = {}
    /\ given = [e \in Resolvers |-> 0]

-----------------------------------------------------------------------------
(***************************************************************************)
(* inject_cache: goroutines share a copy of the list; the domains of one    *)
(* resolver are sent by one of them.                                        *)
(***************************************************************************)
Inject_take(k) ==
    /\ main = "inject" /\ ipc[k] = "select"
    /\ IF inject_data = {}
       THEN ipc' = [ipc EXCEPT ![k] = "done"] /\ UNCHANGED <<inject_data, ientry>>
       ELSE \E e \in inject_data :
               /\ inject_data' = inject_data \ {e}
               /\ ientry' = [ientry EXCEPT ![k] = e]
               /\ ipc' = [ipc EXCEPT ![k] = "send"]
    /\ UNCHANGED <<Cfg, main, listVars, senderVars, active_resolvers,
                   roundVars, ret_chan, subpc, subVars, first_response, handlerVars,
                   finished_resolvers, writerVars, open_writer>>

\* A query of inject_cache belongs to no subroutine.
No_sub == -1

\* All leave from the port that the first test is going to register; nobody waits
\* for the answers, which may come while it runs.
Inject_send(k) ==
    /\ ipc[k] = "send"
    /\ asked' = asked \cup {[port |-> current_port, entry |-> ientry[k], sub |-> No_sub]}
    /\ ientry' = [ientry EXCEPT ![k] = NULL]
    /\ ipc' = [ipc EXCEPT ![k] = "select"]
    /\ UNCHANGED <<Cfg, main, inject_data, listVars, senderVars, active_resolvers,
                   roundVars, ret_chan, subpc, rate_curve_pair, first_response, handlerVars,
                   finished_resolvers, writerVars, open_writer>>

All_injected == \A k \in Injectors : ipc[k] = "done"

Injected ==
    /\ main = "inject" /\ All_injected
    /\ main' = "test"
    /\ UNCHANGED <<Cfg, injectVars, listVars, senderVars, active_resolvers, roundVars,
                   ret_chan, subpc, subVars, first_response, handlerVars,
                   finished_resolvers, writerVars, open_writer>>

-----------------------------------------------------------------------------
(***************************************************************************)
(* send_packets.                                                            *)
(***************************************************************************)
\* The ports a test registers, in uint16.
Port(first, i) == (first + i) % Width
Ports(e, first) == {Port(first, i) : i \in Subs(e)}
Block(e) == Ports(e, outport[e])

\* Plausible mistakes are the operators Bug_...: no action uses one.
\* One port too many is deleted.
Bug_Deleted(e) == IF Cfg.concurrent THEN Block(e) \cup {Port(outport[e], length_n(e))}
                                    ELSE {outport[e]}
\* In the other mode only the first port is deleted.
Deleted(e) == IF Cfg.concurrent THEN Block(e) ELSE {outport[e]}

\* In the other mode the next block starts one port on, whatever its length.
Bug_Advance(e) == 1
Advance(e) == IF Cfg.concurrent THEN length_n(e) ELSE 1

Next_port(p) == IF p > Port_max THEN p - (Port_max - Cfg.Port_min + 1) ELSE p

\* The resolver stays in the list.
Bug_Rest(e) == resolver_data
Rest(e) == resolver_data \ {e}

Register(e) ==
    /\ resolver_data' = Rest(e)
    /\ outport' = [outport EXCEPT ![e] = current_port % Width]
    /\ current_port' = Next_port(current_port + Advance(e))
    /\ active_resolvers' =
          [p \in DOMAIN active_resolvers \cup Ports(e, current_port) |->
              IF p \in Ports(e, current_port) THEN e ELSE active_resolvers[p]]
    /\ given' = [r \in Resolvers |-> IF r \in Rest(e)
                                     THEN given[r] + Advance(e) ELSE given[r]]

Take(d) ==
    /\ main = "test" /\ spc[d] = "take"
    /\ \E e \in resolver_data :
          /\ Register(e)
          /\ sentry' = [sentry EXCEPT ![d] = e]
    /\ spc' = [spc EXCEPT ![d] = "round"]
    /\ UNCHANGED <<Cfg, main, injectVars, roundVars, ret_chan, subpc, subVars,
                   first_response, handlerVars, finished_resolvers, writerVars,
                   open_writer>>

Exhausted(d) ==
    /\ main = "test" /\ spc[d] = "take" /\ resolver_data = {}
    /\ spc' = [spc EXCEPT ![d] = "done"]
    /\ UNCHANGED <<Cfg, main, injectVars, listVars, sentry, active_resolvers, roundVars,
                   ret_chan, subpc, subVars, first_response, handlerVars,
                   finished_resolvers, writerVars, open_writer>>

\* finished_resolvers <- entry, while the ports are still registered.
Finish(d) ==
    /\ spc[d] = "finish" /\ Len(finished_resolvers) < FinCap
    /\ finished_resolvers' = Append(finished_resolvers, sentry[d])
    /\ spc' = [spc EXCEPT ![d] = "delete"]
    /\ UNCHANGED <<Cfg, main, injectVars, listVars, sentry, active_resolvers, roundVars,
                   ret_chan, subpc, subVars, first_response, handlerVars, writerVars,
                   open_writer>>

Delete(d) ==
    /\ spc[d] = "delete"
    /\ active_resolvers' = [p \in DOMAIN active_resolvers \ Deleted(sentry[d]) |->
                               active_resolvers[p]]
    /\ spc' = [spc EXCEPT ![d] = "take"]
    /\ sentry' = [sentry EXCEPT ![d] = NULL]
    /\ UNCHANGED <<Cfg, main, injectVars, listVars, roundVars, ret_chan, subpc, subVars,
                   first_response, handlerVars, finished_resolvers, writerVars,
                   open_writer>>

-----------------------------------------------------------------------------
(***************************************************************************)
(* rate_test_target: one round after the other.                             *)
(***************************************************************************)
Start_round(d) ==
    LET e == sentry[d] IN
    /\ spc[d] = "round"
    /\ subpc' = [subpc EXCEPT ![e] = [i \in Subs(e) |->
                    IF i \in subid_pool[e] THEN "idle" ELSE "send"]]
    /\ chan_count' = [chan_count EXCEPT ![e] = 0]
    /\ spc' = [spc EXCEPT ![d] = "collect"]
    /\ UNCHANGED <<Cfg, main, injectVars, listVars, sentry, active_resolvers, subid_pool,
                   rate_pos, acc_rate_data, ret_chan, subVars, first_response,
                   handlerVars, finished_resolvers, writerVars, open_writer>>

\* Those who gave up are counted twice.
Bug_All_returned(e, count, pool) == count + 2 * Cardinality(pool) >= length_n(e)
Bug_All_returned_ever(e, count, pool) == count = length_n(e)
All_returned(e, count, pool) == count = length_n(e) - Cardinality(pool)

Collect(d) ==
    LET e == sentry[d] IN
    /\ spc[d] = "collect" /\ ret_chan[e] # <<>>
    /\ LET subid == Head(ret_chan[e])
           pool == IF subid # -1 THEN subid_pool[e] \cup {subid} ELSE subid_pool[e]
           count == IF subid = -1 THEN chan_count[e] + 1 ELSE chan_count[e]
       IN  /\ subid_pool' = [subid_pool EXCEPT ![e] = pool]
           /\ chan_count' = [chan_count EXCEPT ![e] = count]
           /\ spc' = [spc EXCEPT ![d] = IF All_returned(e, count, pool)
                                        THEN "sum" ELSE "collect"]
    /\ ret_chan' = [ret_chan EXCEPT ![e] = Tail(@)]
    /\ UNCHANGED <<Cfg, main, injectVars, listVars, sentry, active_resolvers, rate_pos,
                   acc_rate_data, subpc, subVars, first_response, handlerVars,
                   finished_resolvers, writerVars, open_writer>>

\* The measurements that are added up: who made one for this position.
Measured(e) == {i \in Subs(e) : Len(rate_curve_pair[e][i]) > rate_pos[e]}

Sum_up(d) ==
    LET e == sentry[d] IN
    /\ spc[d] = "sum"
    /\ acc_rate_data' = [acc_rate_data EXCEPT ![e] =
          Append(@, {<<i, rate_curve_pair[e][i][rate_pos[e] + 1]>> : i \in Measured(e)})]
    /\ IF Cardinality(subid_pool[e]) = length_n(e)
       THEN spc' = [spc EXCEPT ![d] = "finish"] /\ UNCHANGED rate_pos
       ELSE /\ spc' = [spc EXCEPT ![d] = "round"]
            /\ rate_pos' = [rate_pos EXCEPT ![e] = @ + 1]
    /\ UNCHANGED <<Cfg, main, injectVars, listVars, sentry, active_resolvers, subid_pool,
                   chan_count, ret_chan, subpc, subVars, first_response, handlerVars,
                   finished_resolvers, writerVars, open_writer>>

-----------------------------------------------------------------------------
(***************************************************************************)
(* rate_test_target_sub.                                                    *)
(***************************************************************************)
\* Queries leave from a port modulo Port_max - Port_min, one less than there are.
Sub_port(e, i) ==
    ((outport[e] - Cfg.Port_min + i) % (Port_max - Cfg.Port_min)) + Cfg.Port_min

Sub_goto(e, i, label) == subpc' = [subpc EXCEPT ![e][i] = label]

Sub_send(e, i) ==
    /\ Running /\ subpc[e][i] = "send"
    /\ asked' = asked \cup {[port |-> Sub_port(e, i), entry |-> e, sub |-> i]}
    /\ Sub_goto(e, i, "calc")
    /\ UNCHANGED <<Cfg, main, injectVars, listVars, senderVars, active_resolvers,
                   roundVars, ret_chan, rate_curve_pair, first_response, handlerVars,
                   finished_resolvers, writerVars, open_writer>>

\* calc_last_second_rate, for the test's current rate.
calc_last_second_rate(e, i) ==
    /\ Running /\ subpc[e][i] = "calc"
    /\ rate_curve_pair' = [rate_curve_pair EXCEPT ![e][i] = Append(@, rate_pos[e])]
    /\ first_response' = [first_response EXCEPT ![e][i] = FALSE]
    /\ Sub_goto(e, i, IF first_response[e][i] THEN "return" ELSE "return_none")
    /\ UNCHANGED <<Cfg, main, injectVars, listVars, senderVars, active_resolvers,
                   roundVars, ret_chan, asked, handlerVars, finished_resolvers,
                   writerVars, open_writer>>

\* The last rate is the last for everyone.
Verdicts(e, i) ==
    IF rate_pos[e] = Cfg.curve - 1 THEN {i}
    ELSE IF Cfg.ignore THEN {-1}
    ELSE IF subpc[e][i] = "return_none" THEN {i} ELSE {-1, i}

Sub_return(e, i) ==
    /\ Running /\ subpc[e][i] \in {"return", "return_none"} /\ Len(ret_chan[e]) < RetCap
    /\ \E subid \in Verdicts(e, i) :
          ret_chan' = [ret_chan EXCEPT ![e] = Append(@, subid)]
    /\ Sub_goto(e, i, "idle")
    /\ UNCHANGED <<Cfg, main, injectVars, listVars, senderVars, active_resolvers,
                   roundVars, subVars, first_response, handlerVars, finished_resolvers,
                   writerVars, open_writer>>

-----------------------------------------------------------------------------
(***************************************************************************)
(* Handle_pkt: an answer to any query, at any time after it.                *)
(***************************************************************************)
Bug_Sub_of(p, e) == (p - Cfg.Port_min) % Width
Sub_of(p, e) == (p - outport[e]) % Width

\* Under resolver_mu: the test that has the port, and the subroutine.
Lookup(g, q) ==
    /\ main \in {"test", "stop"} /\ hpc[g] = "free"
    /\ q \in asked /\ q.port \in DOMAIN active_resolvers
    /\ LET e == active_resolvers[q.port]
       IN  hentry' = [hentry EXCEPT ![g] = e] /\ hsub' = [hsub EXCEPT ![g] = Sub_of(q.port, e)]
    /\ hpkt' = [hpkt EXCEPT ![g] = q]
    /\ hpc' = [hpc EXCEPT ![g] = "record"]
    /\ UNCHANGED <<Cfg, main, injectVars, listVars, senderVars, active_resolvers,
                   roundVars, ret_chan, subpc, subVars, first_response,
                   finished_resolvers, writerVars, open_writer>>

\* Under answer_mu, when resolver_mu is released; the test may be over.
Record(g) ==
    /\ Running /\ hpc[g] = "record"
    /\ first_response' = [first_response EXCEPT ![hentry[g]][hsub[g]] = TRUE]
    /\ hpc' = [hpc EXCEPT ![g] = "free"]
    /\ hpkt' = [hpkt EXCEPT ![g] = NULL]
    /\ hentry' = [hentry EXCEPT ![g] = NULL]
    /\ hsub' = [hsub EXCEPT ![g] = 0]
    /\ UNCHANGED <<Cfg, main, injectVars, listVars, senderVars, active_resolvers,
                   roundVars, ret_chan, subpc, subVars, finished_resolvers, writerVars,
                   open_writer>>

-----------------------------------------------------------------------------
(***************************************************************************)
(* write_results, and the end of Start_ratetest, which keeps open_writer    *)
(* and does not wait for the writer.                                        *)
(***************************************************************************)
Write_take ==
    /\ Running /\ wpc = "select" /\ finished_resolvers # <<>>
    /\ wentry' = Head(finished_resolvers)
    /\ finished_resolvers' = Tail(finished_resolvers)
    /\ wpc' = "open"
    /\ UNCHANGED <<Cfg, main, injectVars, listVars, senderVars, active_resolvers,
                   roundVars, ret_chan, subpc, subVars, first_response, handlerVars,
                   files, open_writer>>

Write_open ==
    /\ Running /\ wpc = "open" /\ open_writer = NULL
    /\ open_writer' = "writer" /\ wpc' = "write"
    /\ UNCHANGED <<Cfg, main, injectVars, listVars, senderVars, active_resolvers,
                   roundVars, ret_chan, subpc, subVars, first_response, handlerVars,
                   finished_resolvers, wentry, files>>

Write_file ==
    /\ Running /\ wpc = "write"
    /\ files' = files \cup {wentry}
    /\ open_writer' = NULL /\ wentry' = NULL /\ wpc' = "select"
    /\ UNCHANGED <<Cfg, main, injectVars, listVars, senderVars, active_resolvers,
                   roundVars, ret_chan, subpc, subVars, first_response, handlerVars,
                   finished_resolvers>>

Write_return ==
    /\ main = "stop" /\ wpc = "select"
    /\ wpc' = "done"
    /\ UNCHANGED <<Cfg, main, injectVars, listVars, senderVars, active_resolvers,
                   roundVars, ret_chan, subpc, subVars, first_response, handlerVars,
                   finished_resolvers, wentry, files, open_writer>>

May_stop == open_writer = NULL

Stop ==
    /\ main = "test" /\ \A d \in Senders : spc[d] = "done"
    /\ May_stop
    /\ open_writer' = "main"
    /\ main' = "stop"
    /\ UNCHANGED <<Cfg, injectVars, listVars, senderVars, active_resolvers, roundVars,
                   ret_chan, subpc, subVars, first_response, handlerVars,
                   finished_resolvers, writerVars>>

\* The capture is the only one in Wg.
End ==
    /\ main = "stop"
    /\ main' = "end"
    /\ UNCHANGED <<Cfg, injectVars, listVars, senderVars, active_resolvers, roundVars,
                   ret_chan, subpc, subVars, first_response, handlerVars,
                   finished_resolvers, writerVars, open_writer>>

-----------------------------------------------------------------------------
inject_cache(k) == Inject_take(k) \/ Inject_send(k)
rate_test_target(d) == Start_round(d) \/ Collect(d) \/ Sum_up(d)
send_packets(d) ==
    Take(d) \/ Exhausted(d) \/ rate_test_target(d) \/ Finish(d) \/ Delete(d)
rate_test_target_sub(e, i) ==
    Sub_send(e, i) \/ calc_last_second_rate(e, i) \/ Sub_return(e, i)
write_results == Write_take \/ Write_open \/ Write_file \/ Write_return
Start_ratetest == Injected \/ Stop \/ End

Arrival == \E g \in Handlers, q \in asked : Lookup(g, q)

Step ==
    \/ \E k \in Injectors : inject_cache(k)
    \/ \E d \in Senders : send_packets(d)
    \/ \E e \in Resolvers : \E i \in Subs(e) : rate_test_target_sub(e, i)
    \/ \E g \in Handlers : Record(g)
    \/ write_results
    \/ Start_ratetest

Next == Arrival \/ Step

Spec == Init /\ [][Next]_vars

\* Goroutines go on while they can; nothing is said of answers.
FairSpec ==
    /\ Spec
    /\ WF_vars(\E k \in Injectors : inject_cache(k))
    /\ WF_vars(\E d \in Senders : send_packets(d))
    /\ WF_vars(\E e \in Resolvers : \E i \in Subs(e) : rate_test_target_sub(e, i))
    /\ WF_vars(write_results)
    /\ WF_vars(Start_ratetest)

-----------------------------------------------------------------------------
(***************************************************************************)
(* Properties.                                                              *)
(***************************************************************************)
SubIds == 0 .. Width - 1
Queries == [port : 0 .. Width - 1, entry : Resolvers, sub : Nat \cup {No_sub}]

\* Types of the variables, by who keeps them.
InjectionTypes ==
    /\ main \in {"inject", "test", "stop", "end"}
    /\ inject_data \in SUBSET Resolvers
    /\ ipc \in [Injectors -> {"select", "send", "done"}]
    /\ ientry \in [Injectors -> Resolvers \cup {NULL}]
    /\ \A k \in Injectors : ipc[k] = "send" => ientry[k] \in Resolvers

ListTypes ==
    /\ resolver_data \in SUBSET Resolvers
    /\ current_port \in Cfg.Port_min .. Port_max
    /\ outport \in [Resolvers -> 0 .. Width - 1]
    /\ given \in [Resolvers -> Nat]
    /\ DOMAIN active_resolvers \subseteq 0 .. Width - 1
    /\ \A p \in DOMAIN active_resolvers : active_resolvers[p] \in Resolvers

SenderTypes ==
    /\ spc \in [Senders -> {"take", "round", "collect", "sum", "finish", "delete", "done"}]
    /\ sentry \in [Senders -> Resolvers \cup {NULL}]
    /\ \A d \in Senders : spc[d] \notin {"take", "done"} => sentry[d] \in Resolvers

RoundTypes ==
    /\ DOMAIN subid_pool = Resolvers /\ chan_count \in [Resolvers -> Nat]
    /\ rate_pos \in [Resolvers -> Nat]
    /\ DOMAIN ret_chan = Resolvers /\ DOMAIN acc_rate_data = Resolvers
    /\ DOMAIN subpc = Resolvers /\ DOMAIN rate_curve_pair = Resolvers
    /\ \A e \in Resolvers :
          /\ subid_pool[e] \subseteq Subs(e)
          /\ ret_chan[e] \in Seq(Subs(e) \cup {-1}) /\ Len(ret_chan[e]) <= RetCap
          /\ acc_rate_data[e] \in Seq(SUBSET (Subs(e) \X Nat))
          /\ subpc[e] \in [Subs(e) -> {"idle", "send", "calc", "return", "return_none"}]
          /\ rate_curve_pair[e] \in [Subs(e) -> Seq(Nat)]

AnswerTypes ==
    /\ asked \in SUBSET Queries
    /\ hpc \in [Handlers -> {"free", "record"}]
    /\ hpkt \in [Handlers -> Queries \cup {NULL}]
    /\ hentry \in [Handlers -> Resolvers \cup {NULL}]
    /\ hsub \in [Handlers -> SubIds]
    /\ \A g \in Handlers : hpc[g] = "record" => hentry[g] \in Resolvers
    /\ DOMAIN first_response = Resolvers
    /\ \A e \in Resolvers : first_response[e] \in [Subs(e) -> BOOLEAN]

WriterTypes ==
    /\ finished_resolvers \in Seq(Resolvers) /\ Len(finished_resolvers) <= FinCap
    /\ wpc \in {"select", "open", "write", "done"}
    /\ wentry \in Resolvers \cup {NULL}
    /\ wentry # NULL <=> wpc \in {"open", "write"}
    /\ open_writer \in {NULL, "writer", "main"}
    /\ files \in SUBSET Resolvers

TypeOK ==
    /\ Cfg \in Configs
    /\ InjectionTypes /\ ListTypes /\ SenderTypes
    /\ RoundTypes /\ AnswerTypes /\ WriterTypes

\* A resolver under test, and by whom.
Testing(d) == spc[d] \in {"round", "collect", "sum", "finish"}
UnderTest == {sentry[d] : d \in {s \in Senders : Testing(s)}}
Queued == {finished_resolvers[k] : k \in DOMAIN finished_resolvers}
InHand == {wentry} \ {NULL}

\* Senders and writer hand resolvers on over a map, a channel and a lock
\* (593-651, 165-218): each is untested, with one sender, finished, with the
\* writer or written, one of these, and none is tested by two senders.  The program
\* does not end while one is being written (848), so what has a file has all of it.
ResolversConserved ==
    /\ Input = resolver_data \cup UnderTest \cup Queued \cup InHand \cup files
    /\ resolver_data \cap (UnderTest \cup Queued \cup InHand \cup files) = {}
    /\ UnderTest \cap (Queued \cup InHand \cup files) = {}
    /\ Queued \cap (InHand \cup files) = {}
    /\ InHand \cap files = {}
    /\ \A c, d \in Senders : Testing(c) /\ Testing(d) /\ sentry[c] = sentry[d] => c = d
    /\ \A j, k \in DOMAIN finished_resolvers :
          finished_resolvers[j] = finished_resolvers[k] => j = k
    /\ main \in {"stop", "end"} => wpc # "write"

\* What is summed up for a rate (532-553) was all measured at that rate, by
\* everyone who measured at it, and by nobody who had given up: the round ends
\* (517-529) with its last subroutine and not before.
RatesOfOneRound ==
    \A e \in Resolvers : \A k \in 1 .. Len(acc_rate_data[e]) :
        /\ acc_rate_data[e][k] # {}
        /\ acc_rate_data[e][k] =
              {<<i, k - 1>> : i \in {j \in Subs(e) : Len(rate_curve_pair[e][j]) >= k}}

\* A test stops at the end of the rate curve: rate_curve[rate_pos] (469, 564)
\* is never read behind it, whoever returned what in the last round.
RateInCurve == \A e \in Resolvers : rate_pos[e] < Cfg.curve

\* A port in active_resolvers leads to a subroutine its test has, so that
\* rate_data[subid] (705) never panics, whatever port the answer is for.
SubInRange ==
    /\ \A p \in DOMAIN active_resolvers :
          Sub_of(p, active_resolvers[p]) \in Subs(active_resolvers[p])
    /\ \A g \in Handlers : hpc[g] = "record" => hsub[g] \in Subs(hentry[g])

\* Tests have blocks of their own: pools, or one subroutine each.
OwnBlocks == Cfg.concurrent \/ Cfg.subroutines = 1

\* The ports went once round from e's block to f's.
Cycled(e, f) ==
    f \notin resolver_data
    /\ given[f] + length_n(f) - given[e] > Port_max - Cfg.Port_min + 1

\* While a resolver is tested the ports it registered stay its own: no other
\* test takes or deletes one (609-651), unless the ports went once round between
\* the two (then a sender that deletes late, after 640, takes away new ports).
PortsKept ==
    OwnBlocks => \A d \in Senders :
        LET e == sentry[d] IN
        Testing(d) /\ (\A f \in Resolvers : ~Cycled(e, f) /\ ~Cycled(f, e)) =>
            \A p \in Block(e) : p \in DOMAIN active_resolvers /\ active_resolvers[p] = e

\* An answer is counted for the test and the subroutine that asked (696-714),
\* until the ports have gone once round; at Port_max it is not: the query left
\* from another port (436).
CountedForAsker(g) ==
    LET q == hpkt[g] IN
    \/ hentry[g] = q.entry /\ hsub[g] = q.sub
    \/ outport[q.entry] + q.sub >= Port_max
    \/ \E f \in Resolvers : Cycled(q.entry, f)

\* Nobody's answer, to what inject_cache asked (731, 755), is counted for the first
\* subroutine of the first test, which has got the port, until the ports went round.
CountedForFirst(g) ==
    \/ given[hentry[g]] = 0 /\ hsub[g] = 0
    \/ \E f \in Resolvers : Cycled(f, hentry[g])

AnswersCountedForAsker ==
    OwnBlocks => \A g \in Handlers : hpc[g] = "record" =>
        IF hpkt[g].sub = No_sub THEN CountedForFirst(g) ELSE CountedForAsker(g)

\* Go panics on an index out of range: rate_curve[rate_pos] (469, 564) is never read
\* behind its end, and rate_data[subid] (705) is there for every port that is
\* registered, whoever returned what in the last round and whatever port is answered.
IndexInRange == RateInCurve /\ SubInRange

\* The program ends, whatever is answered and when.
TestEnds == <>(main = "end")
=============================================================================
