---------------------------- MODULE ScanLifecycle ----------------------------
(***************************************************************************)
(* Start and end of a scan: the generator that fills Ip_chan, the           *)
(* goroutines that empty it, SIGINT, and Stop_chan, whose closing ends them *)
(* all (common/base.go, scanner/base_scanner.go, and the generators of the  *)
(* TCP and the UDP scanner).                                                *)
(*                                                                          *)
(* There are three generators: "tcp" and "udp" enumerate a network in the   *)
(* order of module Lcg, "file" reads addresses.  They differ in how they     *)
(* learn that the scan was interrupted and in what they do then.             *)
(* gen_ips_nets, which the rate limit tool uses, behaves like "tcp" for each *)
(* of its networks, with one init goroutine and without a SIGINT handler.    *)
(*                                                                          *)
(* Time matters once the last address is queued: the generator sleeps for   *)
(* a time it computes from the queue's length, and only then closes         *)
(* Stop_chan.  Time is counted in seconds; budget is what the rate limiter  *)
(* still lets pass in the current one.                                      *)
(***************************************************************************)
EXTENDS Lcg, Sequences, FiniteSets, Functions

CONSTANTS
    Modes,     \* the generators a run considers
    HostSizes, \* the sizes of the networks that may be given, in bits
    NetIps,    \* the addresses that may be given
    FileList,  \* the lines of the input file
    Blocked,   \* the addresses on the exclusion list
    ChanCap,   \* capacity of Ip_chan (1024 in the code)
    Routines,  \* the init_tcp or init_udp goroutines
    Rate,      \* Pkts_per_sec; negative for unlimited
    Slack,     \* seconds added to the waiting time (10 in the code)
    NULL

Addresses == 0 .. 2 ^ AddrBits - 1

ASSUME ModesAssumption == Modes \subseteq {"tcp", "udp", "file"} /\ Modes # {}
ASSUME InputAssumption ==
    /\ HostSizes \subseteq 0 .. AddrBits /\ NetIps \subseteq Addresses
    /\ FileList \in Seq(Addresses) /\ IsInjective(FileList)
ASSUME SizesAssumption == /\ ChanCap \in Nat \ {0}
                          /\ Rate \in Int \ {0} /\ Slack \in Nat
ASSUME RoutinesAssumption ==
    /\ IsFiniteSet(Routines) /\ Routines # {}
    /\ Routines \cap {"listeners", "generator"} = {}
ASSUME AddressAssumption == Blocked \subseteq Addresses /\ NULL \notin Addresses

\* The goroutines in the WaitGroup Wg.  Packet_capture, Write_results, Timeout and
\* Close_handle wait for nothing here but Stop_chan: "listeners" stands for each.
Waited == Routines \cup {"listeners", "generator"}

VARIABLES
    mode,            \* the generator of this scan
    netip,           \* the address given on the command line
    lcg_ipv4,        \* gen_ips: the state of the generator
    gpc,             \* the generator's control state
    produced,        \* the addresses put into Ip_chan, in order
    wait,            \* seconds the generator still sleeps
    Waiting_to_end,
    closed,          \* Stop_chan is closed
    panicked,        \* Stop_chan was closed again: the program has crashed
    spc,             \* the SIGINT handler
    Ip_chan,
    hold,            \* the address an init goroutine took, not yet sent to
    budget,          \* sends the limiter still allows this second
    probed,          \* addresses a packet was sent to
    live             \* members of Waited that have not returned

inputVars == <<mode, netip>>
genVars == <<inputVars, lcg_ipv4, gpc, produced, wait>>
stopVars == <<Waiting_to_end, closed, panicked, spc>>
sendVars == <<hold, budget, probed>>
vars == <<genVars, stopVars, Ip_chan, sendVars, live>>

Limited == Rate > 0

Init ==
    /\ mode \in Modes
    /\ \/ mode = "file" /\ netip = NULL /\ lcg_ipv4 = NULL
       \/ /\ mode # "file" /\ netip \in NetIps
          /\ \E bits \in HostSizes : lcg_ipv4 \in LcgStates(2 ^ bits)
    /\ gpc = "loop" /\ produced = <<>> /\ wait = 0
    /\ Waiting_to_end = FALSE /\ closed = FALSE /\ panicked = FALSE
    /\ spc = "idle"
    /\ Ip_chan = <<>>
    /\ hold = [r \in Routines |-> NULL]
    /\ budget = IF Limited THEN Rate ELSE 0
    /\ probed = {}
    /\ live = Waited

Running == live # {} /\ ~panicked

\* close(Stop_chan), which panics when the channel is closed already.
CloseStop == IF closed THEN panicked' = TRUE /\ UNCHANGED closed
                       ELSE closed' = TRUE /\ UNCHANGED panicked

-----------------------------------------------------------------------------
(***************************************************************************)
(* The generators.                                                          *)
(***************************************************************************)

\* Plausible mistakes are the operators Bug_...: no action uses one.
\* The sleep is as long as the queue alone asks for.
Bug_WaitTime(n) == IF Limited THEN n \div Rate ELSE -(n \div (-Rate))

\* len(Ip_chan)/Pkts_per_sec + 10, with Go's division, which truncates.
WaitTime(n) == (IF Limited THEN n \div Rate ELSE -(n \div (-Rate))) + Slack

\* What tells the generator to stop: the closed channel, or the flag.
Told == IF mode = "file" THEN Waiting_to_end ELSE closed

\* Has_next, or another line in the file.
HasNext == IF mode = "file" THEN Len(produced) < Len(FileList) ELSE Has_next(lcg_ipv4)

\* The head of the loop.  gen_ips of the UDP scanner returns false when told to
\* stop, and gen_ips_wait goes on all the same.
Gen_loop ==
    /\ Running /\ gpc = "loop"
    /\ IF ~HasNext
       THEN gpc' = "end" /\ UNCHANGED live
       ELSE IF ~Told
       THEN gpc' = "send" /\ UNCHANGED live
       ELSE IF mode = "udp"
       THEN gpc' = "end" /\ UNCHANGED live
       ELSE gpc' = "returned" /\ live' = live \ {"generator"}
    /\ UNCHANGED <<inputVars, lcg_ipv4, produced, wait, stopVars, Ip_chan, sendVars>>

\* netip_int + uint32(val), or the line read.
NextAddress == IF mode = "file" THEN FileList[Len(produced) + 1]
               ELSE ToAddress(netip + ToAddress(FirstBelowMax(lcg_ipv4)))

\* Ip_chan <- address, blocking while the channel is full, whatever happens to
\* Stop_chan meanwhile.
Gen_send ==
    /\ Running /\ gpc = "send" /\ Len(Ip_chan) < ChanCap
    /\ Ip_chan' = Append(Ip_chan, NextAddress)
    /\ produced' = Append(produced, NextAddress)
    /\ lcg_ipv4' = IF mode = "file" THEN lcg_ipv4 ELSE LcgNext(lcg_ipv4)
    /\ gpc' = "loop"
    /\ UNCHANGED <<inputVars, wait, stopVars, sendVars, live>>

\* All addresses queued: compute the waiting time, announce the end, sleep.
Gen_end ==
    /\ Running /\ gpc = "end"
    /\ wait' = WaitTime(Len(Ip_chan))
    /\ Waiting_to_end' = TRUE
    /\ gpc' = "sleep"
    /\ UNCHANGED <<inputVars, lcg_ipv4, produced, closed, panicked, spc, Ip_chan,
                   sendVars, live>>

\* The sleep is over.
Gen_close ==
    /\ Running /\ gpc = "sleep" /\ wait <= 0
    /\ CloseStop
    /\ gpc' = "returned" /\ live' = live \ {"generator"}
    /\ UNCHANGED <<inputVars, lcg_ipv4, produced, wait, Waiting_to_end, spc, Ip_chan,
                   sendVars>>

-----------------------------------------------------------------------------
(***************************************************************************)
(* init_tcp, init_udp.                                                      *)
(***************************************************************************)

\* An excluded address stays where it is.
Bug_Take_blocked(r) ==
    /\ Running /\ r \in live /\ hold[r] = NULL /\ Ip_chan # <<>>
    /\ Head(Ip_chan) \notin Blocked
    /\ Ip_chan' = Tail(Ip_chan)
    /\ hold' = [hold EXCEPT ![r] = Head(Ip_chan)]
    /\ UNCHANGED <<genVars, stopVars, budget, probed, live>>

\* An address leaves the channel; a blocked one is dropped.
Take(r) ==
    /\ Running /\ r \in live /\ hold[r] = NULL /\ Ip_chan # <<>>
    /\ Ip_chan' = Tail(Ip_chan)
    /\ IF Head(Ip_chan) \in Blocked
       THEN UNCHANGED hold
       ELSE hold' = [hold EXCEPT ![r] = Head(Ip_chan)]
    /\ UNCHANGED <<genVars, stopVars, budget, probed, live>>

\* Send_limiter.Take(), then the packet.
Probe(r) ==
    /\ Running /\ r \in live /\ hold[r] # NULL
    /\ Limited => budget > 0
    /\ budget' = IF Limited THEN budget - 1 ELSE budget
    /\ probed' = probed \cup {hold[r]}
    /\ hold' = [hold EXCEPT ![r] = NULL]
    /\ UNCHANGED <<genVars, stopVars, Ip_chan, live>>

\* The init goroutines look at Stop_chan only once all addresses were generated.
Bug_Return(t) ==
    /\ Running /\ closed /\ t \in live \ {"generator"}
    /\ t \in Routines => hold[t] = NULL /\ ~HasNext
    /\ live' = live \ {t}
    /\ UNCHANGED <<genVars, stopVars, Ip_chan, sendVars>>

\* A goroutine at its select sees the closed channel and returns, even when an
\* address is ready as well.
Return(t) ==
    /\ Running /\ closed /\ t \in live \ {"generator"}
    /\ t \in Routines => hold[t] = NULL
    /\ live' = live \ {t}
    /\ UNCHANGED <<genVars, stopVars, Ip_chan, sendVars>>

-----------------------------------------------------------------------------
(***************************************************************************)
(* Handle_ctrl_c.  It serves one signal.                                    *)
(***************************************************************************)

Interrupt ==
    /\ Running /\ spc = "idle"
    /\ IF Waiting_to_end
       THEN spc' = "ignored" /\ UNCHANGED Waiting_to_end
       ELSE spc' = "closing" /\ Waiting_to_end' = TRUE
    /\ UNCHANGED <<genVars, closed, panicked, Ip_chan, sendVars, live>>

Interrupt_close ==
    /\ Running /\ spc = "closing"
    /\ CloseStop
    /\ spc' = "closed"
    /\ UNCHANGED <<genVars, Waiting_to_end, Ip_chan, sendVars, live>>

-----------------------------------------------------------------------------
(***************************************************************************)
(* Time (external).  While the generator sleeps a second ends only when     *)
(* every init goroutine waits for the limiter or for an address: sending    *)
(* takes no time beside the limiter's.                                      *)
(***************************************************************************)
CanMove(r) == r \in live /\ IF hold[r] = NULL THEN Ip_chan # <<>>
                                               ELSE Limited => budget > 0

Tick ==
    /\ Running /\ gpc = "sleep" /\ wait > 0
    /\ \A r \in Routines : ~CanMove(r)
    /\ wait' = wait - 1
    /\ budget' = IF Limited THEN Rate ELSE budget
    /\ UNCHANGED <<inputVars, lcg_ipv4, gpc, produced, stopVars, Ip_chan, hold,
                   probed, live>>

\* Seconds before that pass at any time.
Refill ==
    /\ Running /\ Limited /\ gpc # "sleep" /\ budget < Rate
    /\ budget' = Rate
    /\ UNCHANGED <<genVars, stopVars, Ip_chan, hold, probed, live>>

Over == ~Running /\ UNCHANGED vars

Generate == Gen_loop \/ Gen_send \/ Gen_end \/ Gen_close

Next ==
    \/ Generate
    \/ \E r \in Routines : Take(r) \/ Probe(r)
    \/ \E t \in Waited : Return(t)
    \/ Interrupt \/ Interrupt_close
    \/ Tick \/ Refill
    \/ Over

Spec == Init /\ [][Next]_vars

(***************************************************************************)
(* Fairness: goroutines that can run do, time passes, a select keeps        *)
(* choosing among its ready channels at random.  The user need never press  *)
(* Ctrl-C.                                                                  *)
(***************************************************************************)
FairSpec ==
    /\ Spec
    /\ WF_vars(Generate)
    /\ \A r \in Routines : SF_vars(Take(r) \/ Probe(r)) /\ SF_vars(Return(r))
    /\ WF_vars(Return("listeners"))
    /\ WF_vars(Interrupt_close)
    /\ WF_vars(Tick) /\ WF_vars(Refill)

-----------------------------------------------------------------------------
InChan(a) == {k \in 1 .. Len(Ip_chan) : Ip_chan[k] = a}
HeldBy(a) == {r \in Routines : hold[r] = a}

\* The addresses the user asked for.
Requested == IF mode = "file" THEN Range(FileList)
             ELSE {ToAddress(netip + v) : v \in 0 .. lcg_ipv4.max - 1}

\* tcp_scanner.go:413-450, lcg.go:35-44: an address that is not excluded is, once
\* generated, queued, held by one init goroutine or probed, and only one of these:
\* none is generated twice, also where the generator's products overflow, none is
\* lost between the goroutines and none is probed twice.  An excluded address is
\* never probed.
AddressesConserved ==
    \A a \in Addresses :
        LET places == Cardinality(InChan(a)) + Cardinality(HeldBy(a))
                        + (IF a \in probed THEN 1 ELSE 0)
        IN  /\ a \notin Range(produced) => places = 0
            /\ a \in Range(produced) \ Blocked => places = 1
            /\ a \in Range(produced) \cap Blocked =>
                  places = Cardinality(InChan(a)) /\ places <= 1

\* The seconds added to the waiting time cover one address for each init goroutine,
\* what the queue's length leaves over when it is divided, and the second that has
\* begun.  A negative rate takes them away, one for so many addresses in the queue:
\* something must be left.
TimeSuffices == IF Limited THEN Cardinality(Routines) <= (Slack - 2) * Rate + 1
                           ELSE ChanCap < Slack * (-Rate)

\* base_scanner.go:193-200, tcp_scanner.go:442-460: the generator covers the network
\* and waits long enough; when it closes Stop_chan every address has been probed or
\* excluded, as long as the seconds that it adds suffice.
AllProbedAtEnd ==
    closed /\ spc \in {"idle", "ignored"} /\ TimeSuffices => probed = Requested \ Blocked

\* base.go:238, "received SIGINT, ending": closing Stop_chan ends the scan in an
\* orderly way.  Violated: the generator may close it again.
StopClosedOnce == ~panicked

\* tcp_scanner.go:441-460, 500-508: a scan nobody interrupts comes to its end.
ScanEnds == <>(spc \in {"closing", "closed"} \/ live = {})

\* base_scanner.go:84-85, 117-118, tcp_scanner.go:433-434, 450, base.go:222-224, 243-249:
\* once Stop_chan is closed the program ends, or else there is one reason: the
\* generator was sending to the full Ip_chan when its last reader returned.
StopEndsScan ==
    closed ~> \/ ~Running
              \/ live = {"generator"} /\ gpc = "send" /\ Len(Ip_chan) = ChanCap
=============================================================================
