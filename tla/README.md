# A TLA+ model of the DNS measurement tools

The repository holds command line tools that measure open DNS servers on the Internet: a TCP
scanner and a UDP scanner, a TCP traceroute, a rate limit tester, a server and a scanner for QNAME
minimisation, and programs that evaluate the results. They are Go programs whose goroutines share
maps, linked lists and channels and talk to servers that answer late, repeatedly or never. This
directory holds TLA+ models of their cores, TLC runs that check them on small instances, and TLAPS
proofs of the most important statements for every size.

Paths below are relative to `src/src/`.

## 1. Inventory

| component | source | state it keeps | operations |
|---|---|---|---|
| TCP scanner | `scanner/tcp/tcp_scanner.go` | the map `Scan_data.Items` of linked lists (SYN, SYN-ACK, DNS answer of one connection), `ip_loop_id`, `Write_chan` | `init_tcp` with `get_next_id` and `send_syn`; `Handle_pkt`; `Write_item` |
| TCP keys and senders | `tcp_scanner.go`, `common/tcp_common/` | the id counter; everything else is on the wire | id to port and sequence number; acknowledgement to key; the framed query |
| UDP scanner | `scanner/udp/udp_scanner.go` | `Scan_data.Items` by (port, DNS id), `ip_loop_id`, `Write_chan` | `init_udp` with `update_sync_init` and `send_dns`; `Handle_pkt`; `Write_item`; `Start_internal` |
| Scanner base | `scanner/base_scanner.go` | the exclusion list, `Write_chan`, the result file | `Write_results`, `Store_internal`, `Timeout`, `Exclude_ips`, `Read_ips_file` |
| Scan lifecycle | `common/base.go`, the `gen_ips` functions | `Ip_chan`, `Stop_chan`, `Waiting_to_end`, the WaitGroup, the rate limiter | generators, `Handle_ctrl_c`, `Close_handle`, `Start_scan` |
| Address generator | `generator/lcg.go` | value, offset, multiplier, modulus, count | `Init`, `Next`, `Has_next` |
| Reassembly | `common/base.go` `Process_pkt` | `fragmap`, fragments by IP Id | `Process_pkt`, `Packet_capture` |
| TCP traceroute | `traceroute/traceroute_tcp.go` | one parameter object with its mutex per start port, `write_chan`, `init_finished` | `init_traceroute`, `Handle_pkt`, `timeout`, `Write_results`, `read_ips_file` |
| Rate limit tester | `ratelimit/ratelimit.go` | `resolver_data`, `active_resolvers` by port, `current_port`; of a test its round, `subid_pool`, `ret_chan`, measurements; `finished_resolvers`, `open_writer` | `inject_cache`; `send_packets`; `rate_test_target`, `rate_test_target_sub`; `Handle_pkt`; `write_results`; `Start_ratetest` |
| QNAME minimisation server | `qmin/dns_server/dns_server.go` | the map `probes` under `probesMutex` | `ServeDNS`, `cleanProbes` |
| QNAME minimisation scanner | `qmin/scanner/` | per round a channel and a WaitGroup; a temporary store, a Parquet writer | four query goroutines per resolver, the collector, conversion of the store |
| QNAME minimisation postprocessing | `postprocessing/qmin/postproc_scan_result.go` | two maps of merged rows | `evalRow`, `analyzePattern`, the merges, output |
| Packet dump | `util/dump/dump_pcaps.go` | the current file and its writer | writing packets, rotation |
| Command line, configuration, logging | `dns_tool.go`, `config/`, `logging/` | the configuration, read once | parsing, printing |
| Raw sockets, port binding | `common/*/` senders, `udp_bind.go` | file descriptors | sending, binding |
| Fingerprinting, Python evaluation, scripts, notebooks | `fingerprinting/`, `postprocessing/*.py`, ... | none beyond one run | batch transformation of finished files |

How they interact. A generator goroutine puts addresses into `Ip_chan`; the init goroutines
(`Number_routines` of them) take them out, drop excluded ones, wait for the rate limiter, enter the
probe into the map and send the first packet. `Packet_capture` starts one goroutine per captured
packet, which goes through `Process_pkt` into the tool's `Handle_pkt` (a callback through the
interface `Base_methods`). A handler finds its probe in the map under a mutex, works on it, mostly
without the mutex, and puts finished probes into `Write_chan`. One writer goroutine turns them into
rows and, in the TCP scanner, deletes the map entry. `Timeout` sweeps entries over ten seconds
old. Closing `Stop_chan` ends all of them; `Start_scan` returns when the WaitGroup is empty. It is
closed by the generator, some time after the last address, or by the SIGINT handler.

What is hard about it:

* **Unlocked lists.** The TCP scanner holds its mutex only for the lookup. Handlers of one connection
  walk, test and extend one linked list without it, while the writer walks the same list.
* **Keys that come round again.** The UDP scanner's keys are used again after a cycle; the TCP
  scanner's keys are recomputed from acknowledgement numbers modulo 2^32.
* **An uncooperative network.** Segments and fragments are lost, late, reordered and repeated; servers
  close early or answer twice.
* **Rounds without a barrier.** A rate test counts the reports of its subroutines in a channel, and the
  number it waits for changes while it counts.
* **Agreement of three programs.** What the analysis says of a resolver rests on what the name server
  collected in a shared map, on what four goroutines made of its answers, and on their rows' patterns.
* **Bounded channels.** Every stage blocks when the next one is slow, and the stages end independently
  once `Stop_chan` is closed.
* **Shutdown.** Two parties may close one channel, and flags that decide who does are read and written
  without synchronisation. The end of a scan is a computed sleep.
* **Integer widths.** For 0.0.0.0/0 the address generator's products overflow `int`.

What makes the components correct:

* TCP scanner: no list mixes connections or stages; a row in the file belongs to the record in front
  of it; what completed is queued and written as often as it completed; keys are never shared; entries
  do not stay in the map; a closed `Stop_chan` ends the scan.
* Keys: distinct ids have distinct keys, every handler finds the key of its connection and never
  another's.
* UDP scanner: a probe is recorded at most once and only while it is open; what was answered reaches the
  file; an answer is attributed to another probe only a full cycle of keys apart.
* Lifecycle and generator: every address is generated once, probed once or excluded, and probed before
  the scan ends; the scan ends.
* Reassembly: a packet is handed over once, whole, in order.
* Traceroute: the result of a run holds this run's hops only; the port of the DNS traceroute never
  changes during a run; a run is replaced only after it was written; every target gets a file. (The first and the
  last two unless something left of an earlier run reaches it.)
* Rate limiter: no resolver is lost or tested twice; a round ends with its last subroutine; an answer is
  counted for the test and subroutine that asked; nothing is indexed out of range; the test ends.
* QNAME minimisation: what the analysis says of a resolver is what the resolver does; a complete result
  file has a row for each query; the order of rows does not matter; the scan ends.

## 2. Modules

| module | models | state and actions against the code |
|---|---|---|
| `TcpScan` | TCP scanner, writer, sweep, end | a node is named by its connection (root) or by the handler that allocated it; `next` is the `Next` pointer of `tcp_scan_data_item`; `Items` the keys of the map; `hpc`, `hpkt`, `hcur` a handler's position, packet and node reached. Each pointer read (`Walk`), test of the last node (`Check_...`), link (`Link_...`) and send (`Enqueue`) is an action, because the code holds no lock there; `Lookup`, `Write_delete` and `Timeout` are one action each, because it does |
| `TcpWire` | ids, ports, sequence and acknowledgement numbers, length prefix | one connection at a time; `seg` is the segment in flight, with the numbers each sender puts into it |
| `UdpScan` | UDP scanner, writer, sweep, end | `Items` maps (port, DNS id) to the probe registered; `ip_loop_id` is the counter of that name; `answer` is the probe whose response was filled into an item |
| `ProbeRecord` | what the UDP scanner promises about its file | a status per probe; `UdpScan` implements it with `Status` as refinement mapping |
| `ScanLifecycle` | generators, `Ip_chan`, rate limiter, SIGINT, `Stop_chan`, return of the goroutines | `mode` chooses the generator, `gpc` is where it stands, `spc` the SIGINT handler; a second `close` sets `panicked` |
| `Lcg` | `generator/lcg.go` | operators on the struct's fields, with Go's division, `int` of `IntBits` bits and `uint32` of `AddrBits` bits; `ScanLifecycle` runs them |
| `Fragments` | `Process_pkt` | `fragmap` as in the code; an arrival is one action, because all of it happens under `fragbuf.mu` |
| `Traceroute` | TCP traceroute, from the reader of the file to the writer of the results | a slot is an `init_traceroute` goroutine with its start port; `param` is `tracert_params`, `lock` the mutex of an object where a goroutine keeps it across a blocking send; `hpc` is where in `Handle_pkt` a handler is, between its unlocked tests and its locked updates; `tpc` and `wpc` the same for `timeout` and `Write_results` |
| `RateLimit` | the rate limit tester, injection, tests, answers, writer and end | `spc` is where in `send_packets` and `rate_test_target` a sender is, `sentry` its resolver; `subpc` where a subroutine is; `hpc`, `hentry`, `hsub` a handler that has looked up test and subroutine and not yet recorded; `wpc` the writer. What runs under `resolver_mu` is one action (`Take`, `Delete`, `Lookup`) |
| `QminServer` | the name server: `probes`, `requestResponse`, `cleanProbes` | operators and two steps on the map; a name is its id and its number of labels, a part of a sequence what its first label, its length and its type say |
| `QminResult` | `evalRow`, `analyzePattern`, `combineResults` and the loop of `processFile` | operators on rows |
| `QminScan` | `qmin/scanner`, composed with the two above and a resolver between scanner and server | `rpc` is where a query goroutine is, `job` its query at the resolver, `stray` the queries it gave up, `ch`, `store` and `result` as in the code |
| `MCTcpScan`, `MCUdpScan`, `MCScanLifecycle`, `MCFragments`, `MCTraceroute`, `MCRateLimit`, `MCQmin` | constants, settings, symmetry and constraints for TLC | |
| `TcpScanProofs`, `TcpWireProofs`, `UdpScanProofs`, `TracerouteProofs`, `RateLimitProofs`, `QminProofs`, `ScanLifecycleProofs`, `FragmentsProofs` | theorems | |

`TcpScan` takes from `TcpWire` that a key names one connection, and uses the id where the code uses
the key. Both scanners take from `ScanLifecycle` when `Stop_chan` may be closed: at any time. In
`ScanLifecycle` in turn the scanner's other goroutines are the one member `"listeners"` of the
WaitGroup, which waits for `Stop_chan` only.

Abstractions. A DNS answer is one of three bodies (addresses only, something else, unusable); a row
is the node it is made from; a UDP response is the probe it answers. The clock is a set of
connections or probes that have become older than ten seconds, except in `ScanLifecycle`, where the
sleep is what matters and seconds are counted. Logging, the layout of rows, compression and the
kernel's iptables rules are left out. Servers and the network are actions of their own, marked as
external: a packet once sent may be delivered at any later time, more than once or never.

In `Traceroute` a hop in an object's lists is the run whose packet reported it, and both lists are one
set, because what may go wrong with them is that runs mix. The lines of the input file are
taken to be different addresses. A packet is looked up in the action in which
it arrives: between the two only the packet's own fields are read. The writer reads the address of the object's
run when it creates the file and the hops when it fills it (`Write_create`, `Write_rows`), without the mutex, so the
object may have gone on to another run in between. A time stamp is unset,
fresh, or old, which is past whatever limit it is compared with; `Age` turns it. `Port_reuse_timeout` has no default
(`config/config.go:37`) and `traceroute/config.yml.template` does not set it, so it is 0 and a finish is old at once:
a port may be used again as soon as its run is finished and written (`Reusable`), with packets, handlers, the queue and the writer
still referring to it. A longer timeout only delays that step, and every step may be delayed. What follows from it
is in section 5; the history variable `disturbed` keeps the runs that something left of an earlier run may reach, and the
properties about the results of a run speak of the others: a packet of an earlier run that passes the tests of `Handle_pkt`, a second finish of
a run, and at the start of a run a handler or `timeout` still at the object, a finish before the first run, or a
disturbed run before it, disturb. That the queue or the writer holds the object does not: this
is what `written` at line 489 is for.

In `RateLimit` a rate is its position in the rate curve and a measurement the rate it was made at. What a
query asks for and the pace of queries are left out. Whether enough answers came back is open, except
that a subroutine that heard nothing gives up (`first_response`), unless no answer is expected of
it (`ignore`: `rate_ignore_threshold`, or a threshold of 0, which 0 answers do not fall short of; a rate that is less than the number of
subroutines is divided to 0 as well, at `ratelimit.go:487`, and is taken not to occur). Answers come at any time after
their query and as often as the network likes, as long as their port is registered; one whose port
is not is dropped without a trace. `inject_cache` sends from `current_port` too, and what answers it late reaches whoever has this port by then. `given`, `hpkt` and the `entry` and `sub` of a query are history, read by properties only.

In `QminScan` the resolver under test is the environment: a behaviour says which names it asks for on the
way to a full name, what it makes of a denial, and whether it remembers denials. The code chooses
random numbers for ids; here a number is new or one that was drawn before. Time is
not modelled: a probe may be deleted at any time (`Age`), although with the defaults, five seconds at the
server against five and twenty at the clients, it takes a retry to get there. What goes wrong is bounded in all by
`faults`: a lost or late query, a number drawn twice, deleted probes, an error of the disk. Packets of one query
are in order, since a resolver waits for an answer before it asks again; requests of a query that
timed out and of the one that replaced it mix in every order. `kinds` bounds which of the four goroutines take part in
an instance, because they share nothing but the channel unless they share probes.

The operators `Bug_...` are variants of the definition next to them with a mistake a programmer could
make there. No action uses one. Substituting one for the definition makes TLC refute the property it
is meant for, which shows that the property watches the code.

## 3. Runs

| run | instance | properties |
|---|---|---|
| `tcp_safe` | 2 connections, 2 `init_tcp` goroutines, 4 packets, all bodies, `Write_chan` of 1; 1.4 million states | `TypeOK`, `FreshKey`, `ListsOrdered`, `RecordsOrdered`, `QueuedComplete`, `RecordsConserved`, `FinPshAckRecordedOnce` |
| `tcp_live` | 1 connection, 3 packets, stop at any time, fairness | `EntriesLeave`, `EnqueuedIsTaken`, `StopEnds` |
| `tcp_twice` | 1 connection | `SynAckLinkedOnce`, violated |
| `wire` | 32 ids, sequence numbers modulo 128 | `LookupFindsConnection`, `OtherStagesMiss`, `KeysDistinct` |
| `udp` | 5 probes over 4 keys, 2 packets, `Write_chan` of 1 | `RecordedOnce`, `MissedOnlyLate`, `MixedUpAfterFullCycle`, `ImplementsProbeRecord` |
| `scan` | 3 generators, networks of 1, 2 and 4 addresses, 1 excluded, queue of 2, interrupt at any time, fairness | `AddressesConserved`, `AllProbedAtEnd`, `ScanEnds`, `StopEndsScan` |
| `scan_crash` | the UDP generator | `StopClosedOnce`, violated |
| `fragments` | packets of 3, 2, 3 and 1 fragments, two under one Id, 6 arrivals; 35 thousand states | `WholePacketsOnly`, `UnitsInPlace` |
| `trace_safe` | 1 slot, 2 targets, 2 hops, 2 handlers, queues of 1, no `Port_reuse_timeout`; 1.7 million states | `TypeOK`, `ResultsOfOneRun`, `AllTracedAtEnd`, `DnsPortFixed`, `NoRunDropped` |
| `trace_live` | 1 slot used and 1 not, 2 targets or a single one, 1 hop, 1 handler, queues of 1, fairness; 1.2 million states | `TracerouteEnds` |
| `rate_limit` | 2 senders, 3 resolvers, 2 injectors, 1 handler, pools of up to 2, up to 2 subroutines and 2 rates, ports 65533 or 65534 to 65535, `ret_chan` of 2, `finished_resolvers` of 1, fairness; 863 thousand states | `ResolversConserved`, `RatesOfOneRound`, `IndexInRange`, `PortsKept`, `AnswersCountedForAsker`, `TestEnds` |
| `qmin` | 1 or 2 rounds, names of 2 and 3 labels, 7 behaviours of resolvers, up to 2 faults, fairness; 131 thousand states | `MeasuredTruly`, `NxTruly`, `RowPerQuery`, `OrderFree`, `ScanEnds` |

Why the bounds are enough. A TCP list has at most three nodes, so three packets fill one and the
fourth is a repetition, a late arrival or belongs to the other connection; two connections are what
it takes to mix two. Handlers are interchangeable and so are the `init_tcp` goroutines, which the
symmetry sets use; no property names one. `tcp_safe` does not look beyond the closing of
`Stop_chan` (constraint `NotStopped`), which `tcp_live` does. A channel of one slot is full
whenever something is in it. In `udp` five probes over four keys reuse a key once, with the old
probe open, answered, swept or recorded; the constraint `StopEarly` lets the scan be stopped only
during the first two probes, since what stopping cuts off does not depend on which probe is
current. In `wire` all ids and all initial sequence numbers at the wrap-around are tried; the
theorems remove the bound. In `scan` the word size is chosen so that products overflow for the
largest network exactly as those of 0.0.0.0/0 do in 64 bits; the smallest network is a single
address; two goroutines can hold one address each, which is what the slack of the waiting time has
to cover (`TimeSuffices`, which holds of the instance and without which `AllProbedAtEnd` would be false, see section 5). In `fragments` three fragments give every order, and the shared Id gives every mix of two
packets, also one that goes on behind the last fragment of the shorter one. In `trace_safe` two targets through one slot are what it takes to mix two runs; two hops give
two ports to race for, and two handlers the race. Two packets are handled together only in the first run
(`MeetInFirstRun`): the second starts from the same values, and a handler of the first that is still there disturbs it. A behaviour in which
both runs are disturbed is not followed (`SomeUndisturbed`), since the properties say nothing of it. What
follows the closing of `Stop_chan` is left to `trace_live` (`NotStopped`), whose second slot stays
without a target (`SecondUnused`), because a slot that was never used decides differently when it is
finished. `trace_live` records no hop of an earlier run (`NoStrayHops`): nothing reads the hops but the writer's rows. Without `SomeUndisturbed` its property has also been
checked, with one slot (3.4 million states, too long for a run to be repeated).

In `rate_limit` each setting of `MCRateLimit` is there for a case: two rates with a pool of two (a
subroutine gives up in the first round, in the second, or both go on); blocks that end behind the last port; a third test on the port of the
first; subroutines instead of a pool, whose blocks overlap; injection, before single subroutines and before the three tests on two ports, where the third gets the port of the injection. Both channels can be full. The range
of ports ends at 65535, the largest there is, so that registered ports overflow `uint16`. One handler is enough: a handler
looks up under a mutex and writes a flag, so that two do what one does in turn.

In `qmin` the instances of `MCQmin` are as large in one respect each as they can be: all four
goroutines without faults; two goroutines that share ids, or denials, with one fault or two; names of three labels; two
rounds that servers of different behaviour answer, as they do behind one address, also with a number drawn in both. Two faults are what it takes to lose a
query and its retry, or to draw a number again and delete its probe.

Fairness. `tcp_live` and `scan` assume that a goroutine that can run does (Go's scheduler is
preemptive and fair), that time passes, that the ticker of `Timeout` fires, and strong fairness for
returning at a closed `Stop_chan`: a `select` with several ready cases chooses at random, so it is
not for ever that it picks another. Goroutines share channels, so in `scan` taking an address is
strongly fair as well. Nothing is assumed of servers, of the network or of the user: every liveness
property holds if no packet ever arrives. `trace_live` assumes in addition that the packets of a run do
not arrive for ever (`<>[][~Arrival]_vars`): a server that repeats its FIN-ACK without end sets
`finished` anew each time (`traceroute_tcp.go:335`) and would keep the port from being used again. Once
no packet arrives every step of the program and of the clock brings it nearer to its end, so weak
fairness of `Step`, that the program does not stop while some goroutine can run, is all that is needed.
`rate_limit` assumes weak fairness for each kind of goroutine (injectors, senders, subroutines, writer, main): it
is never all senders that wait for somebody, unless it is for the writer or the subroutines, and these go on.
Nothing is assumed of answers or of handlers. `qmin` assumes that the scanner goes on and that a query it waits for
makes progress: every query has a timeout, a resolver has so many names to ask for, and what it does
with queries given up is not needed.

Deadlock is checked in the scanner modules, whose only end is the return of all goroutines. It is not
checked in `scan`, `trace_safe` and `trace_live`, where the program may really hang (see below), in
`fragments`, where the number of arrivals is bounded, and in `rate_limit` and `qmin`, which have an end
that `TestEnds` and `ScanEnds` say they reach. `StopEndsScan` and `TracerouteEnds` say instead
that the known way to hang is the only one.

## 4. Theorems

| theorem | states | inductive argument |
|---|---|---|
| `TcpScanProofs!TypeCorrect` | `Spec => []TypeOK` | `TypeOK` alone is not inductive: a handler that walks or links must have reached a node, and the writer must stand on one, or the next step reads the `Next` of nil. `TypeInv` adds both |
| `TcpScanProofs!ListsStayOrdered` | `Spec => []ListsOrdered` | `ListsInv`: a handler about to link stands on a node of its own connection whose flags its packet may follow. The test of the last node may be stale when the link happens, but flags of a node never change, so what was tested still holds; what is stale is only that it was the last |
| `TcpScanProofs!FileWellFormed` | `Spec => []RecordsOrdered` | `RowsInv`: the row the writer is about to write may follow the last one. A relinked list may cut a node off, but not change which nodes may follow it |
| `TcpScanProofs!KeysStayFresh` | `Spec => []FreshKey` | `KeysInv`: ids in use, in the map or in a list are below the counter |
| `TcpScanProofs!QueuedOncePerFinPshAck` | `Spec => []FinPshAckRecordedOnce` | `QueueingInv`: a FIN-ACK queues only behind a PSH-ACK that is linked, and what is linked stays linked; so of a connection without one only the FIN-PSH-ACKs are counted, which are as many as are linked |
| `TcpScanProofs!NoRecordLost` | `Spec => []RecordsConserved` | inductive with `QueueingInv`, which also keeps the handlers at work finite: sending adds one to the channel and one to the handlers that are done, taking and writing move one on |
| `TcpScanProofs!QueuedRecordsComplete` | `Spec => []QueuedComplete` | `CompleteInv`: with one SYN-ACK linked, each linked node is reached from the root. A link cuts a node off only where a second SYN-ACK passed the unlocked test, and then two are linked for ever |
| `TcpWireProofs!KeysStayDistinct` | `Spec => []KeysDistinct` | `KeyInjective`: division with remainder, and products of the padding are a padding apart |
| `TcpWireProofs!LookupCorrect`, `StagesSeparate` | `Spec => []LookupFindsConnection`, `Spec => []OtherStagesMiss` | `Dialogue`: the acknowledgement of a segment in flight is the connection's sequence number plus what its stage acknowledges, modulo the word; the padding is wider than any of these offsets |
| `UdpScanProofs!TypeCorrect` | `Spec => []TypeOK` | a handler that enqueues holds an item, a goroutine that sends holds a probe with a key |
| `UdpScanProofs!OneRecordEach` | `Spec => []RecordedOnce` | `MapInv`, `PathInv`: a registered probe is in no handler, in no slot of the channel and in no row; a probe in one of these is in no other |
| `UdpScanProofs!Implements` | `Spec => ImplementsProbeRecord` | `IInv` adds `NothingLost`: what was answered is with a handler, in the channel or in the file. Then each action maps to an action of `ProbeRecord` or to a stutter |
| `UdpScanProofs!MissedLate` | `Spec => []MissedOnlyLate` | `LateInv`: a query leaves after its entry is stored, so a handler's probe was registered, and one that found nothing stays unregistered, since no id is registered again |
| `UdpScanProofs!MixedUpOnlyAfterCycle` | `Spec => []MixedUpAfterFullCycle` | `RoundInv`: the number of a probe is a number of whole rounds plus the place of its key, so equal keys are whole rounds apart |
| `TracerouteProofs!TypeCorrect` | `Spec => []TypeOK` | `TypeInv` adds that every reference to a slot's object, by a slot, a packet's port, a handler, `timeout`, the writer or the queue, leads to an object that exists |
| `TracerouteProofs!PortStaysFixed` | `Spec => DnsPortFixed` | a handler sets the port only when it is 0, under the mutex; that the reset at the start of a run is no change within a run needs `Order`: targets leave `Ip_chan` in the order of the file, so the next one is never the last one again |
| `TracerouteProofs!ResultsUnmixed` | `Spec => []ResultsOfOneRun` | `OneRun`, for runs that are not disturbed: the handlers at work carry packets of the object's run (`HandledOfRun`), the object holds hops of its run (`HopsOfRun`), and who is about to fill a file has the object still at the run the file is named after (`WriterOfRun`), since `written` is not yet set; so do the files (`FilesOfRun`) |
| `TracerouteProofs!RunsAreFiled` | `Spec => NoRunDropped` | `Handed`: as long as a run is not disturbed and not finished, the object is in nobody's hands (`Unfinished`); once it is finished exactly one of sender, queue and writer has it (`OneHand`), for this run's file (`OwnFile`), until it is written and its file exists (`Written`). So a mark of the writer is never a stale one, and the guard at 489 is what keeps a finished run that is still queued; without `!params.written` TLC refutes the property (`Bug_Reusable`) |
| `TracerouteProofs!TracedAtEnd` | `Slots # {}` implies `Spec => []AllTracedAtEnd` | `Delivered`: a target read is in the channel, with a slot, in an object, or in a file (`ReadIsSomewhere`); a slot that counts as finished is idle and its last run written (`FinishedIsIdle`). All of it for targets whose runs are not disturbed; a run hands what disturbs it on to the next one of its slot, so what follows is left out as well. With no slot at all `init_is_finished` is true at once and nothing is traced |
| `RateLimitProofs!TypeCorrect` | `Spec => []TypeOK` | `TypeOK` is inductive, in parts by who keeps the variables; that ports stay in range needs that no block is longer than the range |
| `RateLimitProofs!SubCorrect` | `Spec => []SubInRange` | `PortOfBlock`: a registered port is one of the block of the test it leads to, which has left the list and keeps its block. Who deletes what and when does not matter |
| `RateLimitProofs!Conserved` | `Spec => []ResolversConserved` | `ConserveInv` adds to the property who holds `open_writer` (`WriterLock`): without it the program could end under a writer |
| `RateLimitProofs!PortsStay` | `Spec => []PortsKept` | `BlockInv`: tests are numbered by the ports given away before them, and two tests' first ports are as far apart as their numbers, modulo the range (`PortsByNumber`). Blocks meet only a whole range apart, so the last who registered a port has it until the ports have gone round (`LastRegistered`) |
| `RateLimitProofs!AnswersCounted` | `Spec => []AnswersCountedForAsker` | the same: a query leaves from the port of its subroutine (`AskedOnce`), and whoever has registered this port since came a range of ports later; the injection's queries left from the first port (`FirstPort`), which is the first of the first test's block |
| `RateLimitProofs!Barrier` | `Spec => []RatesOfOneRound` | `RoundInv`, by the stage of the sender: during a round the subroutines at work, the reports in the channel, those that go on and those that have given up make up all (`Counts`), so that what the sender waits for is reached when nobody is left |
| `RateLimitProofs!InRange` | `Spec => []IndexInRange` | the same: after the last rate all have given up (`Complete`), so no round follows |
| `FragmentsProofs!WholeOnly` | `Spec => []WholePacketsOnly` | `Own`: as long as something of an undisturbed packet is missing, its fragments that have arrived, each once and no others, are kept under its Id, and nothing was handed over. A loop over all of them finds a fragment in every round (`Completes`), and one that is through with a last fragment has all (`Completed`) |
| `FragmentsProofs!PlacesKept` | `Spec => []UnitsInPlace` | each round appends behind what is there (`RoundAppends`), and the data grow, so no two of the rounds take the same fragment; as many rounds as fragments take them all (`AllTaken`) |
| `QminProofs!Complete` | `Spec => []RowPerQuery` | `RowInv`: as long as the writer has no error, the rows stored and the goroutines at work make up the rounds begun (`Rows`), and the store is closed without an error only if there was none (`Order`) |
| `QminProofs!RowsCommute` | `combineResults` takes two rows in either order | field by field |
| `QminProofs!OrderNeverMatters` | `Spec => []OrderFree` | `RowsGood`: rows sent and stored are such as a goroutine writes. For such rows the value of `processFile` is the one function that satisfies the definition of its folds, and that is `Taken`: in each field the value on which the rows with one agree, or uncertain, which does not know of an order |
| `QminProofs!NxIsTrue` | `Spec => []NxTruly` | `NxInv`: a denial that is remembered was given to a resolver that asks for the first label alone (`DeniedTruly`); who is past this label, or comes to "b.", has been denied it (`JobsTruly`, `OwnTruly`), so one that keeps to it or remembers it does not ask for "b."; a row says what the goroutine saw (`SentTruly`) |
| `QminProofs!MeasuredIsTrue` | `Spec => []MeasuredTruly` | `MeasInv`, of everything whose id nothing disturbed: a probe's sequence spells the names the resolver asks for as far as `currTokenNum` says (`ProbesMeasured`); a query is on its way to its full name and its probe has come at least as far (`JobsMeasured`: `OnWay`, `Reached`); a name of `qminmode` is asked for by one query only (`Single`), so its first denial is what that query sees (`DeniedOnce`); a row says what was asked (`RowsMeasured`). That a sequence spells a set of names (`Spells`) gives the number of its parts, the labels it has in all (`SpellsLongest`, the fold of `stripRTypes`) and how many of the first are one label longer (`SpellsFirst`) |
| `ScanLifecycleProofs!Conserved` | `Spec => []AddressesConserved` | `GenInv`: the generator's value is congruent to the start plus so many offsets modulo a power of two, overflow or not, and an odd offset meets no value twice (`OddCancel`, `GeneratedOnce`). `PlacesInv`: the channel holds the last addresses generated, and each one before is excluded, held by one goroutine or probed |
| `ScanLifecycleProofs!AllProbed` | `Spec => []AllProbedAtEnd` | `GeneratedAll`: a generator at its end has produced every address of its network. `DrainInv`: while the generator sleeps the addresses queued or held are no more than what the limiter lets through in the seconds that remain |

Assumptions: the named `ASSUME`s on constants only: the counts are positive, ids and goroutines are
different things, nil is neither, the padding between sequence numbers is wider than the query and the
two control flags, a test has no more forwarders than there are ports, an `int` is wide enough for the products of
all networks but the largest (`ProductAssumption`). That a word twice as wide as an address is, as 64 and 32
bits are, is the lemma `DoubleWidth`. TLC evaluates all of them in its
runs. One theorem has a hypothesis of its own, `Slots # {}` of `TracedAtEnd`.

Where a recursion is in the way, be it powers of two, the generator's steps, the rounds of `transp_pkt` or the folds of `processFile`, the proofs
take the least natural number at which a statement would fail (`Least`) instead of the induction
rule, which the provers cannot instantiate.

The type invariants of `UdpScan`, `RateLimit` and `ScanLifecycle` are proved and in no run; those of `TcpScan` and `Traceroute`
are both. `QminScan` has no type invariant of its own beyond what `RowInv`, `RowsGood`, `NxInv` and `MeasInv` say.

Only model-checked: the liveness properties, since fairness and `ENABLED` are beyond the prover:
`EntriesLeave`, `EnqueuedIsTaken`, `StopEnds`, `StopEndsScan`, `TracerouteEnds`, `TestEnds` and the two
`ScanEnds`. Every invariant and every other action property of a passing run is a theorem.

## 5. Deviations and surprises

Shown by a run:

* A repeated SYN-ACK can be linked twice, and two DNS queries sent (`tcp_twice`): the check for it
  at `tcp_scanner.go:207` is made without the lock.
* An interrupted UDP scan closes `Stop_chan` twice and panics (`scan_crash`): `gen_ips_wait` at
  `udp_scanner.go:284` ignores that `gen_ips` was told to stop.

In the models as the code has them, without a property of their own:

* `Port_reuse_timeout` is to keep a start port from being used again while packets of its last run are under way, but it
  is 0 unless it is configured (`config/config.go:37` has no default, and `traceroute/config.yml.template` does not set it). Then
  line 489 of `traceroute_tcp.go` waits for `finished` and `written` only, and what is left of a run reaches the next one: a late ICMP message or DNS
  answer is recorded as a hop of the new target; a late FIN-ACK, or a handler past its test, ends the new run before it has begun; a second
  FIN-ACK queues the object twice, and the second entry may be written when the object is at the next run, whose file is then created
  early, filled with what is there, and whose `written` is set, so that it may be replaced, or the program end, without a file of its results. A timeout makes
  this rare and not impossible: a comment at 321-322 remembers SYN-ACKs of previous measurements. `ResultsOfOneRun`,
  `NoRunDropped` and `AllTracedAtEnd` speak of the runs that none of this reaches (`disturbed`).
* Late answers to the queries of `inject_cache` are counted in the first test: the queries leave from `current_port`
  (`ratelimit.go:731`, `:755`), which is the first port, and right after the last one the capture and the test that registers this port begin (`:763`,
  `:834-844`). `Handle_pkt` looks at the port only (`:697`). `AnswersCountedForAsker` says that no other test counts them before the
  ports have gone round.

* The comment at `scanner/base_scanner.go:102` speaks of items that got no response; the sweep deletes every
  entry over ten seconds old, also of a connection that answered and waits for its FIN-ACK. Its record is lost.
* The size test at `tcp_scanner.go:266-270` reads the prefix low byte first and refuses an answer
  when the sizes AGREE (`TcpWire!SizeTestRefuses`); the length prefix of the query at 107-111 has one byte.
* `send_dns` at `udp_scanner.go:150-161` replaces an entry still open under the same key; the older
  probe is then given up.
* Both the SIGINT handler and a generator may pass their tests of `Waiting_to_end` (`common/base.go:234`)
  and close `Stop_chan`, in every mode.
* A generator blocked on the full `Ip_chan` (`tcp_scanner.go:450`) never looks at `Stop_chan`. When its
  readers have returned the program hangs; `StopEndsScan` says that it is the only way to.
* Without a rate limit `Pkts_per_sec` is negative and the waiting time of `base_scanner.go:195` shrinks
  with the queue instead of growing.
* The ten seconds added to the waiting time (`base_scanner.go:195`) have to cover the addresses that the init
  goroutines hold as well. With more goroutines than `(Slack - 2) * Rate + 1`, 8 times the rate and one, or without a limit and with a queue
  of ten and more, they may not suffice: the scan may end before all addresses are probed. TLC finds such behaviours with
  a `Slack` of 2, three goroutines at rate 2 or a queue of 2 and no limit. `AllProbedAtEnd` has
  `TimeSuffices` as its premise, which the instance of `scan` satisfies.
* A CIDR network with host bits set is scanned from the address given (`common/base.go:265`).
* A finished run is sent to `write_chan` with its mutex held (`traceroute_tcp.go:336`, `:423`, `:548`),
  and the writer takes this mutex before it receives again (`:659`). When the channel is full and the run the
  writer is at is queued a second time, both wait for ever. A sender can also be left alone with the full
  channel when the writer has returned. `TracerouteEnds` says that there is no third way.
* A new parameter object is in the map before `zero()` has set its time stamps (`traceroute_tcp.go:484`,
  `:495`). `timeout` reads 0 as long ago and queues it: a file `<nil>.csv` is written, and the run that
  has begun meanwhile may be marked as written (such a run is `disturbed`).
* The single target mode of the traceroute ends ten seconds after it began (`traceroute_tcp.go:689-693`), whether
  the result is written or not; `AllTracedAtEnd` therefore speaks of files only.
* `tracert_params` is read without the mutex its writers hold (`traceroute_tcp.go:189`, `:252`, `:538`).
* The size test of DNS answers is inverted in the traceroute, too (`traceroute_tcp.go:356-360`).
* `Process_pkt` looks for a last fragment anywhere among those kept (`common/base.go:173`). When two packets share
  an Id, the data handed over may go on behind the shorter one's last fragment with fragments of the longer one, whose own
  last fragment is missing; `UnitsInPlace` says that one is in it, not that one ends it.
* A duplicated fragment keeps its packet from being handed over (`common/base.go:168`), and fragments
  of incomplete packets stay for ever.
* Subroutines that share a port block (`ratelimit.go:611-613`, `:641-651`): without a pool of their own
  the next test starts one port on, whatever the number of subroutines, and at the end only the first port is deleted. Blocks of
  tests overlap and registrations stay behind, so that answers are counted for the wrong test.
  `PortsKept` and `AnswersCountedForAsker` speak of pools and of single subroutines (`OwnBlocks`).
* Queries leave from a port modulo `Port_max - Port_min` (`ratelimit.go:436`), one less than there are; the
  query of the test at `Port_max` leaves from `Port_min`. Blocks that end behind `Port_max` are registered
  there (`:622`), where no query leaves from; their queries leave from the ports at the beginning.
  `AnswersCountedForAsker` leaves out such queries.
* A sender that comes to delete its ports late (`ratelimit.go:640-651`) takes away those of a later test,
  once the ports have gone round (`Cycled`).
* What is still in `finished_resolvers` at the end is not written; the program waits for the file
  that is being written only (`ratelimit.go:848`).
* The cache injection lets one more forwarder through than `Rate_inject_max_fwds` (`ratelimit.go:748`), and
  subroutines advance `tfwd_pool_pos` without a lock (`:462`). Both are in what the model abstracts.
* A resolver whose address begins with a `b` in hexadecimal (176 to 191) and that minimises and
  optimises is reported as one that does not: the server takes any name that begins with a small `b` for
  "b." (`dns_server.go:264`), while the comment at 259-263 means a direct query for b. only. A resolver that
  mixes case may ask for "B.", which is denied, and is reported as one that optimises. `NxTruly` leaves
  out both.
* A plain and an induction query that drew the same number share a probe (`dns_server.go:211`), as do two
  that drew the same id, and a resolver keeps the denials of an id it saw before; `MeasuredTruly` and `NxTruly`
  leave out what was measured on a probe that was deleted or that two servers or two kinds of query used
  (`Disturbed`, `Two_servers`).
* A plain name of one label is a pattern without a dot and is reported as 0 and 0 instead of 1 and 1
  (`postproc_scan_result.go:129-130`), whatever the resolver does. The proof of `PatternTruly` needs that names have
  more labels than the id, which is now its premise. It needs as well that a resolver asks for
  one label at least: no name has none.
* The collector ignores an error of the store (`scanner.go:407`). It is not lost, since the writer's error
  stays with it and `Close` reports it; that ends the program without a result. An error of
  `WriteOutputParquet` is ignored and the temporary file is deleted nevertheless.
* The pairs of resolvers are looked up without the pattern they are stored under
  (`postproc_scan_result.go:442-447`), so they are stored anew each time and their count stays 1. `scanFile` of
  the scanner replaces its first temporary store without deleting it (`scanner.go:494`, `:509`).

## 6. Not modelled

* Of the QNAME minimisation server: the configured records, the refusal of names that are not ids, "_."
  in front of a name and the address of the requester; a name is answered or refused by its text alone.
* Of the scanner: input files in batches and `metadata.json` (the argument mode has the same
  goroutines), and the DoH transport, which differs in how a query is sent.
* Of the postprocessing: the lookups of addresses in databases, the pairs of resolvers, whose rows are
  counted and not evaluated further, and reading and writing of files.
* The packet dump: a separate small program that shares no code or state with the tool.
* Command line, configuration and logging (start-up only); raw sockets and port binding (kernel
  calls); the Python evaluation, fingerprinting, scripts and notebooks (sequential programs over finished
  files).

What would come next: the packet dump's exchange of files.
