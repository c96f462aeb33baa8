------------------------------- MODULE QminScan -------------------------------
(***************************************************************************)
(* The QNAME minimisation scan of one resolver, qmin/scanner: four          *)
(* goroutines query it, a collector stores their rows, and the stored rows  *)
(* become the result file.  The resolver in between asks the name server    *)
(* (QminServer), and what is in the file is analysed (QminResult).          *)
(*                                                                          *)
(* The resolver is the environment: which names it asks for on the way to a *)
(* full name, and what it makes of a denial, is its behaviour.  Queries get *)
(* lost or answered too late, ids are drawn twice, probes are deleted while *)
(* they are in use and the disk fails, so many times in all.                *)
(***************************************************************************)
EXTENDS QminServer, QminResult, FiniteSets

CONSTANTS
    Configs,    \* settings and resolvers tried
    NULL

(* depth, rounds: config; kinds: bound, the goroutines of a round; b: the   *)
(* resolver's address begins with a b in hexadecimal; behaviours: of the    *)
(* servers behind the resolver's address; faults: bound for what may go     *)
(* wrong.                                                                   *)
(* steps, induced: how many labels the resolver asks for on the way to a    *)
(* name, and to the target of an alias; type_a: it asks for A before TXT;   *)
(* strict: a denial on the way is final; nxopt: it answers from denials     *)
(* that it has seen; mixed: it mixes upper and lower case.                  *)
Behaviours == [steps : SUBSET (Nat \ {0}), induced : SUBSET (Nat \ {0}),
               type_a : BOOLEAN, strict : BOOLEAN, nxopt : BOOLEAN, mixed : BOOLEAN]

ASSUME ConfigAssumption ==
    \A c \in Configs :
        /\ {c.depth, c.rounds} \subseteq Nat \ {0} /\ c.faults \in Nat
        /\ c.kinds \subseteq Kinds /\ c.behaviours \subseteq Behaviours

VARIABLES
    Cfg, main, round,
    rpc, retried, behaviour, \* the goroutine of each kind of query
    job,                     \* its query at the resolver
    stray,                   \* queries nobody waits for any more
    denied,                  \* names the resolver knows not to exist
    out,                     \* what a goroutine sends to ch
    ch,                      \* "none", "open", "closed"
    store,                   \* rows in the temporary file
    store_err,               \* its writer has failed
    result,                  \* result.parquet: "none", "part", "complete"
    drawn, repeated,         \* ids drawn, and for whom; ids drawn again
    faults,                  \* things gone wrong
    aged                     \* the keys of probes that were deleted

routineVars == <<rpc, retried, behaviour>>
resolverVars == <<job, stray, denied>>
fileVars == <<store, store_err, result>>
idVars == <<drawn, repeated>>
vars == <<Cfg, main, round, routineVars, resolverVars, out, ch, fileVars, idVars, faults,
          aged, probes>>

Init ==
    /\ Cfg \in Configs
    /\ main = "round" /\ round = 0
    /\ rpc = [k \in Kinds |-> "off"]
    /\ retried = [k \in Kinds |-> FALSE]
    /\ behaviour = [k \in Kinds |-> NULL]
    /\ job = [k \in Kinds |-> NULL]
    /\ stray = {} /\ denied = {}
    /\ out = [k \in Kinds |-> NULL]
    /\ ch = "none"
    /\ store = <<>> /\ store_err = FALSE /\ result = "none"
    /\ drawn = {} /\ repeated = {} /\ faults = 0 /\ aged = {}
    /\ probes = <<>>

May_fail == faults < Cfg.faults

-----------------------------------------------------------------------------
(***************************************************************************)
(* scanResolvers.                                                           *)
(***************************************************************************)
Start_round ==
    /\ main = "round" /\ round < Cfg.rounds
    /\ round' = round + 1 /\ main' = "collect" /\ ch' = "open"
    /\ rpc' = [k \in Kinds |-> IF k \in Cfg.kinds THEN "ask" ELSE "off"]
    /\ retried' = [k \in Kinds |-> FALSE]
    /\ behaviour' \in {b \in [Kinds -> Cfg.behaviours \cup {NULL}] :
                       \A k \in Kinds : b[k] = NULL <=> k \notin Cfg.kinds}
    /\ job' = [k \in Kinds |-> NULL]
    /\ out' = [k \in Kinds |-> NULL]
    /\ UNCHANGED <<Cfg, stray, denied, fileVars, idVars, faults, aged, probes>>

All_done == \A k \in Cfg.kinds : rpc[k] = "done"

Close_ch ==
    /\ ch = "open" /\ All_done
    /\ ch' = "closed"
    /\ UNCHANGED <<Cfg, main, round, routineVars, resolverVars, out, fileVars, idVars,
                   faults, aged, probes>>

\* A row that is not stored is lost, and all after it: the error stays with the
\* writer, though the collector ignores it.
Bug_Failed(fails) == fails
Failed(fails) == fails \/ store_err

Collect(k) ==
    /\ main = "collect" /\ ch = "open" /\ rpc[k] = "send"
    /\ \E fails \in IF May_fail THEN BOOLEAN ELSE {FALSE} :
          /\ store' = IF Failed(fails) THEN store ELSE Append(store, out[k])
          /\ store_err' = Failed(fails)
          /\ faults' = IF fails THEN faults + 1 ELSE faults
    /\ rpc' = [rpc EXCEPT ![k] = "done"]
    /\ UNCHANGED <<Cfg, main, round, retried, behaviour, resolverVars, out, ch, result,
                   idVars, aged, probes>>

Collected ==
    /\ main = "collect" /\ ch = "closed"
    /\ main' = IF round < Cfg.rounds THEN "round" ELSE "close"
    /\ UNCHANGED <<Cfg, round, routineVars, resolverVars, out, ch, fileVars, idVars,
                   faults, aged, probes>>

\* tempDataFile.Close flushes; an error, also an earlier one, ends the program.
Close_store ==
    /\ main = "close"
    /\ \E fails \in IF May_fail THEN BOOLEAN ELSE {FALSE} :
          /\ main' = IF Failed(fails) THEN "fatal" ELSE "parquet"
          /\ faults' = IF fails THEN faults + 1 ELSE faults
    /\ UNCHANGED <<Cfg, round, routineVars, resolverVars, out, ch, fileVars, idVars, aged,
                   probes>>

\* WriteOutputParquet; its error is ignored and the temporary file deleted.
WriteOutputParquet ==
    /\ main = "parquet"
    /\ \E fails \in IF May_fail THEN BOOLEAN ELSE {FALSE} :
          /\ result' = IF fails THEN "part" ELSE "complete"
          /\ faults' = IF fails THEN faults + 1 ELSE faults
    /\ main' = "done"
    /\ UNCHANGED <<Cfg, round, routineVars, resolverVars, out, ch, store, store_err,
                   idVars, aged, probes>>

-----------------------------------------------------------------------------
(***************************************************************************)
(* dnsQueryRoutine and nxOptiRoutine.                                       *)
(***************************************************************************)
\* The number drawn is a new one, or one that was drawn before.
domainAssembly(k, nonce) ==
    [kind |-> k, nonce |-> nonce, depth |-> IF k = "nxopti" THEN 1 ELSE Cfg.depth]

Ids == {x[1] : x \in drawn}
Nonces(again) ==
    IF again THEN {id.nonce : id \in Ids} ELSE {Cardinality(drawn)}

Query_at(k, id, top) ==
    job' = [job EXCEPT ![k] = [id |-> id, top |-> top, at |-> 0, target |-> FALSE,
                               full |-> FALSE, behaviour |-> behaviour[k]]]

\* A query under a new id: each of the first kinds, and the first of nxopti.
Query_new(k) ==
    /\ rpc[k] = "ask" /\ (k # "nxopti" \/ job[k] = NULL)
    /\ \E again \in IF May_fail THEN BOOLEAN ELSE {FALSE} : \E n \in Nonces(again) :
          /\ drawn' = drawn \cup {<<domainAssembly(k, n), behaviour[k]>>}
          /\ repeated' = repeated \cup (Ids \cap {domainAssembly(k, n)})
          /\ Query_at(k, domainAssembly(k, n), "a")
          /\ faults' = IF again THEN faults + 1 ELSE faults
    /\ rpc' = [rpc EXCEPT ![k] = "wait"]
    /\ UNCHANGED <<Cfg, main, round, retried, behaviour, stray, denied, out, ch, fileVars,
                   aged, probes>>

\* nxopti stays with its id, when it asks again and when it goes on to "b.".
Query_same(k) ==
    /\ rpc[k] \in {"ask", "ask_b"} /\ k = "nxopti" /\ job[k] # NULL
    /\ Query_at(k, job[k].id, IF rpc[k] = "ask_b" THEN "b" ELSE job[k].top)
    /\ rpc' = [rpc EXCEPT ![k] = "wait"]
    /\ UNCHANGED <<Cfg, main, round, retried, behaviour, stray, denied, out, ch, fileVars,
                   idVars, faults, aged, probes>>

Row(k, res, seq, ind, nxopti) ==
    [kind |-> k, res |-> res, seq |-> seq, ind |-> ind, nxopti |-> nxopti,
     id |-> job[k].id, behaviour |-> behaviour[k]]

\* The goroutine of nxopti returns without a row when it found nothing.
Bug_Send(k, row) ==
    /\ out' = [out EXCEPT ![k] = row]
    /\ rpc' = [rpc EXCEPT ![k] = IF k = "nxopti" /\ row.nxopti = -1 THEN "off" ELSE "send"]
    /\ UNCHANGED retried
Send(k, row) ==
    /\ out' = [out EXCEPT ![k] = row]
    /\ rpc' = [rpc EXCEPT ![k] = "send"]
    /\ UNCHANGED retried

\* What a goroutine does with the outcome of a query: "a." must be denied before
\* "b." is asked for.
Outcome(k, res, seq, ind) ==
    IF k # "nxopti" \/ (job[k].top = "a" /\ res # "nxdomain")
    THEN Send(k, Row(k, res, seq, ind, -1))
    ELSE IF job[k].top = "a"
    THEN /\ rpc' = [rpc EXCEPT ![k] = "ask_b"]
         /\ retried' = [retried EXCEPT ![k] = FALSE]
         /\ UNCHANGED out
    ELSE CASE res = "nxdomain" -> Send(k, Row(k, res, seq, ind, 1))
           [] res \in {"false", "ok"} -> Send(k, Row(k, res, seq, ind, 0))
           [] OTHER -> Send(k, Row(k, "nxdomain", <<>>, <<>>, -1))

\* A query that times out is asked once more; the resolver may go on with it.
Timeout(k) ==
    /\ rpc[k] = "wait" /\ May_fail
    /\ IF retried[k]
       THEN Outcome(k, "timeout", <<>>, <<>>)
       ELSE /\ rpc' = [rpc EXCEPT ![k] = "ask"]
            /\ retried' = [retried EXCEPT ![k] = TRUE]
            /\ UNCHANGED out
    /\ stray' = stray \cup {job[k]}
    /\ faults' = faults + 1
    /\ UNCHANGED <<Cfg, main, round, behaviour, job, denied, ch, fileVars, idVars, aged,
                   probes>>

-----------------------------------------------------------------------------
(***************************************************************************)
(* The resolver.                                                            *)
(***************************************************************************)
Labels(j) == IF j.id.kind = "nxopti" THEN 2 ELSE j.id.depth
Steps(j) ==
    {n \in IF j.target THEN j.behaviour.induced ELSE j.behaviour.steps : n < Labels(j)}
Left(j) == IF j.full THEN {} ELSE {n \in Steps(j) : n > j.at}

\* What is asked for next; b: the name begins with a small b.
Next_query(j) ==
    IF Left(j) # {}
    THEN LET n == CHOOSE n \in Left(j) : \A m \in Left(j) : n <= m IN
         [id |-> j.id, labels |-> n, type |-> "NS",
          b |-> n = 1 /\ Cfg.b /\ ~j.behaviour.mixed]
    ELSE [id |-> j.id, labels |-> Labels(j),
          type |-> IF j.behaviour.type_a /\ Steps(j) # {} /\ j.at < Labels(j)
                   THEN "A" ELSE "TXT",
          b |-> j.top = "b" /\ ~j.behaviour.mixed]

Is_full(j, q) == q.labels = Labels(j)
Is_final(j, q) == Is_full(j, q) /\ q.type = "TXT"
Known_denied(j) ==
    j.behaviour.nxopt /\ j.at = 0 /\ \E d \in denied : d[1] = j.id /\ d[2] < Labels(j)

\* The query ends with an answer to the last name, or with a denial.
Ends(j, q, r) ==
    \/ r.is = "txt"
    \/ r.is = "nxdomain" /\ (Is_full(j, q) \/ j.behaviour.strict)
    \/ Is_final(j, q) /\ r.is \in {"nodata", "ns", "false"}
Ending(r) ==
    CASE r.is = "txt" -> "ok"
      [] r.is \in {"nodata", "ns"} -> "none"
      [] OTHER -> r.is

\* Or goes on: to the target of an alias, to the full name, or to the next.
Goes_on(j, q, r) ==
    CASE r.is = "cname" ->
             [j EXCEPT !.id.kind = "plain", !.target = TRUE, !.at = 0, !.full = FALSE]
      [] r.is = "nxdomain" -> [j EXCEPT !.at = q.labels, !.full = TRUE]
      [] OTHER -> [j EXCEPT !.at = q.labels]

Denied(j, q, r) ==
    IF r.is = "nxdomain" /\ ~Is_full(j, q) THEN denied \cup {<<j.id, q.labels>>} ELSE denied

\* A request to the name server and its answer, for the query of a goroutine.
Resolve(k) ==
    /\ rpc[k] = "wait" /\ ~Known_denied(job[k])
    /\ LET j == job[k]
           q == Next_query(j)
           r == Reply(q)
       IN  /\ requestResponse(q)
           /\ denied' = Denied(j, q, r)
           /\ IF Ends(j, q, r)
              THEN Outcome(k, Ending(r), r.seq, r.ind) /\ UNCHANGED job
              ELSE /\ job' = [job EXCEPT ![k] = Goes_on(j, q, r)]
                   /\ UNCHANGED <<rpc, retried, out>>
    /\ UNCHANGED <<Cfg, main, round, behaviour, stray, ch, fileVars, idVars, faults, aged>>

\* Answered without a request.
Resolve_denied(k) ==
    /\ rpc[k] = "wait" /\ Known_denied(job[k])
    /\ Outcome(k, "nxdomain", <<>>, <<>>)
    /\ UNCHANGED <<Cfg, main, round, behaviour, resolverVars, ch, fileVars, idVars, faults,
                   aged, probes>>

\* The resolver goes on with a query that nobody waits for.
Resolve_stray(j) ==
    /\ j \in stray /\ ~Known_denied(j)
    /\ LET q == Next_query(j)
           r == Reply(q)
       IN  /\ requestResponse(q)
           /\ denied' = Denied(j, q, r)
           /\ stray' = IF Ends(j, q, r) THEN stray \ {j}
                       ELSE (stray \ {j}) \cup {Goes_on(j, q, r)}
    /\ UNCHANGED <<Cfg, main, round, routineVars, job, out, ch, fileVars, idVars, faults,
                   aged>>

Age ==
    /\ May_fail
    /\ \E old \in SUBSET DOMAIN probes \ {{}} :
          cleanProbes(old) /\ aged' = aged \cup old
    /\ faults' = faults + 1
    /\ UNCHANGED <<Cfg, main, round, routineVars, resolverVars, out, ch, fileVars, idVars>>

-----------------------------------------------------------------------------
scanResolvers ==
    Start_round \/ Close_ch \/ Collected \/ \E k \in Kinds : Collect(k)
Start_scan == scanResolvers \/ Close_store \/ WriteOutputParquet
Query(k) == Query_new(k) \/ Query_same(k)
Answer(k) == Resolve(k) \/ Resolve_denied(k)

Next ==
    \/ Start_scan
    \/ \E k \in Kinds : Query(k) \/ Answer(k) \/ Timeout(k)
    \/ \E j \in stray : Resolve_stray(j)
    \/ Age

\* The program and the resolver go on: a query is answered or, at the latest by
\* the client's own timeout, over.  They can only go on so many times in all.
Spec ==
    /\ Init /\ [][Next]_vars
    /\ WF_vars(Start_scan \/ \E k \in Kinds : Query(k) \/ Answer(k))

-----------------------------------------------------------------------------
(***************************************************************************)
(* Properties.                                                              *)
(***************************************************************************)
Sent(k) == rpc[k] \in {"send", "done"}

\* An id with this number was drawn again when another server answered.
Two_servers(id) ==
    \E x, y \in drawn : x[1] = y[1] /\ x[1].nonce = id.nonce /\ x[2] # y[2]

\* Two servers used one probe; a probe was deleted while it was used; the alias of an induction query leads to
\* a name of a plain one, because the same number was drawn for both; or a name
\* whose denial the resolver remembers is asked for again.
Disturbed(id) ==
    \/ Two_servers(id)
    \/ id.kind = "qminmode" /\ id \in repeated
    \/ \E key \in aged : key.nonce = id.nonce
    \/ {"plain", "induction"} \subseteq {i.kind : i \in {x \in Ids : x.nonce = id.nonce}}

Way(steps) == {n \in steps : n < Cfg.depth}

\* Minimisation, minimisation after an alias, and what follows a denial.
BehaviourTruly ==
    \A k \in Kinds : Sent(k) /\ ~Disturbed(out[k].id) =>
        LET r == evalRow(out[k])
            b == behaviour[k]
        IN  /\ r.qmin \in {Nil, Truth(Way(b.steps) # {})}
            /\ r.induction \in {Nil, Truth(Way(b.induced) # {})}
            /\ r.mode \in {"", IF b.strict THEN "strict" ELSE "relaxed"}
            /\ r.mode # "" => Way(b.steps) # {}

\* The numbers of RFC 9156 that are read from the pattern: how many names the
\* resolver asks for, and how many of the first are one label longer than the last.
\* A name of one label alone is reported as 0 and 0 (postproc_scan_result.go 129).
Asked(b) == Way(b.steps) \cup {Cfg.depth}
Twice(b) == IF b.type_a /\ Way(b.steps) # {} THEN 1 ELSE 0
PatternTruly ==
    Sent("plain") /\ out["plain"].res = "ok" /\ ~Disturbed(out["plain"].id)
    /\ Cfg.depth > 1 =>
        LET b == behaviour["plain"]
            singles == {n \in 1 .. Cfg.depth : 1 .. n \subseteq Asked(b)}
        IN  /\ Maximum(out["plain"].seq) = Cardinality(Asked(b)) + Twice(b)
            /\ Minimum(out["plain"].seq) =
                  IF Way(b.steps) = {} THEN 1
                  ELSE Cardinality(singles) + IF Cfg.depth \in singles THEN Twice(b) ELSE 0

\* What the analysis says of a resolver is true: server, scanner and evaluation
\* (dns_server.go 184-313, scanner.go 302-365, postproc_scan_result.go 117-175 and
\* 218-302) agree from end to end, whatever is lost, late and repeated.
MeasuredTruly == BehaviourTruly /\ PatternTruly

\* A resolver that minimises and keeps to a denial on the way, or remembers it,
\* never asks for "b." (320-365, dns_server.go 258-275); probes do not matter.
\* Not when the id is another server's as well, or when it mixes case, or its address begins with a b: the server looks at
\* the first character of the name as it came (264), which may be the id's.
Optimises(b) == 1 \in b.steps /\ (b.strict \/ b.nxopt)
NxTruly ==
    \A k \in Kinds : Sent(k) /\ ~behaviour[k].mixed /\ ~Cfg.b /\ ~Two_servers(out[k].id) =>
        evalRow(out[k]).nx \in {Nil, Truth(Optimises(behaviour[k]))}

\* A result file that was written to its end has a row for each query of each
\* round, though the collector (407) looks at no error: the writer's error stays,
\* and Close reports it.
RowPerQuery ==
    result = "complete" =>
        /\ \A k \in Cfg.kinds :
              Cardinality({n \in DOMAIN store : store[n].kind = k}) = Cfg.rounds
        /\ Len(store) = Cfg.rounds * Cardinality(Cfg.kinds)

\* The order in which rows arrive at ch does not matter to their combination
\* (306-363): the result is what the rows say taken together.
Seen(field) == {evalRow(store[n])[field] : n \in DOMAIN store}
Together(seen, none, both) ==
    IF seen \subseteq {none} THEN none
    ELSE IF Cardinality(seen \ {none}) = 1 THEN CHOOSE v \in seen : v # none ELSE both
OrderFree ==
    store # <<>> =>
        LET r == processFile(store) IN
        /\ r.qmin = Together(Seen("qmin"), Nil, Uncertain)
        /\ r.induction = Together(Seen("induction"), Nil, Uncertain)
        /\ r.nx = Together(Seen("nx"), Nil, Uncertain)
        /\ r.mode = Together(Seen("mode"), "", "both")
        /\ r.count = Len(store)

\* The scan comes to an end, with a result or with a message.
ScanEnds == <>(main \in {"done", "fatal"})
=============================================================================
