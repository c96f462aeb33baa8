------------------------------ MODULE QminServer ------------------------------
(***************************************************************************)
(* The name server of the QNAME minimisation scan: the probes it keeps and  *)
(* its answers, qmin/dns_server/dns_server.go.                              *)
(*                                                                          *)
(* A probe is found by the id label of its names and collects which names   *)
(* were asked for: a part for each name that is longer than those before,   *)
(* the latest first.  A name is its id and its number of labels below the   *)
(* base domain, the id label being the first of them.                       *)
(***************************************************************************)
EXTENDS Naturals, Sequences, SequencesExt

VARIABLE probes

\* The kind is the suffix of the id label; "" is the plain one.
Kinds == {"plain", "induction", "qminmode", "nxopti"}

\* A part of the sequence: the number its first label spells, how many labels it
\* adds, and the type that was asked for.
Part(stage, labels, type) == [stage |-> stage, labels |-> labels, type |-> type]

\* stripRTypes: as many labels as the longest name has.
stripRTypes(seq) == FoldLeft(LAMBDA n, part : n + part.labels, 0, seq)

\* A longer name adds what it has more; the same name asked for as TXT is added
\* once if it was not asked for as TXT last, as one label.
More(seq, q) ==
    <<Part(q.labels - 1, q.labels - stripRTypes(seq), q.type)>>
Again(seq, q) ==
    stripRTypes(seq) = q.labels /\ q.type = "TXT" /\ Head(seq).type # "TXT"

updateProbeEntry(tokenLength, seq, q) ==
    IF stripRTypes(seq) < q.labels THEN More(seq, q) \o seq
    ELSE IF Again(seq, q) THEN <<Part(tokenLength - 1, 1, "TXT")>> \o seq
    ELSE seq

\* The induction probe that a plain name continues: its CNAME led here.
Induction(id) == [id EXCEPT !.kind = "induction"]
\* The target of the alias starts a probe of its own.
Bug_Key(id) == id
Key(id) ==
    IF id \notin DOMAIN probes /\ id.kind = "plain" /\ Induction(id) \in DOMAIN probes
    THEN Induction(id) ELSE id

\* The probe after a request, which is stored and which the answer is made from.
Probe(q) ==
    LET key == Key(q.id) IN
    IF key \notin DOMAIN probes
    THEN [tokenLength |-> q.id.depth, currTokenNum |-> q.labels,
          tokenSequence |-> <<Part(q.labels - 1, q.labels, q.type)>>,
          induction |-> q.id.kind = "induction",
          inductionSequence |-> <<>>, inductionTokenNum |-> 0]
    ELSE LET p == probes[key] IN
    IF key = q.id
    THEN [p EXCEPT !.tokenSequence = updateProbeEntry(p.tokenLength, @, q),
                   !.currTokenNum = IF stripRTypes(p.tokenSequence) < q.labels
                                    THEN q.labels ELSE @]
    ELSE [p EXCEPT !.inductionSequence = updateProbeEntry(p.tokenLength, @, q),
                   !.inductionTokenNum = IF stripRTypes(p.inductionSequence) < q.labels
                                         THEN q.labels ELSE @]

\* For nxopti everything is denied but what begins with a b.
Bug_Nx_rcode(q) == "nxdomain"
Nx_rcode(q) == IF q.b THEN "false" ELSE "nxdomain"

Simple(rcode) == [is |-> rcode, seq |-> <<>>, ind |-> <<>>]

\* A complete probe is reported; the last name of an induction probe is an alias;
\* a name on the way is delegated, or denied where that is what is tested.
Reply(q) ==
    LET p == Probe(q) IN
    IF p.induction /\ p.inductionTokenNum = p.tokenLength /\ q.type = "TXT"
    THEN [is |-> "txt", seq |-> p.tokenSequence, ind |-> p.inductionSequence]
    ELSE IF q.id.kind = "nxopti"
    THEN Simple(Nx_rcode(q))
    ELSE IF p.currTokenNum = p.tokenLength
    THEN IF q.id.kind = "induction" THEN Simple("cname")
         ELSE IF q.type = "TXT" THEN [is |-> "txt", seq |-> p.tokenSequence, ind |-> <<>>]
         ELSE Simple("nodata")
    ELSE Simple(IF q.id.kind = "qminmode" THEN "nxdomain" ELSE "ns")

\* The probe is stored under probesMutex; the answer is made from a copy of it.
requestResponse(q) ==
    probes' = [key \in DOMAIN probes \cup {Key(q.id)} |->
                  IF key = Key(q.id) THEN Probe(q) ELSE probes[key]]

\* Probes not seen for a while; which these are is open.
cleanProbes(old) == probes' = [key \in DOMAIN probes \ old |-> probes[key]]
=============================================================================
