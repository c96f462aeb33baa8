----------------------------- MODULE ProbeRecord -----------------------------
(***************************************************************************)
(* What the UDP scanner promises about its result file, without the map,    *)
(* the keys, the goroutines and the channel that bring it about: a probe is *)
(* open once its query is registered, is answered at most once, while it is *)
(* open, and an answered probe gets one row.  An open probe may be given up *)
(* (swept, or its key taken by a later probe); an answered one may not.     *)
(***************************************************************************)
EXTENDS Naturals, Sequences

CONSTANT MaxProbes \* bound: the probes are 1 .. MaxProbes

Probes == 1 .. MaxProbes

VARIABLES status, \* of every probe
          file    \* the rows, each the probe it is about

Stages == {"idle", "open", "lost", "answered", "recorded"}

Init == status = [p \in Probes |-> "idle"] /\ file = <<>>

\* The probes S keep their stage, or are given up while they are open.
Waits(S) == \A q \in S : \/ status'[q] = status[q]
                         \/ status[q] = "open" /\ status'[q] = "lost"

\* A query is registered; other probes may lose their place to it.
Open(p) ==
    /\ status[p] = "idle" /\ status'[p] = "open"
    /\ Waits(Probes \ {p})
    /\ UNCHANGED file

GiveUp == Waits(Probes) /\ UNCHANGED file

Answer(p) ==
    /\ status[p] = "open"
    /\ status' = [status EXCEPT ![p] = "answered"]
    /\ UNCHANGED file

Record(p) ==
    /\ status[p] = "answered"
    /\ status' = [status EXCEPT ![p] = "recorded"]
    /\ file' = Append(file, p)

Next ==
    /\ status' \in [Probes -> Stages]
    /\ \/ \E p \in Probes : Open(p) \/ Answer(p) \/ Record(p)
       \/ GiveUp

Spec == Init /\ [][Next]_<<status, file>>
=============================================================================
