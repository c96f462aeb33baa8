----------------------------- MODULE MCTraceroute -----------------------------
\* TLC instances of Traceroute.
EXTENDS Traceroute, TLC

CONSTANTS s1, s2, g1, g2

\* Handlers are interchangeable: no definition orders them or names one.
HandlerSymmetry == Permutations(Handlers)

\* Bound: what follows the closing of Stop_chan is explored by the run with fairness.
NotStopped == ~stopped

\* Bound: a behaviour is not followed once every run is disturbed.
SomeUndisturbed == Targets \ disturbed # {}

\* Bound: two packets at a time only until the first run is finished.
MeetInFirstRun ==
    \A g, h \in Handlers : g # h /\ hpc[g] # "free" /\ hpc[h] # "free"
                             => Of(g).ip = 1 /\ Of(g).fin = "unset"

\* Bound: of what is left of an earlier run no hops are recorded.
NoStrayHops == \A g \in Handlers : hpc[g] = "hop" => hpkt[g].run = Of(g).ip

\* Bound: the second slot never gets a target.
SecondUnused == param[s2] = NULL
===============================================================================
