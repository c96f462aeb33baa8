------------------------------ MODULE MCTcpScan ------------------------------
\* TLC instances of TcpScan.
EXTENDS TcpScan, TLC

CONSTANTS g1, g2, g3, g4, r1, r2

ThreeHandlers == {g1, g2, g3}
FourHandlers == {g1, g2, g3, g4}
OneRoutine == {r1}
TwoRoutines == {r1, r2}

\* Handlers are interchangeable, and so are the init_tcp goroutines: no
\* definition orders them or names one.
Symmetry == Permutations(Handlers) \cup Permutations(Routines)

AllBodies == {"ips", "other", "bad"}
UsableBody == {"ips"}

\* Bound: the run about races explores nothing beyond the closing of Stop_chan; the
\* run with fairness does.
NotStopped == ~stopped

\* For runs with fairness, where TLC cannot use symmetry: handlers are numbers,
\* taken in order.
NumberedHandlers == 101 .. 103
SpawnInOrder ==
    \A g \in Handlers : hpc[g] = "free" /\ hpc'[g] # "free" =>
        \A f \in Handlers : f < g => hpc[f] # "free"
=============================================================================
