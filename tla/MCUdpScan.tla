------------------------------ MODULE MCUdpScan ------------------------------
\* TLC instances of UdpScan.
EXTENDS UdpScan, TLC

CONSTANTS g1, g2

\* Handlers are interchangeable: no definition orders them or names one.
HandlerSymmetry == Permutations(Handlers)

\* Bound: the end of the scan is explored only while at most this many probes were
\* taken; keys are used again from the fifth on.
StopEarly == stopped => ip_loop_id.id <= 2
=============================================================================
