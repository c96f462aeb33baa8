--------------------------- MODULE MCScanLifecycle ---------------------------
\* TLC instances of ScanLifecycle.
EXTENDS ScanLifecycle

CONSTANTS r1, r2

\* The addresses of the network 0.0.0.0/0, out of order.
FourLines == <<3, 1, 2, 0>>
=============================================================================
