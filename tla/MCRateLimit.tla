----------------------------- MODULE MCRateLimit -----------------------------
(***************************************************************************)
(* Instance of RateLimit for model checking: one setting per behaviour.     *)
(***************************************************************************)
EXTENDS RateLimit, TLC

CONSTANTS r1, r2, r3, s1

Base == [routines |-> Senders, concurrent |-> TRUE, subroutines |-> 1, curve |-> 1,
         Port_min |-> 65533, inject |-> FALSE, ignore |-> FALSE,
         fwds |-> r1 :> 2 @@ r2 :> 1 @@ r3 :> 0]

MCConfigs == {
    \* a pool of two over two rates
    [Base EXCEPT !.curve = 2, !.fwds = r1 :> 2 @@ r2 :> 0 @@ r3 :> 0],
    \* blocks that end behind the last port
    [Base EXCEPT !.fwds = r1 :> 2 @@ r2 :> 2 @@ r3 :> 0],
    \* three tests on two ports: the third gets the port of the first, and of the injection
    [Base EXCEPT !.Port_min = 65534, !.inject = TRUE, !.fwds = r1 :> 1 @@ r2 :> 1 @@ r3 :> 1],
    \* one sender, and subroutines instead of a pool
    [Base EXCEPT !.routines = {s1}, !.concurrent = FALSE, !.subroutines = 2,
                 !.fwds = r1 :> 1 @@ r2 :> 1 @@ r3 :> 0],
    \* one subroutine each, injection before, and no threshold
    [Base EXCEPT !.concurrent = FALSE, !.curve = 2, !.inject = TRUE, !.ignore = TRUE,
                 !.fwds = r1 :> 2 @@ r2 :> 1 @@ r3 :> 0]}
=============================================================================
