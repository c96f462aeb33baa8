-------------------------------- MODULE MCQmin --------------------------------
(***************************************************************************)
(* Instance of QminScan for model checking: resolvers that differ in one    *)
(* respect or two, and as many faults as the size allows.                   *)
(***************************************************************************)
EXTENDS QminScan

Full == [steps |-> {}, induced |-> {}, type_a |-> FALSE, strict |-> FALSE,
         nxopt |-> FALSE, mixed |-> FALSE]
Strict == [Full EXCEPT !.steps = {1}, !.strict = TRUE]
Relaxed == [Full EXCEPT !.steps = {1}, !.induced = {1}]
Optimising == [Relaxed EXCEPT !.nxopt = TRUE]
Skipping == [Full EXCEPT !.steps = {1}, !.induced = {2}, !.type_a = TRUE]
Mixing == [Full EXCEPT !.mixed = TRUE]
Remembering == [Full EXCEPT !.nxopt = TRUE]

Base == [depth |-> 2, rounds |-> 1, kinds |-> Kinds, faults |-> 0, b |-> FALSE,
         behaviours |-> {Full}]

MCConfigs == {
    \* all four goroutines
    Base,
    [Base EXCEPT !.behaviours = {Optimising}],
    \* two that share probes, two faults
    [Base EXCEPT !.kinds = {"plain", "induction"}, !.faults = 1,
                 !.behaviours = {Strict}],
    [Base EXCEPT !.kinds = {"plain", "induction"}, !.faults = 2,
                 !.behaviours = {Relaxed}],
    [Base EXCEPT !.kinds = {"plain", "induction"}, !.faults = 1, !.depth = 3,
                 !.behaviours = {Skipping}],
    \* denials, and two faults
    [Base EXCEPT !.kinds = {"qminmode", "nxopti"}, !.faults = 2,
                 !.behaviours = {Full}],
    [Base EXCEPT !.kinds = {"qminmode", "nxopti"}, !.faults = 2,
                 !.behaviours = {Strict}],
    [Base EXCEPT !.kinds = {"qminmode", "nxopti"}, !.faults = 2,
                 !.behaviours = {Optimising}],
    [Base EXCEPT !.kinds = {"nxopti"}, !.b = TRUE, !.behaviours = {Optimising, Mixing}],
    \* two rounds, answered by different servers, also under one id
    [Base EXCEPT !.kinds = {"nxopti"}, !.rounds = 2, !.faults = 2,
                 !.behaviours = {Optimising, Remembering}],
    [Base EXCEPT !.kinds = {"plain"}, !.rounds = 2, !.faults = 2,
                 !.behaviours = {Full, Relaxed}],
    [Base EXCEPT !.kinds = {"induction"}, !.rounds = 2, !.faults = 1,
                 !.behaviours = {Relaxed, Skipping}],
    [Base EXCEPT !.kinds = {"qminmode"}, !.rounds = 2, !.faults = 1,
                 !.behaviours = {Relaxed, Strict}],
    [Base EXCEPT !.kinds = {"plain", "qminmode"}, !.rounds = 2,
                 !.behaviours = {Full, Relaxed, Strict}],
    [Base EXCEPT !.kinds = {"induction", "nxopti"}, !.rounds = 2,
                 !.behaviours = {Relaxed, Strict}]}
=============================================================================
