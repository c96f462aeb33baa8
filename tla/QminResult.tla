------------------------------ MODULE QminResult ------------------------------
(***************************************************************************)
(* The analysis of a scan's rows: postprocessing/qmin/                      *)
(* postproc_scan_result.go.  A row is evaluated by itself, and the results  *)
(* of one resolver are combined one after the other.                        *)
(***************************************************************************)
EXTENDS Integers, Sequences, SequencesExt

\* TriBool: -1 is not known, 0 and 1 false and true, 2 both were seen.
Nil == -1
Uncertain == 2
TriBool == -1 .. 2
Modes == {"", "strict", "relaxed", "both"}
Errors == {"timeout", "none", "nxdomain", "false"}

\* More than one name was asked for: the response contains a "|".
Several(seq) == Len(seq) > 1

\* How many names were asked for, and how many of the first added one label.
Alone(seq) == IF Head(seq).labels = 1 THEN 0 ELSE 1
Maximum(seq) == IF Several(seq) THEN Len(seq) ELSE Alone(seq)
Minimum(seq) ==
    IF ~Several(seq) THEN Alone(seq)
    ELSE Cardinality({m \in 1 .. Len(seq) :
                         \A k \in 0 .. m - 1 : seq[Len(seq) - k].labels = 1})

Unknown == [qmin |-> Nil, induction |-> Nil, mode |-> "", nx |-> Nil,
            errors |-> [e \in Errors |-> 0], count |-> 1]

Truth(b) == IF b THEN 1 ELSE 0

\* A row without a requesting address carries an error or a denial.
evalRow(row) ==
    IF row.res # "ok"
    THEN IF row.kind = "qminmode" /\ row.res = "nxdomain"
         THEN [Unknown EXCEPT !.mode = "strict"]
         ELSE IF row.kind = "nxopti" THEN [Unknown EXCEPT !.nx = row.nxopti]
         ELSE [Unknown EXCEPT !.errors[row.res] = 1]
    ELSE CASE row.kind = "qminmode" ->
                 [Unknown EXCEPT !.mode = IF Several(row.seq) THEN "relaxed" ELSE ""]
           [] row.kind = "nxopti" -> [Unknown EXCEPT !.nx = row.nxopti]
           [] row.kind = "induction" ->
                 [Unknown EXCEPT !.induction = Truth(Several(row.ind))]
           [] row.kind = "plain" -> [Unknown EXCEPT !.qmin = Truth(Several(row.seq))]

\* The later observation wins.
Bug_Merge(a, b) == IF b = Nil THEN a ELSE b
Merge(a, b) == IF a = Nil THEN b ELSE IF b = Nil \/ a = b THEN a ELSE Uncertain
Merge_mode(a, b) == IF a = "" THEN b ELSE IF b = "" \/ a = b THEN a ELSE "both"

combineResults(r1, r2) ==
    [qmin |-> Merge(r1.qmin, r2.qmin), induction |-> Merge(r1.induction, r2.induction),
     mode |-> Merge_mode(r1.mode, r2.mode), nx |-> Merge(r1.nx, r2.nx),
     errors |-> [e \in Errors |-> r1.errors[e] + r2.errors[e]],
     count |-> r1.count + 1]

\* The rows of one resolver, in the order of the file.
processFile(rows) ==
    FoldLeft(LAMBDA r, row : combineResults(r, evalRow(row)),
             evalRow(Head(rows)), Tail(rows))
=============================================================================
