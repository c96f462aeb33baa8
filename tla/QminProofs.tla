------------------------------ MODULE QminProofs ------------------------------
(***************************************************************************)
(* A complete result of the QNAME minimisation scan has a row for each      *)
(* query of each round, the order of the rows does not matter, and what     *)
(* they say of a resolver's minimisation and of its handling of denials is  *)
(* true, for every choice of queries, number of labels and of rounds,       *)
(* behaviour of the servers and number of faults.                           *)
(*                                                                          *)
(* The rows stored and the goroutines still at work make up the rounds      *)
(* begun, as long as the writer has no error; once it has, Close sees it.   *)
(* What processFile folds out of rows has a closed form, found by taking    *)
(* the least number of rows at which the two would differ.  What is         *)
(* measured is true because a probe's sequence spells the names the         *)
(* resolver asks for, as far as the farthest query on it has come.          *)
(***************************************************************************)
EXTENDS QminScan, FiniteSetTheorems, SequenceTheorems, TLAPS

Stages == {"off", "ask", "ask_b", "wait", "send", "done"}

\* The goroutines of the round that are at work.
AtWork == {k \in Cfg.kinds : rpc[k] \notin {"off", "done"}}

Types ==
    /\ Cfg \in Configs /\ round \in 0 .. Cfg.rounds
    /\ rpc \in [Kinds -> Stages] /\ DOMAIN out = Kinds
    /\ store_err \in BOOLEAN
    /\ \E S : store \in Seq(S)
    /\ \A k \in Kinds : rpc[k] # "off" => k \in Cfg.kinds
    /\ \A k \in Kinds : rpc[k] = "send" => out[k].kind = k

\* A round is over when nobody is at work, and the last before the store is closed;
\* a result is complete only if the store had no error.
Order ==
    /\ main # "collect" => AtWork = {}
    /\ main = "collect" /\ ch = "closed" => AtWork = {}
    /\ main \in {"close", "parquet", "done"} => round = Cfg.rounds
    /\ main \in {"parquet", "done"} => ~store_err
    /\ result = "complete" => main = "done"

\* The rows of a query, and the rounds it is through with.
Stored(k) == {n \in DOMAIN store : store[n].kind = k}
Rounds(k) == IF k \in AtWork THEN round - 1 ELSE round

Rows ==
    ~store_err =>
        /\ \A k \in Cfg.kinds : Cardinality(Stored(k)) = Rounds(k)
        /\ Len(store) + Cardinality(AtWork) = round * Cardinality(Cfg.kinds)

RowInv == Types /\ Order /\ Rows

-----------------------------------------------------------------------------
\* What the environment and the goroutines leave alone.
fileState == <<Cfg, main, round, ch, store, store_err, result>>

LEMMA FewKinds ==
    ASSUME Cfg \in Configs
    PROVE  /\ Cfg.kinds \subseteq Kinds /\ IsFiniteSet(Cfg.kinds)
           /\ Cardinality(Cfg.kinds) \in Nat /\ Cfg.rounds \in Nat
<1>1. Cfg.kinds \subseteq Kinds /\ Cfg.rounds \in Nat
  BY ConfigAssumption
<1>2. IsFiniteSet({"plain", "induction", "qminmode", "nxopti"})
  <2>1. IsFiniteSet({"plain"} \cup {"induction"})
    BY FS_Singleton, FS_Union
  <2>2. IsFiniteSet({"qminmode"} \cup {"nxopti"})
    BY FS_Singleton, FS_Union
  <2>3. IsFiniteSet(({"plain"} \cup {"induction"}) \cup ({"qminmode"} \cup {"nxopti"}))
    BY <2>1, <2>2, FS_Union
  <2>4. ({"plain"} \cup {"induction"}) \cup ({"qminmode"} \cup {"nxopti"})
          = {"plain", "induction", "qminmode", "nxopti"}
    OBVIOUS
  <2> QED
    BY <2>3, <2>4
<1>3. IsFiniteSet(Cfg.kinds)
  BY <1>1, <1>2, FS_Subset DEF Kinds
<1> QED
  BY <1>1, <1>3, FS_CardinalityType

\* A goroutine that has the outcome of a query goes on, or sends a row of its own.
LEMMA OutcomeStep ==
    ASSUME NEW k \in Kinds, NEW res, NEW seq, NEW ind, Outcome(k, res, seq, ind)
    PROVE  \/ rpc' = [rpc EXCEPT ![k] = "ask_b"] /\ out' = out
           \/ /\ rpc' = [rpc EXCEPT ![k] = "send"]
              /\ \E row : row.kind = k /\ out' = [out EXCEPT ![k] = row]
<1> DEFINE row1 == Row(k, res, seq, ind, -1)
           row2 == Row(k, res, seq, ind, 1)
           row3 == Row(k, res, seq, ind, 0)
           row4 == Row(k, "nxdomain", <<>>, <<>>, -1)
<1>1. row1.kind = k /\ row2.kind = k /\ row3.kind = k /\ row4.kind = k
  BY DEF Row
<1> HIDE DEF row1, row2, row3, row4
<1>2. \/ rpc' = [rpc EXCEPT ![k] = "ask_b"] /\ out' = out
      \/ \E row \in {row1, row2, row3, row4} : Send(k, row)
  BY DEF Outcome, row1, row2, row3, row4
<1>3. ASSUME NEW row \in {row1, row2, row3, row4}, Send(k, row)
      PROVE  /\ rpc' = [rpc EXCEPT ![k] = "send"]
             /\ \E r : r.kind = k /\ out' = [out EXCEPT ![k] = r]
  BY <1>1, <1>3 DEF Send
<1> QED
  BY <1>2, <1>3

\* A step of a goroutine, or of the resolver for it: it stays at work.
Moves(k) ==
    /\ rpc[k] \in {"ask", "ask_b", "wait"}
    /\ \/ rpc' = rpc /\ out' = out
       \/ rpc' = [rpc EXCEPT ![k] = "wait"] /\ out' = out
       \/ rpc' = [rpc EXCEPT ![k] = "ask"] /\ out' = out
       \/ rpc' = [rpc EXCEPT ![k] = "ask_b"] /\ out' = out
       \/ /\ rpc' = [rpc EXCEPT ![k] = "send"]
          /\ \E row : row.kind = k /\ out' = [out EXCEPT ![k] = row]
    /\ UNCHANGED fileState

LEMMA QueryMoves ==
    ASSUME NEW k \in Kinds, Query(k) \/ Answer(k) \/ Timeout(k)
    PROVE  Moves(k)
<1>1. CASE Query_new(k)
  BY <1>1 DEF Query_new, Moves, fileState, fileVars
<1>2. CASE Query_same(k)
  BY <1>2 DEF Query_same, Moves, fileState, fileVars
<1>3. CASE Resolve(k)
  <2>1. rpc[k] = "wait" /\ UNCHANGED fileState
    BY <1>3 DEF Resolve, fileState, fileVars
  <2>2. \/ rpc' = rpc /\ out' = out
        \/ \E res, seq, ind : Outcome(k, res, seq, ind)
    BY <1>3 DEF Resolve
  <2> QED
    BY <2>1, <2>2, OutcomeStep DEF Moves
<1>4. CASE Resolve_denied(k)
  <2>1. rpc[k] = "wait" /\ UNCHANGED fileState /\ Outcome(k, "nxdomain", <<>>, <<>>)
    BY <1>4 DEF Resolve_denied, fileState, fileVars
  <2> QED
    BY <2>1, OutcomeStep DEF Moves
<1>5. CASE Timeout(k)
  <2>1. rpc[k] = "wait" /\ UNCHANGED fileState
    BY <1>5 DEF Timeout, fileState, fileVars
  <2>2. \/ rpc' = [rpc EXCEPT ![k] = "ask"] /\ out' = out
        \/ Outcome(k, "timeout", <<>>, <<>>)
    BY <1>5 DEF Timeout
  <2> QED
    BY <2>1, <2>2, OutcomeStep DEF Moves
<1> QED
  BY <1>1, <1>2, <1>3, <1>4, <1>5 DEF Query, Answer

LEMMA MovesKeep ==
    ASSUME RowInv, NEW k \in Kinds, Moves(k)
    PROVE  RowInv'
<1>1. k \in Cfg.kinds /\ k \in AtWork
  BY DEF RowInv, Types, Moves, AtWork
<1>2. UNCHANGED fileState
  BY DEF Moves
<1>3. rpc' \in [Kinds -> Stages] /\ DOMAIN out' = Kinds
  BY DEF RowInv, Types, Moves, Stages
<1>4. /\ \A j \in Kinds : j # k => rpc'[j] = rpc[j] /\ out'[j] = out[j]
      /\ rpc'[k] \in {"wait", "ask", "ask_b", "send"}
      /\ rpc'[k] = "send" => out'[k].kind = k
  BY DEF RowInv, Types, Moves, Stages
<1>5. AtWork' = AtWork
  BY <1>1, <1>2, <1>4, FewKinds DEF AtWork, fileState, RowInv, Types
<1>6. Types'
  BY <1>1, <1>2, <1>3, <1>4 DEF RowInv, Types, fileState
<1>7. Order'
  BY <1>2, <1>5 DEF RowInv, Order, fileState
<1>8. Rows'
  BY <1>2, <1>5 DEF RowInv, Rows, Stored, Rounds, fileState
<1> QED
  BY <1>6, <1>7, <1>8 DEF RowInv

-----------------------------------------------------------------------------
\* A round begins with all its goroutines at work.
LEMMA StartKeeps == ASSUME RowInv, Start_round PROVE RowInv'
<1>1. /\ Cfg' = Cfg /\ store' = store /\ store_err' = store_err /\ result' = result
      /\ main = "round" /\ main' = "collect" /\ round' = round + 1 /\ ch' = "open"
      /\ round < Cfg.rounds
      /\ rpc' = [k \in Kinds |-> IF k \in Cfg.kinds THEN "ask" ELSE "off"]
      /\ out' = [k \in Kinds |-> NULL]
  BY DEF Start_round, fileVars
<1>2. /\ Cfg.kinds \subseteq Kinds /\ Cardinality(Cfg.kinds) \in Nat
      /\ IsFiniteSet(Cfg.kinds) /\ Cfg.rounds \in Nat
  BY FewKinds DEF RowInv, Types
<1>3. AtWork = {} /\ AtWork' = Cfg.kinds
  BY <1>1, <1>2 DEF AtWork, RowInv, Order
<1>4. Types'
  BY <1>1, <1>2 DEF RowInv, Types, Stages
<1>5. Order'
  BY <1>1 DEF RowInv, Order
<1>6. ASSUME ~store_err PROVE Rows'
  <2> DEFINE N == Cardinality(Cfg.kinds)
  <2>1. round \in Nat /\ \A k \in Cfg.kinds : Cardinality(Stored(k)) = round
    BY <1>2, <1>3, <1>6 DEF RowInv, Types, Rows, Rounds
  <2>2. \A k \in Cfg.kinds : Cardinality(Stored(k))' = Rounds(k)'
    BY <1>1, <1>3, <2>1 DEF Stored, Rounds
  <2>3. Len(store) + Cardinality({}) = round * N
    BY <1>3, <1>6 DEF RowInv, Rows
  <2>4. Len(store) = round * N /\ (round + 1) * N = round * N + N
    BY <1>2, <2>1, <2>3, FS_EmptySet
  <2>5. Len(store') + Cardinality(AtWork') = round' * Cardinality(Cfg'.kinds)
    BY <1>1, <1>3, <2>4
  <2> QED
    BY <1>1, <2>2, <2>5 DEF Rows
<1>7. Rows'
  BY <1>1, <1>6 DEF Rows
<1> QED
  BY <1>4, <1>5, <1>7 DEF RowInv

\* A goroutine's row is stored, or the writer's error stays.
LEMMA CollectKeeps == ASSUME RowInv, NEW k \in Kinds, Collect(k) PROVE RowInv'
<1>1. /\ main = "collect" /\ ch = "open" /\ rpc[k] = "send"
      /\ UNCHANGED <<Cfg, main, round, out, ch, result>>
      /\ rpc' = [rpc EXCEPT ![k] = "done"]
  BY DEF Collect
<1>2. PICK fails \in BOOLEAN :
         /\ store' = IF Failed(fails) THEN store ELSE Append(store, out[k])
         /\ store_err' = Failed(fails)
  BY DEF Collect
<1>3. k \in AtWork /\ k \in Cfg.kinds /\ out[k].kind = k
  BY <1>1 DEF RowInv, Types, AtWork
<1>4. AtWork' = AtWork \ {k}
  BY <1>1, FewKinds DEF RowInv, Types, AtWork
<1>5. PICK S : store \in Seq(S)
  BY DEF RowInv, Types
<1>6. /\ store_err' \in BOOLEAN
      /\ \E T : store' \in Seq(T)
  <2>1. Append(store, out[k]) \in Seq(S \cup {out[k]})
    <3>1. store \in Seq(S \cup {out[k]})
      BY <1>5, SeqMonotonic
    <3> QED
      BY <3>1, AppendProperties
  <2> QED
    BY <1>2, <1>5, <2>1 DEF Failed, RowInv, Types
<1>7. Types'
  BY <1>1, <1>3, <1>6 DEF RowInv, Types, Stages
<1>8. Order'
  BY <1>1 DEF RowInv, Order
<1>9. ASSUME ~store_err' PROVE Rows'
  <2>1. ~store_err /\ store' = Append(store, out[k])
    BY <1>2, <1>9 DEF Failed, RowInv, Types
  <2>2. /\ Len(store) \in Nat /\ Len(store') = Len(store) + 1
        /\ DOMAIN store = 1 .. Len(store) /\ DOMAIN store' = 1 .. Len(store) + 1
        /\ \A n \in 1 .. Len(store) : store'[n] = store[n]
        /\ store'[Len(store) + 1] = out[k]
    BY <1>5, <2>1
  <2>3. Stored(k)' = Stored(k) \cup {Len(store) + 1} /\ Len(store) + 1 \notin Stored(k)
    BY <1>3, <2>2 DEF Stored
  <2>4. \A j \in Cfg.kinds : j # k => Stored(j)' = Stored(j)
    BY <1>3, <2>2 DEF Stored
  <2>5. IsFiniteSet(Stored(k))
    <3>1. IsFiniteSet(1 .. Len(store))
      BY <2>2, FS_Interval
    <3> QED
      BY <2>2, <3>1, FS_Subset DEF Stored
  <2>6. Cardinality(Stored(k)') = Cardinality(Stored(k)) + 1
    BY <2>3, <2>5, FS_AddElement
  <2>7. IsFiniteSet(AtWork) /\ Cardinality(AtWork \ {k}) = Cardinality(AtWork) - 1
    <3>1. IsFiniteSet(AtWork)
      BY FewKinds, FS_Subset DEF RowInv, Types, AtWork
    <3> QED
      BY <1>3, <3>1, FS_RemoveElement
  <2>8. /\ \A j \in Cfg.kinds : Cardinality(Stored(j)) = Rounds(j)
        /\ Len(store) + Cardinality(AtWork) = round * Cardinality(Cfg.kinds)
    BY <2>1 DEF RowInv, Rows
  <2>9. ASSUME NEW j \in Cfg.kinds PROVE Cardinality(Stored(j)') = Rounds(j)'
    <3>1. CASE j = k
      <4>1. Rounds(k) = round - 1 /\ Rounds(k)' = round /\ round \in Nat
        BY <1>1, <1>3, <1>4, FewKinds DEF Rounds, RowInv, Types
      <4> QED
        BY <1>3, <2>6, <2>8, <3>1, <4>1
    <3>2. CASE j # k
      <4>1. Rounds(j)' = Rounds(j)
        BY <1>1, <1>4, <3>2 DEF Rounds
      <4> QED
        BY <2>4, <2>8, <3>2, <4>1
    <3> QED
      BY <3>1, <3>2
  <2>10. Len(store') + Cardinality(AtWork') = round' * Cardinality(Cfg'.kinds)
    <3>1. Cardinality(AtWork) \in Nat
      BY <2>7, FS_CardinalityType
    <3> QED
      BY <1>1, <1>4, <2>2, <2>7, <2>8, <3>1
  <2> QED
    BY <1>1, <2>9, <2>10 DEF Rows
<1>10. Rows'
  BY <1>9 DEF Rows
<1> QED
  BY <1>7, <1>8, <1>10 DEF RowInv

\* The channel is closed, the round is over, the files are closed: no row is added.
LEMMA CloseKeeps ==
    ASSUME RowInv, Close_ch \/ Collected \/ Close_store \/ WriteOutputParquet
    PROVE  RowInv'
<1>1. UNCHANGED <<Cfg, round, rpc, out, store, store_err>>
  BY DEF Close_ch, Collected, Close_store, WriteOutputParquet, routineVars, fileVars
<1>2. AtWork' = AtWork
  BY <1>1 DEF AtWork
<1>3. Types'
  BY <1>1 DEF RowInv, Types
<1>4. Rows'
  BY <1>1, <1>2 DEF RowInv, Rows, Stored, Rounds
<1>5. Order'
  <2>1. CASE Close_ch
    <3>1. main' = main /\ result' = result /\ AtWork = {}
      BY <2>1 DEF Close_ch, All_done, AtWork, fileVars
    <3> QED
      BY <1>1, <1>2, <3>1 DEF RowInv, Order
  <2>2. CASE Collected
    <3>1. /\ main = "collect" /\ ch = "closed" /\ result' = result
          /\ main' \in {"round", "close"} /\ (main' = "close" => ~(round < Cfg.rounds))
      BY <2>2 DEF Collected, fileVars
    <3>2. AtWork = {} /\ result # "complete"
      BY <3>1 DEF RowInv, Order
    <3> QED
      BY <1>1, <1>2, <3>1, <3>2, FewKinds DEF RowInv, Types, Order
  <2>3. CASE Close_store
    <3>1. /\ main = "close" /\ result' = result
          /\ main' \in {"fatal", "parquet"} /\ (main' = "parquet" => ~store_err)
      BY <2>3 DEF Close_store, Failed, fileVars
    <3> QED
      BY <1>1, <1>2, <3>1 DEF RowInv, Order
  <2>4. CASE WriteOutputParquet
    <3>1. main = "parquet" /\ main' = "done"
      BY <2>4 DEF WriteOutputParquet
    <3> QED
      BY <1>1, <1>2, <3>1 DEF RowInv, Order
  <2> QED
    BY <2>1, <2>2, <2>3, <2>4
<1> QED
  BY <1>3, <1>4, <1>5 DEF RowInv

\* The resolver and the name server leave the rows alone.
LEMMA OthersKeep ==
    ASSUME RowInv, Age \/ \E j \in stray : Resolve_stray(j)
    PROVE  RowInv'
<1>1. UNCHANGED <<Cfg, main, round, rpc, out, ch, store, store_err, result>>
  BY DEF Age, Resolve_stray, routineVars, fileVars
<1> QED
  BY <1>1 DEF RowInv, Types, Order, Rows, Stored, Rounds, AtWork

LEMMA NextKeeps == RowInv /\ [Next]_vars => RowInv'
<1> SUFFICES ASSUME RowInv, [Next]_vars PROVE RowInv'
  OBVIOUS
<1>1. CASE Start_scan
  BY <1>1, StartKeeps, CollectKeeps, CloseKeeps DEF Start_scan, scanResolvers
<1>2. ASSUME NEW k \in Kinds, Query(k) \/ Answer(k) \/ Timeout(k) PROVE RowInv'
  BY <1>2, QueryMoves, MovesKeep
<1>3. CASE Age \/ \E j \in stray : Resolve_stray(j)
  BY <1>3, OthersKeep
<1>4. CASE UNCHANGED vars
  BY <1>4 DEF vars, routineVars, fileVars, RowInv, Types, Order, Rows, Stored, Rounds, AtWork
<1> QED
  BY <1>1, <1>2, <1>3, <1>4 DEF Next

LEMMA InitKeeps == Init => RowInv
<1> SUFFICES ASSUME Init PROVE RowInv
  OBVIOUS
<1>1. /\ Cfg \in Configs /\ main = "round" /\ round = 0 /\ result = "none"
      /\ rpc = [k \in Kinds |-> "off"] /\ out = [k \in Kinds |-> NULL]
      /\ store = <<>> /\ store_err = FALSE
  BY DEF Init
<1>2. Cfg.rounds \in Nat /\ Cardinality(Cfg.kinds) \in Nat /\ Cfg.kinds \subseteq Kinds
  BY <1>1, FewKinds
<1>3. AtWork = {}
  BY <1>1, <1>2 DEF AtWork
<1>4. Types
  <2>1. \E S : store \in Seq(S)
    <3>1. store \in Seq({})
      BY <1>1
    <3> QED
      BY <3>1
  <2>2. round \in 0 .. Cfg.rounds
    BY <1>1, <1>2
  <2>3. rpc \in [Kinds -> Stages] /\ DOMAIN out = Kinds /\ \A k \in Kinds : rpc[k] = "off"
    BY <1>1 DEF Stages
  <2> QED
    BY <1>1, <2>1, <2>2, <2>3 DEF Types
<1>5. Order
  BY <1>1, <1>3 DEF Order
<1>6. Rows
  <2>1. \A k \in Cfg.kinds : Stored(k) = {}
    BY <1>1 DEF Stored
  <2>2. \A k \in Cfg.kinds : Rounds(k) = 0
    BY <1>1, <1>3 DEF Rounds
  <2>3. Len(store) = 0 /\ 0 * Cardinality(Cfg.kinds) = 0
    BY <1>1, <1>2
  <2> QED
    <3>1. \A k \in Cfg.kinds : Cardinality(Stored(k)) = Rounds(k)
      BY <2>1, <2>2, FS_EmptySet
    <3>2. Len(store) + Cardinality(AtWork) = round * Cardinality(Cfg.kinds)
      BY <1>1, <1>3, <2>3, FS_EmptySet
    <3> QED
      BY <3>1, <3>2 DEF Rows
<1> QED
  BY <1>4, <1>5, <1>6 DEF RowInv

\* A result file that was written to its end has every row (388-408, temp_store.go
\* 30-52), although the collector looks at no error.
THEOREM Complete == Spec => []RowPerQuery
<1>1. Init => RowInv
  BY InitKeeps
<1>2. RowInv /\ [Next]_vars => RowInv'
  BY NextKeeps
<1>3. RowInv => RowPerQuery
  <2> SUFFICES ASSUME RowInv, result = "complete"
               PROVE  /\ \A k \in Cfg.kinds : Cardinality(Stored(k)) = Cfg.rounds
                      /\ Len(store) = Cfg.rounds * Cardinality(Cfg.kinds)
    BY DEF RowPerQuery, Stored
  <2>1. main = "done" /\ ~store_err /\ round = Cfg.rounds /\ AtWork = {}
    BY DEF RowInv, Order
  <2>2. Cardinality(AtWork) = 0
    BY <2>1, FS_EmptySet
  <2>3. Len(store) \in Nat
    BY DEF RowInv, Types
  <2> QED
    BY <2>1, <2>2, <2>3 DEF RowInv, Rows, Rounds
<1> QED
  BY <1>1, <1>2, <1>3, PTL DEF Spec

-----------------------------------------------------------------------------
(***************************************************************************)
(* Rows may be combined in any order: two that follow each other may change *)
(* places, and so may the first two.                                        *)
(***************************************************************************)
Results == [qmin : TriBool, induction : TriBool, mode : Modes, nx : TriBool,
            errors : [Errors -> Nat], count : Nat]

LEMMA MergeOrder ==
    ASSUME NEW a \in TriBool, NEW b \in TriBool, NEW c \in TriBool
    PROVE  /\ Merge(a, b) = Merge(b, a) /\ Merge(a, b) \in TriBool
           /\ Merge(Merge(a, b), c) = Merge(Merge(a, c), b)
BY DEF Merge, TriBool, Nil, Uncertain

LEMMA ModeOrder ==
    ASSUME NEW a \in Modes, NEW b \in Modes, NEW c \in Modes
    PROVE  /\ Merge_mode(a, b) = Merge_mode(b, a) /\ Merge_mode(a, b) \in Modes
           /\ Merge_mode(Merge_mode(a, b), c) = Merge_mode(Merge_mode(a, c), b)
BY DEF Merge_mode, Modes

\* combineResults (304-363) does not depend on which of two rows came first, nor, for
\* rows not yet combined, on which of the two is the one that is stored already.
THEOREM RowsCommute ==
    ASSUME NEW r \in Results, NEW s \in Results, NEW t \in Results
    PROVE  /\ combineResults(combineResults(r, s), t)
                = combineResults(combineResults(r, t), s)
           /\ s.count = t.count => combineResults(s, t) = combineResults(t, s)
<1>1. ASSUME NEW x \in Results
      PROVE  /\ x.qmin \in TriBool /\ x.induction \in TriBool /\ x.nx \in TriBool
             /\ x.mode \in Modes /\ x.errors \in [Errors -> Nat] /\ x.count \in Nat
  BY DEF Results
<1>2. /\ Merge(Merge(r.qmin, s.qmin), t.qmin) = Merge(Merge(r.qmin, t.qmin), s.qmin)
      /\ Merge(Merge(r.induction, s.induction), t.induction)
           = Merge(Merge(r.induction, t.induction), s.induction)
      /\ Merge(Merge(r.nx, s.nx), t.nx) = Merge(Merge(r.nx, t.nx), s.nx)
      /\ Merge(s.qmin, t.qmin) = Merge(t.qmin, s.qmin)
      /\ Merge(s.induction, t.induction) = Merge(t.induction, s.induction)
      /\ Merge(s.nx, t.nx) = Merge(t.nx, s.nx)
  <2>1. ASSUME NEW a \in TriBool, NEW b \in TriBool, NEW c \in TriBool
        PROVE  Merge(b, c) = Merge(c, b) /\ Merge(Merge(a, b), c) = Merge(Merge(a, c), b)
    BY MergeOrder
  <2>2. r.qmin \in TriBool /\ s.qmin \in TriBool /\ t.qmin \in TriBool
    BY <1>1
  <2>3. r.induction \in TriBool /\ s.induction \in TriBool /\ t.induction \in TriBool
    BY <1>1
  <2>4. r.nx \in TriBool /\ s.nx \in TriBool /\ t.nx \in TriBool
    BY <1>1
  <2>5. /\ Merge(Merge(r.qmin, s.qmin), t.qmin) = Merge(Merge(r.qmin, t.qmin), s.qmin)
        /\ Merge(s.qmin, t.qmin) = Merge(t.qmin, s.qmin)
    BY <2>1, <2>2
  <2>6. /\ Merge(Merge(r.induction, s.induction), t.induction)
             = Merge(Merge(r.induction, t.induction), s.induction)
        /\ Merge(s.induction, t.induction) = Merge(t.induction, s.induction)
    BY <2>1, <2>3
  <2>7. /\ Merge(Merge(r.nx, s.nx), t.nx) = Merge(Merge(r.nx, t.nx), s.nx)
        /\ Merge(s.nx, t.nx) = Merge(t.nx, s.nx)
    BY <2>1, <2>4
  <2> QED
    BY <2>5, <2>6, <2>7
<1>3. /\ Merge_mode(Merge_mode(r.mode, s.mode), t.mode)
           = Merge_mode(Merge_mode(r.mode, t.mode), s.mode)
      /\ Merge_mode(s.mode, t.mode) = Merge_mode(t.mode, s.mode)
  BY <1>1, ModeOrder
<1>4. \A e \in Errors :
          /\ r.errors[e] + s.errors[e] + t.errors[e] = r.errors[e] + t.errors[e] + s.errors[e]
          /\ s.errors[e] + t.errors[e] = t.errors[e] + s.errors[e]
  BY <1>1
<1>5. [e \in Errors |-> [f \in Errors |-> r.errors[f] + s.errors[f]][e] + t.errors[e]]
        = [e \in Errors |-> [f \in Errors |-> r.errors[f] + t.errors[f]][e] + s.errors[e]]
  BY <1>4
<1>6. [e \in Errors |-> s.errors[e] + t.errors[e]] = [e \in Errors |-> t.errors[e] + s.errors[e]]
  BY <1>4
<1>7. combineResults(combineResults(r, s), t) = combineResults(combineResults(r, t), s)
  BY <1>2, <1>3, <1>5 DEF combineResults
<1>8. s.count = t.count => combineResults(s, t) = combineResults(t, s)
  BY <1>2, <1>3, <1>6 DEF combineResults
<1> QED
  BY <1>7, <1>8

-----------------------------------------------------------------------------
(***************************************************************************)
(* The order of the rows in the file does not matter: a fold of             *)
(* combineResults over them is what they say taken together.  What a fold   *)
(* is defined to be is a function on the sets of rows, and only one fits.   *)
(***************************************************************************)
\* A non-empty set of naturals has a least element.
LEMMA Least ==
    ASSUME NEW T, T \subseteq Nat, T # {}
    PROVE  \E x \in T : \A y \in T : ~(y < x)
<1>1. IsWellFoundedOn(OpToRel(<, Nat), Nat)
  BY NatLessThanWellFounded, Zenon
<1>2. PICK x \in T : \A y \in T : ~(<<y, x>> \in OpToRel(<, Nat))
  BY <1>1, WFMin, Zenon
<1>3. ASSUME NEW y \in T, y < x PROVE FALSE
  <2>1. <<y, x>> \in Nat \X Nat /\ <<y, x>>[1] < <<y, x>>[2]
    BY <1>3
  <2>2. <<y, x>> \in OpToRel(<, Nat)
    BY <2>1, Zenon DEF OpToRel
  <2> QED
    BY <1>2, <2>2, Zenon
<1> QED
  BY <1>3

\* What the merges of two fields have in common, and what Together makes of one value
\* more.
Join(a, b, none, both) == IF a = none THEN b ELSE IF b = none \/ a = b THEN a ELSE both

LEMMA TogetherOne ==
    ASSUME NEW v, NEW none, NEW both
    PROVE  Together({v}, none, both) = v
<1>1. CASE v = none
  BY <1>1 DEF Together
<1>2. CASE v # none
  <2>1. {v} \ {none} = {v} /\ ~({v} \subseteq {none})
    BY <1>2
  <2>2. Cardinality({v}) = 1
    BY FS_Singleton
  <2>3. (CHOOSE w \in {v} : w # none) = v
    BY <1>2
  <2> QED
    BY <2>1, <2>2, <2>3 DEF Together
<1> QED
  BY <1>1, <1>2

LEMMA TogetherAdds ==
    ASSUME NEW seen, IsFiniteSet(seen), NEW none, NEW both, none # both, both \notin seen,
           NEW v, v # both
    PROVE  Together(seen \cup {v}, none, both)
             = Join(Together(seen, none, both), v, none, both)
<1> DEFINE rest == seen \ {none}
           more == (seen \cup {v}) \ {none}
<1>0. IsFiniteSet(rest) /\ IsFiniteSet(seen \cup {v}) /\ IsFiniteSet(more)
  BY FS_Singleton, FS_Union, FS_Difference
<1>1. CASE seen \subseteq {none}
  <2>1. Together(seen, none, both) = none
    BY <1>1 DEF Together
  <2>2. CASE v = none
    BY <1>1, <2>1, <2>2 DEF Together, Join
  <2>3. CASE v # none
    <3>1. more = {v} /\ ~(seen \cup {v} \subseteq {none})
      BY <1>1, <2>3
    <3>2. Cardinality(more) = 1
      BY <3>1, FS_Singleton
    <3>3. (CHOOSE w \in seen \cup {v} : w # none) = v
      BY <1>1, <2>3
    <3>4. Together(seen \cup {v}, none, both) = v
      BY <3>1, <3>2, <3>3 DEF Together
    <3> QED
      BY <2>1, <3>4 DEF Join
  <2> QED
    BY <2>2, <2>3
<1>2. CASE ~(seen \subseteq {none}) /\ Cardinality(rest) = 1
  <2>1. PICK x : rest = {x}
    BY <1>0, <1>2, FS_Singleton
  <2>2. x \in seen /\ x # none /\ x # both /\ \A y \in seen : y = x \/ y = none
    BY <2>1
  <2>3. (CHOOSE w \in seen : w # none) = x
    BY <2>2
  <2>4. Together(seen, none, both) = x
    BY <1>2, <2>3 DEF Together
  <2>5. CASE v = none \/ v = x
    <3>1. more = rest /\ ~(seen \cup {v} \subseteq {none})
      BY <1>2, <2>2, <2>5
    <3>2. (CHOOSE w \in seen \cup {v} : w # none) = x
      BY <2>2, <2>5
    <3>3. Together(seen \cup {v}, none, both) = x
      BY <1>2, <3>1, <3>2 DEF Together
    <3> QED
      BY <2>2, <2>4, <2>5, <3>3 DEF Join
  <2>6. CASE v # none /\ v # x
    <3>1. ~(seen \cup {v} \subseteq {none}) /\ x \in more /\ v \in more
      BY <1>2, <2>2, <2>6
    <3>2. Cardinality(more) # 1
      <4> SUFFICES ASSUME Cardinality(more) = 1 PROVE FALSE
        OBVIOUS
      <4>1. PICK y : more = {y}
        BY <1>0, FS_Singleton
      <4> QED
        BY <2>6, <3>1, <4>1
    <3>3. Together(seen \cup {v}, none, both) = both
      BY <3>1, <3>2 DEF Together
    <3> QED
      BY <2>2, <2>4, <2>6, <3>3 DEF Join
  <2> QED
    BY <2>5, <2>6
<1>3. CASE ~(seen \subseteq {none}) /\ Cardinality(rest) # 1
  <2>1. Together(seen, none, both) = both
    BY <1>3 DEF Together
  <2>2. Cardinality(more) # 1
    <3> SUFFICES ASSUME Cardinality(more) = 1 PROVE FALSE
      OBVIOUS
    <3>1. PICK y : more = {y}
      BY <1>0, FS_Singleton
    <3>2. rest \subseteq {y} /\ rest # {}
      BY <1>3, <3>1
    <3>3. rest = {y}
      BY <3>2
    <3> QED
      BY <1>3, <3>3, FS_Singleton
  <2>3. Together(seen \cup {v}, none, both) = both
    BY <1>3, <2>2 DEF Together
  <2> QED
    BY <2>1, <2>3 DEF Join
<1> QED
  BY <1>1, <1>2, <1>3

LEMMA MergeIsJoin ==
    \A a, b : /\ Merge(a, b) = Join(a, b, Nil, Uncertain)
              /\ Merge_mode(a, b) = Join(a, b, "", "both")
BY Zenon DEF Merge, Merge_mode, Join

-----------------------------------------------------------------------------
\* What a goroutine may write into a row.
GoodRow(row) ==
    row.kind \in Kinds /\ row.res \in Errors \cup {"ok"} /\ row.nxopti \in {-1, 0, 1}

RowsGood ==
    /\ \A k \in Kinds : rpc[k] = "send" => GoodRow(out[k])
    /\ \A n \in DOMAIN store : GoodRow(store[n])

LEMMA OutcomeGood ==
    ASSUME NEW k \in Kinds, NEW res \in Errors \cup {"ok"}, NEW seq, NEW ind,
           Outcome(k, res, seq, ind)
    PROVE  \/ rpc' = [rpc EXCEPT ![k] = "ask_b"] /\ out' = out
           \/ \E row : GoodRow(row) /\ out' = [out EXCEPT ![k] = row]
<1> DEFINE row1 == Row(k, res, seq, ind, -1)
           row2 == Row(k, res, seq, ind, 1)
           row3 == Row(k, res, seq, ind, 0)
           row4 == Row(k, "nxdomain", <<>>, <<>>, -1)
<1>1. GoodRow(row1) /\ GoodRow(row2) /\ GoodRow(row3) /\ GoodRow(row4)
  BY DEF Row, GoodRow, Errors
<1> HIDE DEF row1, row2, row3, row4
<1>2. \/ rpc' = [rpc EXCEPT ![k] = "ask_b"] /\ out' = out
      \/ \E row \in {row1, row2, row3, row4} : Send(k, row)
  BY DEF Outcome, row1, row2, row3, row4
<1>3. ASSUME NEW row \in {row1, row2, row3, row4}, Send(k, row)
      PROVE  \E r : GoodRow(r) /\ out' = [out EXCEPT ![k] = r]
  BY <1>1, <1>3 DEF Send
<1> QED
  BY <1>2, <1>3

LEMMA EndingGood ==
    ASSUME NEW j, NEW q, NEW r, Ends(j, q, r)
    PROVE  Ending(r) \in Errors \cup {"ok"}
<1>1. r.is \in {"txt", "nxdomain", "nodata", "ns", "false"}
  BY DEF Ends
<1>2. CASE r.is = "txt"
  <2>1. Ending(r) = "ok"
    BY <1>2, Zenon DEF Ending
  <2> QED
    BY <2>1
<1>3. CASE r.is \in {"nodata", "ns"}
  <2>1. r.is # "txt"
    BY <1>3
  <2>2. Ending(r) = "none"
    BY <1>3, <2>1, Zenon DEF Ending
  <2> QED
    BY <2>2 DEF Errors
<1>4. CASE r.is \in {"nxdomain", "false"}
  <2>1. r.is # "txt" /\ r.is \notin {"nodata", "ns"}
    BY <1>4
  <2>2. Ending(r) = r.is
    BY <2>1, Zenon DEF Ending
  <2> QED
    BY <1>4, <2>2 DEF Errors
<1> QED
  BY <1>1, <1>2, <1>3, <1>4

\* A step of a goroutine changes at most what it is about to send.
LEMMA QueryGood ==
    ASSUME RowInv, RowsGood, NEW k \in Kinds, Query(k) \/ Answer(k) \/ Timeout(k)
    PROVE  RowsGood'
<1>0. DOMAIN out = Kinds /\ rpc \in [Kinds -> Stages]
  BY DEF RowInv, Types
<1>1. store' = store /\ rpc[k] # "send"
  BY QueryMoves DEF Moves, fileState
<1>2. \/ out' = out /\ \E s \in {"wait", "ask", "ask_b"} : rpc' = [rpc EXCEPT ![k] = s]
      \/ rpc' = rpc /\ out' = out
      \/ \E row : GoodRow(row) /\ out' = [out EXCEPT ![k] = row]
  <2>1. CASE Query_new(k)
    BY <2>1 DEF Query_new
  <2>2. CASE Query_same(k)
    BY <2>2 DEF Query_same
  <2>3. CASE Resolve(k)
    <3> DEFINE q == Next_query(job[k])
               r == Reply(q)
    <3>1. \/ rpc' = rpc /\ out' = out
          \/ Ends(job[k], q, r) /\ Outcome(k, Ending(r), r.seq, r.ind)
      BY <2>3 DEF Resolve
    <3> HIDE DEF q, r
    <3> QED
      BY <3>1, EndingGood, OutcomeGood
  <2>4. CASE Resolve_denied(k)
    <3>1. Outcome(k, "nxdomain", <<>>, <<>>)
      BY <2>4 DEF Resolve_denied
    <3> QED
      BY <3>1, OutcomeGood DEF Errors
  <2>5. CASE Timeout(k)
    <3>1. \/ rpc' = [rpc EXCEPT ![k] = "ask"] /\ out' = out
          \/ Outcome(k, "timeout", <<>>, <<>>)
      BY <2>5 DEF Timeout
    <3> QED
      BY <3>1, OutcomeGood DEF Errors
  <2> QED
    BY <2>1, <2>2, <2>3, <2>4, <2>5 DEF Query, Answer
<1>3. \A j \in Kinds : j # k => rpc'[j] = rpc[j]
  <2>1. Moves(k)
    BY QueryMoves
  <2> QED
    BY <1>0, <2>1 DEF Moves
<1>4. ASSUME NEW j \in Kinds, rpc'[j] = "send" PROVE GoodRow(out'[j])
  <2>1. CASE j # k
    <3>1. rpc[j] = "send" /\ out'[j] = out[j]
      BY <1>0, <1>2, <1>3, <1>4, <2>1
    <3> QED
      BY <3>1 DEF RowsGood
  <2>2. CASE j = k
    <3>1. PICK row : GoodRow(row) /\ out' = [out EXCEPT ![k] = row]
      BY <1>0, <1>1, <1>2, <1>4, <2>2
    <3>2. out'[j] = row
      BY <1>0, <2>2, <3>1
    <3> QED
      BY <3>1, <3>2
  <2> QED
    BY <2>1, <2>2
<1> HIDE DEF GoodRow
<1>5. \A n \in DOMAIN store' : GoodRow(store'[n])
  BY <1>1 DEF RowsGood
<1> QED
  BY <1>4, <1>5 DEF RowsGood, GoodRow

LEMMA NextGood == RowInv /\ RowsGood /\ [Next]_vars => RowsGood'
<1> SUFFICES ASSUME RowInv, RowsGood, [Next]_vars PROVE RowsGood'
  OBVIOUS
<1>0. rpc \in [Kinds -> Stages]
  BY DEF RowInv, Types
<1>1. CASE Start_round
  <2>1. store' = store /\ \A k \in Kinds : rpc'[k] # "send"
    BY <1>1 DEF Start_round, fileVars
  <2> QED
    BY <2>1 DEF RowsGood, GoodRow
<1>2. ASSUME NEW k \in Kinds, Collect(k) PROVE RowsGood'
  <2>1. /\ rpc[k] = "send" /\ rpc' = [rpc EXCEPT ![k] = "done"] /\ out' = out
        /\ store' = store \/ store' = Append(store, out[k])
    BY <1>2 DEF Collect
  <2>2. \A j \in Kinds : rpc'[j] = "send" => rpc[j] = "send"
    BY <1>0, <2>1
  <2>3. PICK S : store \in Seq(S)
    BY DEF RowInv, Types
  <2>4. \A n \in DOMAIN store' :
            (n \in DOMAIN store /\ store'[n] = store[n]) \/ store'[n] = out[k]
    BY <2>1, <2>3
  <2> QED
    BY <2>1, <2>2, <2>4 DEF RowsGood, GoodRow
<1>3. CASE \/ Close_ch \/ Collected \/ Close_store \/ WriteOutputParquet \/ Age
           \/ (\E j \in stray : Resolve_stray(j)) \/ UNCHANGED vars
  <2>1. UNCHANGED <<rpc, out, store>>
    BY <1>3 DEF Close_ch, Collected, Close_store, WriteOutputParquet, Age, Resolve_stray,
                routineVars, fileVars, vars
  <2> QED
    BY <2>1 DEF RowsGood, GoodRow
<1>4. ASSUME NEW k \in Kinds, Query(k) \/ Answer(k) \/ Timeout(k) PROVE RowsGood'
  BY <1>4, QueryGood
<1> QED
  BY <1>1, <1>2, <1>3, <1>4 DEF Next, Start_scan, scanResolvers

-----------------------------------------------------------------------------
\* What the evaluation of a row says, and what rows say taken together: the values of
\* each field, and how many rows there are.
Evaluated == [qmin : {Nil, 0, 1}, induction : {Nil, 0, 1},
              mode : {"", "strict", "relaxed"}, nx : {Nil, 0, 1},
              errors : [Errors -> {0, 1}], count : {1}]

Values(first, rest, s, field) == {first[field]} \cup {rest[i][field] : i \in s}
Taken(first, rest, s) ==
    [qmin |-> Together(Values(first, rest, s, "qmin"), Nil, Uncertain),
     induction |-> Together(Values(first, rest, s, "induction"), Nil, Uncertain),
     mode |-> Together(Values(first, rest, s, "mode"), "", "both"),
     nx |-> Together(Values(first, rest, s, "nx"), Nil, Uncertain),
     errors |-> [e \in Errors |-> first.errors[e]
                                  + Cardinality({i \in s : rest[i].errors[e] = 1})],
     count |-> Cardinality(s) + 1]

LEMMA EvalIs ==
    ASSUME NEW row, GoodRow(row)
    PROVE  evalRow(row) \in Evaluated
<1>2. ASSUME NEW b \in BOOLEAN PROVE Truth(b) \in {0, 1}
  BY <1>2 DEF Truth
<1>3. \A m \in {"", "strict", "relaxed"} : [Unknown EXCEPT !.mode = m] \in Evaluated
  BY DEF Unknown, Evaluated, Nil
<1>4. \A x \in {Nil, 0, 1} : /\ [Unknown EXCEPT !.nx = x] \in Evaluated
                             /\ [Unknown EXCEPT !.qmin = x] \in Evaluated
                             /\ [Unknown EXCEPT !.induction = x] \in Evaluated
  BY DEF Unknown, Evaluated, Nil
<1>5. \A e \in Errors : [Unknown EXCEPT !.errors[e] = 1] \in Evaluated
  BY DEF Unknown, Evaluated, Nil
<1>6. row.nxopti \in {Nil, 0, 1}
  BY DEF GoodRow, Nil
<1>7. CASE row.res # "ok"
  <2>1. row.res \in Errors
    BY <1>7 DEF GoodRow
  <2> QED
    BY <1>3, <1>4, <1>5, <1>6, <1>7, <2>1 DEF evalRow
<1>8. CASE row.res = "ok"
  <2>1. row.kind \in {"plain", "induction", "qminmode", "nxopti"}
    BY DEF GoodRow, Kinds
  <2>2. CASE row.kind = "qminmode"
    <3>1. evalRow(row) = [Unknown EXCEPT !.mode = IF Several(row.seq) THEN "relaxed" ELSE ""]
      BY <1>8, <2>2, Zenon DEF evalRow
    <3> QED
      BY <1>3, <3>1
  <2>3. CASE row.kind = "nxopti"
    <3>1. row.kind # "qminmode"
      BY <2>3
    <3>2. evalRow(row) = [Unknown EXCEPT !.nx = row.nxopti]
      BY <1>8, <2>3, <3>1, Zenon DEF evalRow
    <3> QED
      BY <1>4, <1>6, <3>2
  <2>4. CASE row.kind = "induction"
    <3>1. row.kind # "qminmode" /\ row.kind # "nxopti"
      BY <2>4
    <3>2. evalRow(row) = [Unknown EXCEPT !.induction = Truth(Several(row.ind))]
      BY <1>8, <2>4, <3>1, Zenon DEF evalRow
    <3>3. Truth(Several(row.ind)) \in {0, 1}
      BY DEF Truth
    <3> QED
      BY <1>4, <3>2, <3>3
  <2>5. CASE row.kind = "plain"
    <3>1. row.kind # "qminmode" /\ row.kind # "nxopti" /\ row.kind # "induction"
      BY <2>5
    <3>2. evalRow(row) = [Unknown EXCEPT !.qmin = Truth(Several(row.seq))]
      BY <1>8, <2>5, <3>1, Zenon DEF evalRow
    <3>3. Truth(Several(row.seq)) \in {0, 1}
      BY DEF Truth
    <3> QED
      BY <1>4, <3>2, <3>3
  <2> QED
    BY <2>1, <2>2, <2>3, <2>4, <2>5
<1> QED
  BY <1>7, <1>8

\* One row more is combined with the others.
LEMMA EvaluatedFields ==
    ASSUME NEW x \in Evaluated
    PROVE  /\ x.qmin \in {Nil, 0, 1} /\ x.induction \in {Nil, 0, 1} /\ x.nx \in {Nil, 0, 1}
           /\ x.mode \in {"", "strict", "relaxed"}
           /\ \A e \in Errors : x.errors[e] \in {0, 1}
BY DEF Evaluated

LEMMA TakenAdds ==
    ASSUME NEW n \in Nat, NEW first \in Evaluated, NEW rest \in [1 .. n -> Evaluated],
           NEW s \in SUBSET (1 .. n), NEW j \in s
    PROVE  Taken(first, rest, s) = combineResults(Taken(first, rest, s \ {j}), rest[j])
<1> DEFINE t == s \ {j}
<1>1. IsFiniteSet(s) /\ IsFiniteSet(t) /\ Cardinality(t) \in Nat
  <2>1. IsFiniteSet(1 .. n)
    BY FS_Interval
  <2>2. IsFiniteSet(s) /\ IsFiniteSet(t)
    BY <2>1, FS_Subset, FS_RemoveElement
  <2> QED
    BY <2>2, FS_CardinalityType
<1>2. Cardinality(s) = Cardinality(t) + 1
  BY <1>1, FS_RemoveElement, FS_CardinalityType
<1>3. ASSUME NEW f, NEW none, NEW both, none # both, rest[j][f] # both,
             both \notin Values(first, rest, s, f)
      PROVE  Together(Values(first, rest, s, f), none, both)
               = Join(Together(Values(first, rest, t, f), none, both), rest[j][f], none, both)
  <2>1. Values(first, rest, s, f) = Values(first, rest, t, f) \cup {rest[j][f]}
    BY DEF Values
  <2>2. IsFiniteSet({rest[i][f] : i \in t})
    <3>1. [i \in t |-> rest[i][f]] \in Surjection(t, {rest[i][f] : i \in t})
      BY DEF Surjection
    <3> QED
      BY <1>1, <3>1, FS_Surjection
  <2>3. IsFiniteSet(Values(first, rest, t, f))
    BY <2>2, FS_Singleton, FS_Union DEF Values
  <2>4. both \notin Values(first, rest, t, f)
    BY <1>3, <2>1
  <2>5. Together(Values(first, rest, t, f) \cup {rest[j][f]}, none, both)
          = Join(Together(Values(first, rest, t, f), none, both), rest[j][f], none, both)
    BY <1>3, <2>3, <2>4, TogetherAdds, Zenon
  <2> QED
    BY <2>1, <2>5, Zenon
<1>4. /\ Uncertain \notin Values(first, rest, s, "qmin")
      /\ Uncertain \notin Values(first, rest, s, "induction")
      /\ Uncertain \notin Values(first, rest, s, "nx")
      /\ "both" \notin Values(first, rest, s, "mode")
  <2>1. \A x \in {first} \cup {rest[i] : i \in s} :
            /\ x.qmin \in {Nil, 0, 1} /\ x.induction \in {Nil, 0, 1}
            /\ x.nx \in {Nil, 0, 1} /\ x.mode \in {"", "strict", "relaxed"}
    BY EvaluatedFields
  <2>2. Uncertain \notin {Nil, 0, 1} /\ "both" \notin {"", "strict", "relaxed"}
    BY DEF Uncertain, Nil
  <2> QED
    BY <2>1, <2>2 DEF Values
<1>5. /\ Nil # Uncertain /\ rest[j].qmin # Uncertain /\ rest[j].induction # Uncertain
      /\ rest[j].nx # Uncertain /\ rest[j].mode # "both"
  <2>0. rest[j] \in Evaluated
    OBVIOUS
  <2>1. /\ rest[j].qmin \in {Nil, 0, 1} /\ rest[j].induction \in {Nil, 0, 1}
        /\ rest[j].nx \in {Nil, 0, 1} /\ rest[j].mode \in {"", "strict", "relaxed"}
    BY <2>0, EvaluatedFields, Zenon
  <2>2. /\ Uncertain \notin {Nil, 0, 1} /\ "both" \notin {"", "strict", "relaxed"}
        /\ Nil # Uncertain
    BY DEF Uncertain, Nil
  <2> QED
    BY <2>1, <2>2
<1>6. /\ Taken(first, rest, s).qmin = Merge(Taken(first, rest, t).qmin, rest[j].qmin)
      /\ Taken(first, rest, s).induction
           = Merge(Taken(first, rest, t).induction, rest[j].induction)
      /\ Taken(first, rest, s).nx = Merge(Taken(first, rest, t).nx, rest[j].nx)
      /\ Taken(first, rest, s).mode
           = Merge_mode(Taken(first, rest, t).mode, rest[j].mode)
  BY <1>3, <1>4, <1>5, MergeIsJoin DEF Taken
<1>7. ASSUME NEW e \in Errors
      PROVE  first.errors[e] + Cardinality({i \in s : rest[i].errors[e] = 1})
               = first.errors[e] + Cardinality({i \in t : rest[i].errors[e] = 1})
                   + rest[j].errors[e]
  <2> DEFINE S == {i \in s : rest[i].errors[e] = 1}
             T == {i \in t : rest[i].errors[e] = 1}
  <2>0. rest[j] \in Evaluated
    OBVIOUS
  <2>1. rest[j].errors[e] \in {0, 1} /\ first.errors[e] \in {0, 1}
    BY <2>0, EvaluatedFields, Zenon
  <2>2. IsFiniteSet(T) /\ Cardinality(T) \in Nat
    BY <1>1, FS_Subset, FS_CardinalityType
  <2>3. CASE rest[j].errors[e] = 0
    <3>1. S = T
      BY <2>3
    <3>2. Cardinality(S) = Cardinality(T)
      BY <3>1
    <3> HIDE DEF S, T
    <3>3. first.errors[e] + Cardinality(S) = first.errors[e] + Cardinality(T) + 0
      BY <2>1, <2>2, <3>2
    <3> QED
      BY <2>3, <3>3 DEF S, T
  <2>4. CASE rest[j].errors[e] = 1
    <3>1. S = T \cup {j} /\ j \notin T
      BY <2>4
    <3>2. Cardinality(S) = Cardinality(T) + 1
      BY <2>2, <3>1, FS_AddElement
    <3> QED
      BY <2>1, <2>2, <2>4, <3>2
  <2> QED
    BY <2>1, <2>3, <2>4
<1>8. Taken(first, rest, s).errors
        = [e \in Errors |-> Taken(first, rest, t).errors[e] + rest[j].errors[e]]
  BY <1>7 DEF Taken
<1>9. Taken(first, rest, s).count = Taken(first, rest, t).count + 1
  BY <1>1, <1>2 DEF Taken
<1> QED
  BY <1>6, <1>8, <1>9 DEF Taken, combineResults

-----------------------------------------------------------------------------
\* Which row of a set FoldLeft comes to last does not matter to what follows.
LEMMA MaxIs ==
    ASSUME NEW n \in Nat, NEW s \in SUBSET (1 .. n), s # {}
    PROVE  Max(s) \in s
<1> DEFINE T == {n - i : i \in s}
<1>1. T \subseteq Nat /\ T # {}
  <2>1. PICK i : i \in s
    OBVIOUS
  <2>2. n - i \in T
    BY <2>1
  <2>3. \A y \in s : n - y \in Nat
    OBVIOUS
  <2> QED
    BY <2>2, <2>3
<1>2. PICK x \in T : \A y \in T : ~(y < x)
  BY <1>1, Least
<1>3. PICK i \in s : x = n - i
  BY <1>2
<1>4. \A y \in s : i >= y
  BY <1>2, <1>3
<1> QED
  BY <1>4 DEF Max

\* processFile as its folds define it: by a function on the sets of rows.
Folded(g, rows) ==
    [s \in SUBSET DOMAIN Tail(rows) |->
        IF s = {} THEN evalRow(Head(rows))
        ELSE combineResults(g[s \ {Max(s)}], evalRow(Tail(rows)[Max(s)]))]

LEMMA FileIsFolded ==
    ASSUME NEW rows
    PROVE  processFile(rows) = (CHOOSE g : g = Folded(g, rows))[DOMAIN Tail(rows)]
BY Zenon DEF processFile, FoldLeft, MapThenFoldSet, Folded

LEMMA TakenNone ==
    ASSUME NEW first \in Evaluated, NEW rest
    PROVE  Taken(first, rest, {}) = first
<1>1. \A f : Values(first, rest, {}, f) = {first[f]}
  BY DEF Values
<1>2. \A f, none, both : Together(Values(first, rest, {}, f), none, both) = first[f]
  BY <1>1, TogetherOne, Zenon
<1>3. Cardinality({}) = 0 /\ \A e \in Errors : {i \in {} : rest[i].errors[e] = 1} = {}
  BY FS_EmptySet
<1>4. [e \in Errors |-> first.errors[e] + Cardinality({i \in {} : rest[i].errors[e] = 1})]
        = first.errors
  <2>1. first.errors \in [Errors -> {0, 1}]
    BY DEF Evaluated
  <2>2. \A e \in Errors : first.errors[e] + Cardinality({i \in {} : rest[i].errors[e] = 1})
                            = first.errors[e]
    BY <1>3, <2>1
  <2> QED
    BY <2>1, <2>2
<1>5. Taken(first, rest, {}) = [qmin |-> first.qmin, induction |-> first.induction,
                                mode |-> first.mode, nx |-> first.nx,
                                errors |-> first.errors, count |-> 1]
  <2>1. /\ Together(Values(first, rest, {}, "qmin"), Nil, Uncertain) = first.qmin
        /\ Together(Values(first, rest, {}, "induction"), Nil, Uncertain) = first.induction
        /\ Together(Values(first, rest, {}, "mode"), "", "both") = first.mode
        /\ Together(Values(first, rest, {}, "nx"), Nil, Uncertain) = first.nx
    BY <1>2
  <2>2. Cardinality({}) + 1 = 1
    BY <1>3
  <2> QED
    BY <1>4, <2>1, <2>2, Zenon DEF Taken
<1> QED
  BY <1>5 DEF Evaluated

LEMMA FileIsTaken ==
    ASSUME NEW S, NEW rows \in Seq(S), rows # <<>>, \A m \in DOMAIN rows : GoodRow(rows[m])
    PROVE  processFile(rows)
             = Taken(evalRow(Head(rows)),
                     [i \in DOMAIN Tail(rows) |-> evalRow(Tail(rows)[i])], DOMAIN Tail(rows))
<1> DEFINE first == evalRow(Head(rows))
           rest == [i \in DOMAIN Tail(rows) |-> evalRow(Tail(rows)[i])]
           n == Len(Tail(rows))
           D == DOMAIN Tail(rows)
           G == [s \in SUBSET D |-> Taken(first, rest, s)]
<1>1. /\ n \in Nat /\ D = 1 .. n /\ Len(rows) = n + 1 /\ DOMAIN rows = 1 .. n + 1
      /\ Head(rows) = rows[1] /\ \A i \in D : Tail(rows)[i] = rows[i + 1]
  OBVIOUS
<1>2. first \in Evaluated
  <2>1. GoodRow(Head(rows))
    BY <1>1 DEF GoodRow
  <2> QED
    BY <2>1, EvalIs, Zenon
<1>3. rest \in [1 .. n -> Evaluated]
  <2>1. \A i \in D : GoodRow(Tail(rows)[i])
    BY <1>1 DEF GoodRow
  <2>2. \A i \in D : evalRow(Tail(rows)[i]) \in Evaluated
    BY <2>1, EvalIs, Zenon
  <2>3. rest \in [D -> Evaluated]
    BY <2>2, Zenon
  <2> QED
    BY <1>1, <2>3, Zenon
<1>4. ASSUME NEW s \in SUBSET D, s # {}
      PROVE  /\ Max(s) \in s /\ s \ {Max(s)} \in SUBSET D
             /\ rest[Max(s)] = evalRow(Tail(rows)[Max(s)])
             /\ G[s] = combineResults(G[s \ {Max(s)}], evalRow(Tail(rows)[Max(s)]))
  <2>1. Max(s) \in s
    BY <1>1, <1>4, MaxIs, Zenon
  <2>2. s \ {Max(s)} \in SUBSET D /\ rest[Max(s)] = evalRow(Tail(rows)[Max(s)])
    BY <2>1, Zenon
  <2>3. Taken(first, rest, s) = combineResults(Taken(first, rest, s \ {Max(s)}), rest[Max(s)])
    <3>1. s \in SUBSET (1 .. n)
      BY <1>1, Zenon
    <3> HIDE DEF first, rest, n
    <3> QED
      BY <1>1, <1>2, <1>3, <2>1, <3>1, TakenAdds, Zenon
  <2> QED
    BY <2>1, <2>2, <2>3, Zenon
<1>5. G = Folded(G, rows)
  <2>1. ASSUME NEW s \in SUBSET D
        PROVE  G[s] = IF s = {} THEN evalRow(Head(rows))
                      ELSE combineResults(G[s \ {Max(s)}], evalRow(Tail(rows)[Max(s)]))
    BY <1>2, <1>4, TakenNone, Zenon
  <2> HIDE DEF first, rest
  <2>2. G = [s \in SUBSET D |-> G[s]]
    BY Zenon
  <2> HIDE DEF G
  <2> QED
    BY <2>1, <2>2, Zenon DEF Folded
<1>6. ASSUME NEW g, g = Folded(g, rows), NEW s \in SUBSET D PROVE g[s] = G[s]
  <2> DEFINE B == {Cardinality(t) : t \in {u \in SUBSET D : g[u] # G[u]}}
  <2> SUFFICES ASSUME g[s] # G[s] PROVE FALSE
    OBVIOUS
  <2>1. \A t \in SUBSET D : IsFiniteSet(t) /\ Cardinality(t) \in Nat
    <3>1. IsFiniteSet(D)
      BY <1>1, FS_Interval
    <3> HIDE DEF D
    <3> QED
      BY <3>1, FS_Subset, FS_CardinalityType
  <2> HIDE DEF G, D
  <2>2. B \subseteq Nat /\ B # {}
    BY <2>1
  <2>3. PICK x \in B : \A y \in B : ~(y < x)
    BY <2>2, Least
  <2>4. PICK t \in SUBSET D : g[t] # G[t] /\ x = Cardinality(t)
    BY <2>3
  <2>5. g[t] = IF t = {} THEN evalRow(Head(rows))
               ELSE combineResults(g[t \ {Max(t)}], evalRow(Tail(rows)[Max(t)]))
    BY <1>6, Zenon DEF Folded, D
  <2>6. G[t] = IF t = {} THEN evalRow(Head(rows))
               ELSE combineResults(G[t \ {Max(t)}], evalRow(Tail(rows)[Max(t)]))
    BY <1>5, Zenon DEF Folded, D
  <2>7. t # {}
    BY <2>4, <2>5, <2>6, Zenon
  <2>8. t \ {Max(t)} \in SUBSET D /\ Max(t) \in t
    BY <1>4, <2>7, Zenon
  <2>9. Cardinality(t \ {Max(t)}) < Cardinality(t)
    BY <2>1, <2>8, FS_RemoveElement
  <2>10. g[t \ {Max(t)}] = G[t \ {Max(t)}]
    BY <2>3, <2>4, <2>8, <2>9, Zenon
  <2> QED
    BY <2>4, <2>5, <2>6, <2>10, Zenon
<1>7. PICK c : c = (CHOOSE g : g = Folded(g, rows))
  OBVIOUS
<1>8. c = Folded(c, rows)
  BY <1>5, <1>7, Zenon
<1>9. c[D] = G[D]
  BY <1>6, <1>8, Zenon
<1>10. G[D] = Taken(first, rest, D)
  BY Zenon
<1> QED
  BY <1>7, <1>9, <1>10, FileIsFolded, Zenon

\* The result of a file is what its rows say taken together.
LEMMA FileIsTogether ==
    ASSUME RowsGood, NEW S, store \in Seq(S)
    PROVE  OrderFree
<1> SUFFICES ASSUME store # <<>>
             PROVE  LET r == processFile(store) IN
                    /\ r.qmin = Together(Seen("qmin"), Nil, Uncertain)
                    /\ r.induction = Together(Seen("induction"), Nil, Uncertain)
                    /\ r.nx = Together(Seen("nx"), Nil, Uncertain)
                    /\ r.mode = Together(Seen("mode"), "", "both")
                    /\ r.count = Len(store)
  BY DEF OrderFree
<1> DEFINE first == evalRow(Head(store))
           D == DOMAIN Tail(store)
           rest == [i \in D |-> evalRow(Tail(store)[i])]
<1>1. \A m \in DOMAIN store : GoodRow(store[m])
  BY DEF RowsGood, GoodRow
<1>2. processFile(store) = Taken(first, rest, D)
  BY <1>1, FileIsTaken, Zenon
<1>3. /\ Len(store) \in Nat \ {0} /\ D = 1 .. Len(store) - 1
      /\ DOMAIN store = 1 .. Len(store) /\ Head(store) = store[1]
      /\ \A i \in D : Tail(store)[i] = store[i + 1]
  OBVIOUS
<1>4. ASSUME NEW f PROVE Values(first, rest, D, f) = Seen(f)
  <2>1. ASSUME NEW v, v \in Values(first, rest, D, f) PROVE v \in Seen(f)
    <3>1. CASE v = first[f]
      BY <1>3, <3>1 DEF Seen
    <3>2. ASSUME NEW i \in D, v = rest[i][f] PROVE v \in Seen(f)
      <4>1. v = evalRow(store[i + 1])[f] /\ i + 1 \in DOMAIN store
        BY <1>3, <3>2
      <4> QED
        BY <4>1, Zenon DEF Seen
    <3> QED
      BY <2>1, <3>1, <3>2 DEF Values
  <2>2. ASSUME NEW v, v \in Seen(f) PROVE v \in Values(first, rest, D, f)
    <3>1. PICK m \in DOMAIN store : v = evalRow(store[m])[f]
      BY <2>2 DEF Seen
    <3>2. CASE m = 1
      BY <1>3, <3>1, <3>2 DEF Values
    <3>3. CASE m # 1
      <4>1. m - 1 \in D /\ Tail(store)[m - 1] = store[m]
        <5>1. m - 1 \in D /\ (m - 1) + 1 = m
          BY <1>3, <3>3
        <5> QED
          BY <1>3, <5>1
      <4>2. v = rest[m - 1][f]
        BY <3>1, <4>1, Zenon
      <4> QED
        BY <4>1, <4>2 DEF Values
    <3> QED
      BY <3>2, <3>3
  <2> QED
    BY <2>1, <2>2
<1>5. Cardinality(D) + 1 = Len(store)
  <2> HIDE DEF first, rest, D
  <2>1. PICK n \in Nat : n = Len(store) - 1 /\ Len(store) = n + 1
    <3>1. Len(store) \in Nat \ {0}
      BY <1>3, Zenon
    <3> QED
      BY <3>1
  <2>2. Cardinality(1 .. n) = n
    BY FS_Interval
  <2> QED
    BY <1>3, <2>1, <2>2
<1> HIDE DEF first, rest, D
<1>6. /\ Taken(first, rest, D).qmin = Together(Seen("qmin"), Nil, Uncertain)
      /\ Taken(first, rest, D).induction = Together(Seen("induction"), Nil, Uncertain)
      /\ Taken(first, rest, D).nx = Together(Seen("nx"), Nil, Uncertain)
      /\ Taken(first, rest, D).mode = Together(Seen("mode"), "", "both")
      /\ Taken(first, rest, D).count = Len(store)
  <2>1. \A f : Values(first, rest, D, f) = Seen(f)
    BY <1>4, Zenon
  <2> QED
    BY <1>5, <2>1 DEF Taken
<1> QED
  BY <1>2, <1>6

\* processFile (306-363) makes of the rows what they say taken together, in whatever
\* order the four goroutines sent them and however many are lost.
THEOREM OrderNeverMatters == Spec => []OrderFree
<1>1. Init => RowInv /\ RowsGood
  <2>1. Init => RowsGood
    <3> SUFFICES ASSUME Init PROVE RowsGood
      OBVIOUS
    <3>1. store = <<>> /\ \A k \in Kinds : rpc[k] = "off"
      BY DEF Init
    <3> QED
      BY <3>1 DEF RowsGood
  <2> QED
    BY <2>1, InitKeeps
<1>2. RowInv /\ RowsGood /\ [Next]_vars => (RowInv /\ RowsGood)'
  BY NextKeeps, NextGood
<1>3. RowInv /\ RowsGood => OrderFree
  BY FileIsTogether DEF RowInv, Types
<1> QED
  BY <1>1, <1>2, <1>3, PTL DEF Spec

-----------------------------------------------------------------------------
(***************************************************************************)
(* What the pair of queries for "a." and "b." says of a resolver is true.   *)
(* Who gets past the first label of a name was denied it, and who was       *)
(* denied it and remembers, or keeps to it, never asks for "b.".            *)
(***************************************************************************)
\* The records that the resolver and the name server keep.
IsProbe(p) ==
    \E len, num, seq, i, iseq, inum :
        p = [tokenLength |-> len, currTokenNum |-> num, tokenSequence |-> seq,
             induction |-> i, inductionSequence |-> iseq, inductionTokenNum |-> inum]
IsJob(j) ==
    \E kind, nonce, depth, top, at, target, full, b :
        j = [id |-> [kind |-> kind, nonce |-> nonce, depth |-> depth], top |-> top,
             at |-> at, target |-> target, full |-> full, behaviour |-> b]

ProbesTruly ==
    \A key \in DOMAIN probes :
        IsProbe(probes[key]) /\ (probes[key].induction <=> key.kind = "induction")

DeniedTruly ==
    \A d \in denied : d[1].kind = "nxopti" =>
        d = <<d[1], 1>> /\ \E b : <<d[1], b>> \in drawn /\ 1 \in b.steps

NxJob(j) ==
    /\ <<j.id, j.behaviour>> \in drawn /\ j.behaviour \in Behaviours
    /\ j.target = FALSE /\ j.at \in Nat /\ j.full \in BOOLEAN /\ (j.full => j.at > 0)
    /\ 1 \in j.behaviour.steps /\ j.at > 0 => <<j.id, 1>> \in denied
Job(j) == IsJob(j) /\ (j.id.kind = "nxopti" => NxJob(j))

Asking(k) == rpc[k] \in {"wait", "ask_b"} \/ (rpc[k] = "ask" /\ job[k] # NULL)
JobsTruly ==
    /\ DOMAIN job = Kinds
    /\ \A j \in stray : Job(j)
    /\ \A k \in Kinds : Asking(k) =>
          Job(job[k]) /\ (job[k].id.kind = "nxopti" <=> k = "nxopti")

\* The goroutine's own query: what it was denied before it came to "b.".
NxOwn(j, b, asks_b) ==
    /\ j.behaviour = b /\ j.top \in {"a", "b"}
    /\ 1 \in b.steps =>
          /\ j.top = "b" \/ asks_b => <<j.id, 1>> \in denied
          /\ j.top = "b" /\ j.at > 0 => ~b.strict /\ ~b.nxopt
OwnTruly ==
    Asking("nxopti") => NxOwn(job["nxopti"], behaviour["nxopti"], rpc["nxopti"] = "ask_b")

BehavedTruly == \A k \in Kinds : rpc[k] # "off" => behaviour[k] \in Behaviours

NxRow(row, b) ==
    /\ row.nxopti \in {-1, 0, 1}
    /\ ~b.mixed /\ ~Two_servers(row.id) => row.nxopti \in {-1, Truth(Optimises(b))}
SentTruly ==
    \A k \in Kinds : Sent(k) =>
        out[k].kind = k /\ (k = "nxopti" => NxRow(out[k], behaviour[k]))

NxInv == /\ ProbesTruly /\ DeniedTruly /\ JobsTruly /\ OwnTruly /\ BehavedTruly
         /\ SentTruly

-----------------------------------------------------------------------------
LEMMA ProbeIs ==
    ASSUME ProbesTruly, NEW q
    PROVE  IsProbe(Probe(q)) /\ (Probe(q).induction <=> Key(q.id).kind = "induction")
<1>1. CASE Key(q.id) \notin DOMAIN probes
  <2>1. Key(q.id) = q.id
    BY <1>1 DEF Key
  <2>2. Probe(q) = [tokenLength |-> q.id.depth, currTokenNum |-> q.labels,
                    tokenSequence |-> <<Part(q.labels - 1, q.labels, q.type)>>,
                    induction |-> q.id.kind = "induction",
                    inductionSequence |-> <<>>, inductionTokenNum |-> 0]
    BY <1>1, Zenon DEF Probe
  <2>3. IsProbe(Probe(q))
    BY <2>2, Zenon DEF IsProbe
  <2>4. Probe(q).induction = (q.id.kind = "induction")
    BY <2>2
  <2> QED
    BY <2>1, <2>3, <2>4
<1>2. CASE Key(q.id) \in DOMAIN probes
  <2>1. PICK p : p = probes[Key(q.id)]
    OBVIOUS
  <2>2. IsProbe(p) /\ (p.induction <=> Key(q.id).kind = "induction")
    BY <1>2, <2>1 DEF ProbesTruly
  <2>3. PICK len, num, seq, i, iseq, inum :
           p = [tokenLength |-> len, currTokenNum |-> num, tokenSequence |-> seq,
                induction |-> i, inductionSequence |-> iseq, inductionTokenNum |-> inum]
    BY <2>2, Zenon DEF IsProbe
  <2>4. \/ Probe(q) = [p EXCEPT !.tokenSequence = updateProbeEntry(p.tokenLength, @, q),
                          !.currTokenNum = IF stripRTypes(p.tokenSequence) < q.labels
                                           THEN q.labels ELSE @]
        \/ Probe(q) = [p EXCEPT !.inductionSequence = updateProbeEntry(p.tokenLength, @, q),
                          !.inductionTokenNum = IF stripRTypes(p.inductionSequence) < q.labels
                                                THEN q.labels ELSE @]
    BY <1>2, <2>1, Zenon DEF Probe
  <2>5. \E s, t :
           \/ Probe(q) = [tokenLength |-> len, currTokenNum |-> t, tokenSequence |-> s,
                induction |-> i, inductionSequence |-> iseq, inductionTokenNum |-> inum]
           \/ Probe(q) = [tokenLength |-> len, currTokenNum |-> num, tokenSequence |-> seq,
                induction |-> i, inductionSequence |-> s, inductionTokenNum |-> t]
    BY <2>3, <2>4
  <2>6. IsProbe(Probe(q))
    BY <2>5, Zenon DEF IsProbe
  <2>7. Probe(q).induction = p.induction
    BY <2>3, <2>5
  <2> QED
    BY <2>2, <2>6, <2>7
<1> QED
  BY <1>1, <1>2

LEMMA RequestKeeps == ASSUME ProbesTruly, NEW q, requestResponse(q) PROVE ProbesTruly'
<1>1. /\ DOMAIN probes' = DOMAIN probes \cup {Key(q.id)}
      /\ \A key \in DOMAIN probes' :
            probes'[key] = IF key = Key(q.id) THEN Probe(q) ELSE probes[key]
  BY DEF requestResponse
<1>2. ASSUME NEW key \in DOMAIN probes'
      PROVE  IsProbe(probes'[key]) /\ (probes'[key].induction <=> key.kind = "induction")
  <2>1. CASE key = Key(q.id)
    BY <1>1, <2>1, ProbeIs, Zenon
  <2>2. CASE key # Key(q.id)
    BY <1>1, <2>2, Zenon DEF ProbesTruly
  <2> QED
    BY <2>1, <2>2
<1> QED
  BY <1>2 DEF ProbesTruly, IsProbe

LEMMA AgeKeeps == ASSUME ProbesTruly, NEW old, cleanProbes(old) PROVE ProbesTruly'
<1>1. \A key \in DOMAIN probes' : key \in DOMAIN probes /\ probes'[key] = probes[key]
  BY DEF cleanProbes
<1>2. \A key \in DOMAIN probes' :
         IsProbe(probes'[key]) /\ (probes'[key].induction <=> key.kind = "induction")
  BY <1>1, Zenon DEF ProbesTruly
<1> QED
  BY <1>2 DEF ProbesTruly, IsProbe

\* The name server denies everything of nxopti but what begins with a b.
LEMMA NxReply ==
    ASSUME ProbesTruly, NEW q, q.id.kind = "nxopti"
    PROVE  Reply(q).is = IF q.b THEN "false" ELSE "nxdomain"
<1>1. Key(q.id) = q.id
  BY DEF Key
<1>2. ~Probe(q).induction
  BY <1>1, ProbeIs
<1>3. Reply(q) = Simple(Nx_rcode(q))
  BY <1>2, Zenon DEF Reply
<1> QED
  BY <1>3 DEF Simple, Nx_rcode

\* What a query of nxopti asks for next: the one label on the way, or the full name.
LEMMA NxQuery ==
    ASSUME NEW j, j.id.kind = "nxopti", NxJob(j), ~Cfg.b, NEW q, q = Next_query(j)
    PROVE  /\ q.id = j.id /\ Labels(j) = 2
           /\ \/ q.labels = 1 /\ ~q.b /\ 1 \in j.behaviour.steps /\ j.at = 0
              \/ /\ q.labels = 2 /\ (q.b <=> j.top = "b" /\ ~j.behaviour.mixed)
                 /\ 1 \in j.behaviour.steps => j.at > 0
<1>1. Labels(j) = 2
  BY DEF Labels
<1>2. /\ j.at \in Nat /\ (j.full => j.at > 0) /\ j.behaviour.steps \subseteq Nat
      /\ j.target = FALSE
  BY DEF NxJob, Behaviours
<1>3. Steps(j) = {n \in j.behaviour.steps : n < 2}
  BY <1>1, <1>2, Zenon DEF Steps
<1>4. \A n \in Left(j) : n = 1 /\ j.at = 0 /\ 1 \in j.behaviour.steps
  BY <1>2, <1>3 DEF Left
<1>5. CASE Left(j) # {}
  <2>1. PICK n : n = CHOOSE m \in Left(j) : \A l \in Left(j) : m <= l
    OBVIOUS
  <2>2. Left(j) = {1}
    BY <1>4, <1>5
  <2>3. n = 1
    BY <2>1, <2>2
  <2>4. q = [id |-> j.id, labels |-> n, type |-> "NS",
             b |-> n = 1 /\ Cfg.b /\ ~j.behaviour.mixed]
    BY <1>5, <2>1, Zenon DEF Next_query
  <2>5. q.id = j.id /\ q.labels = n /\ ~q.b
    <3>1. q.id = j.id /\ q.labels = n /\ q.b = (n = 1 /\ Cfg.b /\ ~j.behaviour.mixed)
      BY <2>4
    <3> QED
      BY <3>1, Zenon
  <2>6. j.at = 0 /\ 1 \in j.behaviour.steps
    BY <1>4, <2>2
  <2> QED
    BY <1>1, <2>3, <2>5, <2>6, Zenon
<1>6. CASE Left(j) = {}
  <2>1. q = [id |-> j.id, labels |-> Labels(j),
             type |-> IF j.behaviour.type_a /\ Steps(j) # {} /\ j.at < Labels(j)
                      THEN "A" ELSE "TXT",
             b |-> j.top = "b" /\ ~j.behaviour.mixed]
    BY <1>6, Zenon DEF Next_query
  <2>2. 1 \in j.behaviour.steps => j.at > 0
    BY <1>2, <1>3, <1>6 DEF Left
  <2>3. q.id = j.id /\ q.labels = Labels(j)
    BY <2>1
  <2>4. q.b = (j.top = "b" /\ ~j.behaviour.mixed)
    BY <2>1
  <2> QED
    BY <1>1, <2>2, <2>3, <2>4, Zenon
<1> QED
  BY <1>5, <1>6

\* The resolver goes on with a job: all but its place and its kind stays.
From(j, q, r, g) ==
    /\ IsJob(g) /\ g.behaviour = j.behaviour /\ g.top = j.top
    /\ r.is = "cname" => g.id.kind = "plain"
    /\ r.is # "cname" =>
          /\ g.id = j.id /\ g.target = j.target /\ g.at = q.labels
          /\ g.full = IF r.is = "nxdomain" THEN TRUE ELSE j.full

LEMMA GoesOn ==
    ASSUME NEW j, IsJob(j), NEW q, NEW r
    PROVE  From(j, q, r, Goes_on(j, q, r))
<1>1. PICK kind, nonce, depth, top, at, target, full, b :
         j = [id |-> [kind |-> kind, nonce |-> nonce, depth |-> depth], top |-> top,
              at |-> at, target |-> target, full |-> full, behaviour |-> b]
  BY Zenon DEF IsJob
<1>2. CASE r.is = "cname"
  <2>1. Goes_on(j, q, r) =
          [j EXCEPT !.id.kind = "plain", !.target = TRUE, !.at = 0, !.full = FALSE]
    BY <1>2, Zenon DEF Goes_on
  <2>2. Goes_on(j, q, r) =
          [id |-> [kind |-> "plain", nonce |-> nonce, depth |-> depth], top |-> top,
           at |-> 0, target |-> TRUE, full |-> FALSE, behaviour |-> b]
    <3>1. [j EXCEPT !.id.kind = "plain"] =
            [id |-> [kind |-> "plain", nonce |-> nonce, depth |-> depth], top |-> top,
             at |-> at, target |-> target, full |-> full, behaviour |-> b]
      BY <1>1
    <3>2. Goes_on(j, q, r) =
            [[[[j EXCEPT !.id.kind = "plain"] EXCEPT !.target = TRUE] EXCEPT !.at = 0]
                EXCEPT !.full = FALSE]
      BY <2>1, Zenon
    <3> QED
      BY <3>1, <3>2
  <2>3. IsJob(Goes_on(j, q, r))
    BY <2>2, Zenon DEF IsJob
  <2> QED
    BY <1>1, <1>2, <2>2, <2>3 DEF From
<1>3. CASE r.is = "nxdomain"
  <2>0. r.is # "cname"
    BY <1>3
  <2>1. Goes_on(j, q, r) = [j EXCEPT !.at = q.labels, !.full = TRUE]
    BY <1>3, <2>0, Zenon DEF Goes_on
  <2>2. Goes_on(j, q, r) =
          [id |-> [kind |-> kind, nonce |-> nonce, depth |-> depth], top |-> top,
           at |-> q.labels, target |-> target, full |-> TRUE, behaviour |-> b]
    BY <1>1, <2>1
  <2>3. IsJob(Goes_on(j, q, r))
    BY <2>2, Zenon DEF IsJob
  <2>4. /\ Goes_on(j, q, r).behaviour = b /\ Goes_on(j, q, r).top = top
        /\ Goes_on(j, q, r).id = [kind |-> kind, nonce |-> nonce, depth |-> depth]
        /\ Goes_on(j, q, r).target = target /\ Goes_on(j, q, r).at = q.labels
        /\ Goes_on(j, q, r).full = TRUE
    BY <2>2
  <2>5. /\ j.behaviour = b /\ j.top = top /\ j.target = target
        /\ j.id = [kind |-> kind, nonce |-> nonce, depth |-> depth]
    BY <1>1
  <2> QED
    BY <1>3, <2>0, <2>3, <2>4, <2>5, Zenon DEF From
<1>4. CASE r.is # "cname" /\ r.is # "nxdomain"
  <2>1. Goes_on(j, q, r) = [j EXCEPT !.at = q.labels]
    BY <1>4, Zenon DEF Goes_on
  <2>2. Goes_on(j, q, r) =
          [id |-> [kind |-> kind, nonce |-> nonce, depth |-> depth], top |-> top,
           at |-> q.labels, target |-> target, full |-> full, behaviour |-> b]
    BY <1>1, <2>1
  <2>3. IsJob(Goes_on(j, q, r))
    BY <2>2, Zenon DEF IsJob
  <2>4. /\ Goes_on(j, q, r).behaviour = b /\ Goes_on(j, q, r).top = top
        /\ Goes_on(j, q, r).id = [kind |-> kind, nonce |-> nonce, depth |-> depth]
        /\ Goes_on(j, q, r).target = target /\ Goes_on(j, q, r).at = q.labels
        /\ Goes_on(j, q, r).full = full
    BY <2>2
  <2>5. /\ j.behaviour = b /\ j.top = top /\ j.target = target /\ j.full = full
        /\ j.id = [kind |-> kind, nonce |-> nonce, depth |-> depth]
    BY <1>1
  <2> QED
    BY <1>4, <2>3, <2>4, <2>5, Zenon DEF From
<1> QED
  BY <1>2, <1>3, <1>4

\* A request of nxopti and its answer.
LEMMA NxRequest ==
    ASSUME ProbesTruly, ~Cfg.b, NEW j, j.id.kind = "nxopti", NxJob(j),
           NEW q, q = Next_query(j), NEW r, r = Reply(q)
    PROVE  \/ /\ q.labels = 1 /\ 1 \in j.behaviour.steps /\ j.at = 0
              /\ r.is = "nxdomain" /\ Denied(j, q, r) = denied \cup {<<j.id, 1>>}
              /\ Ends(j, q, r) <=> j.behaviour.strict
           \/ /\ q.labels = 2 /\ (1 \in j.behaviour.steps => j.at > 0)
              /\ r.is = IF j.top = "b" /\ ~j.behaviour.mixed THEN "false" ELSE "nxdomain"
              /\ r.is = "nxdomain" => Ends(j, q, r)
              /\ Denied(j, q, r) = denied
<1>1. /\ q.id = j.id /\ Labels(j) = 2
      /\ \/ q.labels = 1 /\ ~q.b /\ 1 \in j.behaviour.steps /\ j.at = 0
         \/ /\ q.labels = 2 /\ (q.b <=> j.top = "b" /\ ~j.behaviour.mixed)
            /\ 1 \in j.behaviour.steps => j.at > 0
  BY NxQuery, Zenon
<1>2. r.is = IF q.b THEN "false" ELSE "nxdomain"
  BY <1>1, NxReply, Zenon
<1>3. Is_full(j, q) <=> q.labels = 2
  BY <1>1 DEF Is_full
<1>4. CASE q.labels = 1 /\ ~q.b /\ 1 \in j.behaviour.steps /\ j.at = 0
  BY <1>2, <1>3, <1>4 DEF Ends, Denied, Is_final
<1>5. CASE q.labels = 2 /\ (q.b <=> j.top = "b" /\ ~j.behaviour.mixed)
            /\ (1 \in j.behaviour.steps => j.at > 0)
  BY <1>2, <1>3, <1>5 DEF Ends, Denied
<1> QED
  BY <1>1, <1>4, <1>5

-----------------------------------------------------------------------------
\* What a goroutine makes of an outcome: only its own row and stage change.
NxMoves(k, j, res) ==
    \/ /\ j.top = "a" /\ res = "nxdomain" /\ out' = out
       /\ rpc' = [rpc EXCEPT ![k] = "ask_b"]
    \/ /\ rpc' = [rpc EXCEPT ![k] = "send"]
       /\ \E row : /\ out' = [out EXCEPT ![k] = row]
                   /\ row.kind = k /\ row.id = j.id
                   /\ \/ row.nxopti = -1
                      \/ row.nxopti = 1 /\ j.top = "b" /\ res = "nxdomain"
                      \/ row.nxopti = 0 /\ j.top = "b" /\ res \in {"false", "ok"}

LEMMA NxOutcome ==
    ASSUME NEW k \in Kinds, k = "nxopti", job[k].top \in {"a", "b"},
           NEW res, NEW seq, NEW ind, Outcome(k, res, seq, ind)
    PROVE  NxMoves(k, job[k], res)
<1>2. ASSUME NEW n, NEW e, NEW s, NEW i, Send(k, Row(k, e, s, i, n))
      PROVE  /\ rpc' = [rpc EXCEPT ![k] = "send"]
             /\ \E row : /\ out' = [out EXCEPT ![k] = row]
                         /\ row.kind = k /\ row.id = job[k].id /\ row.nxopti = n
  <2>1. PICK row : row = Row(k, e, s, i, n)
    OBVIOUS
  <2>2. row.kind = k /\ row.id = job[k].id /\ row.nxopti = n
    BY <2>1 DEF Row
  <2>3. out' = [out EXCEPT ![k] = row] /\ rpc' = [rpc EXCEPT ![k] = "send"]
    BY <1>2, <2>1, Zenon DEF Send
  <2> QED
    BY <2>2, <2>3
<1>3. CASE job[k].top = "a" /\ res # "nxdomain"
  <2>2. Send(k, Row(k, res, seq, ind, -1))
    BY <1>3, Zenon DEF Outcome
  <2>3. /\ rpc' = [rpc EXCEPT ![k] = "send"]
        /\ \E row : /\ out' = [out EXCEPT ![k] = row]
                    /\ row.kind = k /\ row.id = job[k].id /\ row.nxopti = -1
    BY <1>2, <2>2, Zenon
  <2> QED
    BY <1>3, <2>3 DEF NxMoves
<1>4. CASE job[k].top = "a" /\ res = "nxdomain"
  BY <1>4 DEF Outcome, NxMoves
<1>5. CASE job[k].top = "b" /\ res = "nxdomain"
  <2>1. job[k].top # "a"
    BY <1>5
  <2>2. Send(k, Row(k, res, seq, ind, 1))
    BY <1>5, <2>1, Zenon DEF Outcome
  <2>3. /\ rpc' = [rpc EXCEPT ![k] = "send"]
        /\ \E row : /\ out' = [out EXCEPT ![k] = row]
                    /\ row.kind = k /\ row.id = job[k].id /\ row.nxopti = 1
    BY <1>2, <2>2, Zenon
  <2> QED
    BY <1>5, <2>3 DEF NxMoves
<1>6. CASE job[k].top = "b" /\ res \in {"false", "ok"}
  <2>1. job[k].top # "a" /\ res # "nxdomain"
    BY <1>6
  <2>2. Send(k, Row(k, res, seq, ind, 0))
    BY <1>6, <2>1, Zenon DEF Outcome
  <2>3. /\ rpc' = [rpc EXCEPT ![k] = "send"]
        /\ \E row : /\ out' = [out EXCEPT ![k] = row]
                    /\ row.kind = k /\ row.id = job[k].id /\ row.nxopti = 0
    BY <1>2, <2>2, Zenon
  <2> QED
    BY <1>6, <2>3 DEF NxMoves
<1>7. CASE job[k].top = "b" /\ res \notin {"nxdomain", "false", "ok"}
  <2>1. job[k].top # "a" /\ res # "nxdomain" /\ res \notin {"false", "ok"}
    BY <1>7
  <2>2. Send(k, Row(k, "nxdomain", <<>>, <<>>, -1))
    BY <1>7, <2>1, Zenon DEF Outcome
  <2>3. /\ rpc' = [rpc EXCEPT ![k] = "send"]
        /\ \E row : /\ out' = [out EXCEPT ![k] = row]
                    /\ row.kind = k /\ row.id = job[k].id /\ row.nxopti = -1
    BY <1>2, <2>2, Zenon
  <2> QED
    BY <1>7, <2>3 DEF NxMoves
<1> QED
  BY <1>3, <1>4, <1>5, <1>6, <1>7

LEMMA OtherOutcome ==
    ASSUME NEW k \in Kinds, k # "nxopti", NEW res, NEW seq, NEW ind,
           Outcome(k, res, seq, ind)
    PROVE  /\ rpc' = [rpc EXCEPT ![k] = "send"]
           /\ \E row : row.kind = k /\ out' = [out EXCEPT ![k] = row]
<1>1. Send(k, Row(k, res, seq, ind, -1))
  BY Zenon DEF Outcome
<1>2. Row(k, res, seq, ind, -1).kind = k
  BY DEF Row
<1> QED
  BY <1>1, <1>2, Zenon DEF Send

\* What has been drawn and denied only grows.
Grows == Cfg' = Cfg /\ drawn \subseteq drawn' /\ denied \subseteq denied'

LEMMA JobGrows == ASSUME Grows, NEW j, Job(j) PROVE Job(j)'
<1>1. IsJob(j)'
  BY DEF Job, IsJob
<1>2. ASSUME j.id.kind = "nxopti", NxJob(j) PROVE NxJob(j)'
  BY <1>2 DEF NxJob, Grows
<1> QED
  BY <1>1, <1>2 DEF Job

LEMMA OwnGrows ==
    ASSUME Grows, NEW j, NEW b, NEW a \in BOOLEAN, NxOwn(j, b, a)
    PROVE  NxOwn(j, b, a)'
BY DEF NxOwn, Grows

LEMMA RowGrows ==
    ASSUME Grows, NEW row, NEW b, NxRow(row, b)
    PROVE  NxRow(row, b)'
<1>1. Two_servers(row.id) => Two_servers(row.id)'
  BY DEF Grows, Two_servers
<1> QED
  BY <1>1 DEF NxRow, Grows

\* One goroutine moves, and what is new about it is true.
LEMMA OneMoves ==
    ASSUME RowInv, NxInv, Grows, NEW k \in Kinds, rpc[k] # "off", behaviour' = behaviour,
           \A i \in Kinds \ {k} : rpc'[i] = rpc[i] /\ job'[i] = job[i] /\ out'[i] = out[i],
           NEW j, j = job'[k], NEW row, row = out'[k], NEW b, b = behaviour[k],
           Asking(k)' => Job(j)' /\ (j.id.kind = "nxopti" <=> k = "nxopti"),
           k = "nxopti" /\ Asking(k)' =>
               \E a \in BOOLEAN : a = (rpc'[k] = "ask_b") /\ NxOwn(j, b, a)',
           Sent(k)' => row.kind = k /\ (k = "nxopti" => NxRow(row, b)'),
           \A s \in stray' : s \in stray \/ Job(s)',
           ProbesTruly', DeniedTruly', DOMAIN job' = DOMAIN job
    PROVE  NxInv'
<1>1. \A s \in stray' : Job(s)'
  BY JobGrows DEF NxInv, JobsTruly
<1>2. ASSUME NEW i \in Kinds, Asking(i)'
      PROVE  Job(job[i])' /\ (job'[i].id.kind = "nxopti" <=> i = "nxopti")
  <2>1. CASE i = k
    <3>1. Job(j)' /\ (j.id.kind = "nxopti" <=> i = "nxopti")
      BY <1>2, <2>1
    <3>2. IsJob(j)
      BY <3>1 DEF Job, IsJob
    <3>3. j.id.kind = "nxopti" => NxJob(j)'
      BY <3>1 DEF Job
    <3>4. j.id.kind = "nxopti" => NxJob(job[i])'
      BY <2>1, <3>3 DEF NxJob
    <3>5. IsJob(job'[i])
      BY <2>1, <3>2, Zenon
    <3> QED
      BY <2>1, <3>1, <3>4, <3>5 DEF Job, IsJob
  <2>2. CASE i # k
    <3>1. PICK h : h = job[i]
      OBVIOUS
    <3>2. Asking(i) /\ job'[i] = h
      BY <1>2, <2>2, <3>1 DEF Asking
    <3>3. Job(h) /\ (h.id.kind = "nxopti" <=> i = "nxopti")
      BY <3>1, <3>2, Zenon DEF NxInv, JobsTruly
    <3>4. Job(h)'
      BY <3>3, JobGrows
    <3>5. IsJob(h)
      BY <3>3 DEF Job
    <3>6. h.id.kind = "nxopti" => NxJob(h)'
      BY <3>4 DEF Job
    <3>7. h.id.kind = "nxopti" => NxJob(job[i])'
      BY <3>2, <3>6 DEF NxJob
    <3>8. IsJob(job'[i])
      BY <3>2, <3>5, Zenon
    <3> QED
      BY <3>2, <3>3, <3>7, <3>8 DEF Job, IsJob
  <2> QED
    BY <2>1, <2>2
<1>3. JobsTruly'
  BY <1>1, <1>2 DEF JobsTruly, NxInv
<1>4. ASSUME Asking("nxopti")' PROVE OwnTruly'
  <2>0. "nxopti" \in Kinds
    BY DEF Kinds
  <2>1. CASE k = "nxopti"
    <3>1. PICK a \in BOOLEAN : a = (rpc'[k] = "ask_b") /\ NxOwn(j, b, a)'
      BY <1>4, <2>1
    <3> QED
      BY <2>1, <3>1 DEF OwnTruly, NxOwn
  <2>2. CASE k # "nxopti"
    <3>1. PICK h, c : h = job["nxopti"] /\ c = behaviour["nxopti"]
      OBVIOUS
    <3>2. PICK a \in BOOLEAN : a = (rpc["nxopti"] = "ask_b")
      OBVIOUS
    <3>3. /\ Asking("nxopti") /\ job'["nxopti"] = h /\ behaviour'["nxopti"] = c
          /\ a = (rpc'["nxopti"] = "ask_b")
      BY <1>4, <2>0, <2>2, <3>1, <3>2 DEF Asking
    <3>4. NxOwn(h, c, a)
      BY <3>1, <3>2, <3>3 DEF NxInv, OwnTruly
    <3>5. NxOwn(h, c, a)'
      BY <3>4, OwnGrows
    <3> QED
      BY <3>3, <3>5 DEF OwnTruly, NxOwn
  <2> QED
    BY <2>1, <2>2
<1>5. OwnTruly'
  BY <1>4 DEF OwnTruly
<1>6. BehavedTruly'
  BY DEF NxInv, BehavedTruly
<1>7. ASSUME NEW i \in Kinds, Sent(i)'
      PROVE  out'[i].kind = i /\ (i = "nxopti" => NxRow(out[i], behaviour[i])')
  <2>1. CASE i = k
    <3>1. row.kind = i /\ (i = "nxopti" => NxRow(row, b)')
      BY <1>7, <2>1
    <3> QED
      BY <2>1, <3>1 DEF NxRow, Two_servers
  <2>2. CASE i # k
    <3>1. PICK h, c : h = out[i] /\ c = behaviour[i]
      OBVIOUS
    <3>2. Sent(i) /\ out'[i] = h /\ behaviour'[i] = c
      BY <1>7, <2>2, <3>1 DEF Sent
    <3>3. h.kind = i /\ (i = "nxopti" => NxRow(h, c))
      BY <3>1, <3>2, Zenon DEF NxInv, SentTruly
    <3>4. i = "nxopti" => NxRow(h, c)'
      BY <3>3, RowGrows
    <3> QED
      BY <3>2, <3>3, <3>4 DEF NxRow, Two_servers
  <2> QED
    BY <2>1, <2>2
<1>8. SentTruly'
  BY <1>7 DEF SentTruly
<1> QED
  BY <1>3, <1>5, <1>6, <1>8 DEF NxInv

LEMMA NxEnding ==
    ASSUME NEW r, r.is \in {"nxdomain", "false"}
    PROVE  Ending(r) = r.is /\ r.is \in Errors \cup {"ok"}
<1>1. r.is # "txt" /\ r.is \notin {"nodata", "ns"}
  OBVIOUS
<1>2. Ending(r) = r.is
  BY <1>1, Zenon DEF Ending
<1> QED
  BY <1>2 DEF Errors

\* nxopti's own query is answered: denied on the way, or at its full name.
LEMMA NxResolve ==
    ASSUME RowInv, NxInv, ~Cfg.b, NEW k \in Kinds, k = "nxopti", Resolve(k)
    PROVE  NxInv'
<1>1. PICK j, q, r, b : j = job[k] /\ q = Next_query(j) /\ r = Reply(q) /\ b = behaviour[k]
  OBVIOUS
<1>2. /\ rpc[k] = "wait" /\ ~Known_denied(j) /\ requestResponse(q)
      /\ denied' = Denied(j, q, r)
      /\ \/ Ends(j, q, r) /\ Outcome(k, Ending(r), r.seq, r.ind) /\ job' = job
         \/ /\ ~Ends(j, q, r) /\ job' = [job EXCEPT ![k] = Goes_on(j, q, r)]
            /\ rpc' = rpc /\ out' = out
      /\ Cfg' = Cfg /\ behaviour' = behaviour /\ stray' = stray /\ drawn' = drawn
  BY <1>1 DEF Resolve, idVars
<1>3. Job(j) /\ IsJob(j) /\ NxJob(j) /\ j.id.kind = "nxopti"
  BY <1>1, <1>2 DEF NxInv, JobsTruly, Asking, Job
<1>4. NxOwn(j, b, FALSE)
  <2>1. NxOwn(j, b, rpc[k] = "ask_b")
    BY <1>1, <1>2 DEF NxInv, OwnTruly, Asking
  <2> QED
    BY <1>2, <2>1 DEF NxOwn
<1>5. \/ /\ q.labels = 1 /\ 1 \in b.steps /\ j.at = 0
         /\ r.is = "nxdomain" /\ denied' = denied \cup {<<j.id, 1>>}
         /\ Ends(j, q, r) <=> b.strict
      \/ /\ q.labels = 2 /\ (1 \in b.steps => j.at > 0)
         /\ r.is = IF j.top = "b" /\ ~b.mixed THEN "false" ELSE "nxdomain"
         /\ r.is = "nxdomain" => Ends(j, q, r)
         /\ denied' = denied
  <2>1. j.behaviour = b
    BY <1>4 DEF NxOwn
  <2>2. ProbesTruly
    BY DEF NxInv
  <2> QED
    BY <1>1, <1>2, <1>3, <2>1, <2>2, NxRequest
<1>6. Grows /\ ProbesTruly'
  BY <1>2, <1>5, RequestKeeps DEF Grows, NxInv
<1>7. <<j.id, b>> \in drawn /\ j.behaviour = b
  BY <1>3, <1>4 DEF NxJob, NxOwn
<1>8. DeniedTruly'
  <2>1. ASSUME NEW d \in denied', d[1].kind = "nxopti"
        PROVE  d = <<d[1], 1>> /\ \E c : <<d[1], c>> \in drawn' /\ 1 \in c.steps
    <3>1. CASE d \in denied
      BY <1>2, <2>1, <3>1 DEF NxInv, DeniedTruly
    <3>2. CASE d = <<j.id, 1>> /\ 1 \in b.steps
      BY <1>2, <1>7, <3>2
    <3> QED
      BY <1>5, <2>1, <3>1, <3>2
  <2> QED
    BY <2>1 DEF DeniedTruly
<1>9. 1 \in b.steps => <<j.id, 1>> \in denied'
  BY <1>3, <1>5, <1>7 DEF NxJob
<1>10. /\ DOMAIN out = Kinds /\ rpc \in [Kinds -> Stages]
       /\ r.is \in {"nxdomain", "false"} /\ Job(j)'
  BY <1>3, <1>5, <1>6, JobGrows DEF RowInv, Types
<1>11. CASE /\ Ends(j, q, r) /\ job' = job /\ j.top = "a" /\ out' = out
            /\ rpc' = [rpc EXCEPT ![k] = "ask_b"]
  <2>1. NxOwn(j, b, TRUE)'
    BY <1>4, <1>9, <1>11 DEF NxOwn
  <2>2. rpc'[k] = "ask_b" /\ ~Sent(k)'
    BY <1>10, <1>11 DEF Sent
  <2>3. PICK row : row = out'[k]
    OBVIOUS
  <2> QED
    <3>1. \A i \in Kinds \ {k} : rpc'[i] = rpc[i] /\ job'[i] = job[i] /\ out'[i] = out[i]
      BY <1>10, <1>11
    <3>2. j = job'[k]
      BY <1>1, <1>11
    <3>3. \E a \in BOOLEAN : a = (rpc'[k] = "ask_b") /\ NxOwn(j, b, a)'
      BY <2>1, <2>2
    <3> QED
      BY <1>1, <1>2, <1>3, <1>6, <1>8, <1>10, <2>2, <2>3, <3>1, <3>2, <3>3, OneMoves
<1>12. ASSUME Ends(j, q, r), job' = job, rpc' = [rpc EXCEPT ![k] = "send"], NEW row,
              out' = [out EXCEPT ![k] = row], row.kind = k, row.id = j.id,
              \/ row.nxopti = -1
              \/ row.nxopti = 1 /\ j.top = "b" /\ r.is = "nxdomain"
              \/ row.nxopti = 0 /\ j.top = "b" /\ r.is \in {"false", "ok"}
       PROVE  NxInv'
  <2>1. row.nxopti = 1 /\ ~b.mixed => 1 \in b.steps /\ b.strict
    BY <1>5, <1>12
  <2>2. row.nxopti = 0 => ~(1 \in b.steps /\ (b.strict \/ b.nxopt))
    BY <1>4, <1>5, <1>12 DEF NxOwn
  <2>3. NxRow(row, b)'
    BY <1>12, <2>1, <2>2 DEF NxRow, Optimises, Truth
  <2>4. \A i \in Kinds \ {k} : rpc'[i] = rpc[i] /\ job'[i] = job[i] /\ out'[i] = out[i]
    BY <1>10, <1>12
  <2>5. j = job'[k] /\ row = out'[k] /\ ~Asking(k)'
    BY <1>1, <1>10, <1>12 DEF Asking
  <2> QED
    BY <1>1, <1>2, <1>6, <1>8, <1>12, <2>3, <2>4, <2>5, OneMoves
<1>13. CASE /\ ~Ends(j, q, r) /\ job' = [job EXCEPT ![k] = Goes_on(j, q, r)]
            /\ rpc' = rpc /\ out' = out
  <2>1. PICK g : g = Goes_on(j, q, r)
    OBVIOUS
  <2>2. /\ IsJob(g) /\ g.behaviour = b /\ g.top = j.top /\ g.id = j.id
        /\ g.target = j.target /\ g.at = q.labels
        /\ g.full = IF r.is = "nxdomain" THEN TRUE ELSE j.full
    <3>1. From(j, q, r, g)
      BY <1>3, <2>1, GoesOn, Zenon
    <3> QED
      BY <1>7, <1>10, <3>1 DEF From
  <2>3. g.at \in {1, 2}
    BY <1>5, <2>2
  <2>4. NxJob(g)'
    <3>1. /\ <<g.id, g.behaviour>> \in drawn' /\ g.behaviour \in Behaviours
          /\ g.target = FALSE /\ g.at \in Nat /\ g.at > 0
      BY <1>2, <1>3, <1>7, <2>2, <2>3 DEF NxJob
    <3>2. g.full \in BOOLEAN
      BY <1>3, <2>2 DEF NxJob
    <3>3. 1 \in g.behaviour.steps => <<g.id, 1>> \in denied'
      BY <1>9, <2>2
    <3> QED
      BY <3>1, <3>2, <3>3 DEF NxJob
  <2>5. j.top = "b" /\ 1 \in b.steps => ~b.strict /\ ~b.nxopt
    <3>1. CASE j.at = 0
      <4>1. j.top = "b" /\ 1 \in b.steps => ~b.strict /\ <<j.id, 1>> \in denied
        BY <1>4, <1>5, <1>13, <3>1 DEF NxOwn
      <4>2. Labels(j) = 2 /\ 1 < 2
        BY <1>3 DEF Labels
      <4>3. <<j.id, 1>> \in denied => ~b.nxopt
        <5>1. <<j.id, 1>>[1] = j.id /\ <<j.id, 1>>[2] = 1
          OBVIOUS
        <5> QED
          BY <1>2, <1>7, <3>1, <4>2, <5>1, Zenon DEF Known_denied
      <4> QED
        BY <4>1, <4>3
    <3>2. CASE j.at # 0
      BY <1>3, <1>4, <3>2 DEF NxOwn, NxJob
    <3> QED
      BY <3>1, <3>2
  <2>6. NxOwn(g, b, FALSE)'
    BY <1>4, <1>9, <2>2, <2>5 DEF NxOwn
  <2>7. \A i \in Kinds \ {k} : rpc'[i] = rpc[i] /\ job'[i] = job[i] /\ out'[i] = out[i]
    BY <1>13
  <2>8. job'[k] = g /\ DOMAIN job' = DOMAIN job
    BY <1>13, <2>1 DEF NxInv, JobsTruly
  <2>9. Job(g)' /\ g.id.kind = "nxopti"
    BY <1>3, <2>2, <2>4 DEF Job, IsJob
  <2>10. ~Sent(k)' /\ rpc'[k] = "wait"
    BY <1>2, <1>13 DEF Sent
  <2>11. PICK row : row = out'[k]
    OBVIOUS
  <2>12. \E a \in BOOLEAN : a = (rpc'[k] = "ask_b") /\ NxOwn(g, b, a)'
    BY <2>6, <2>10
  <2> QED
    <3>1. Asking(k)' => Job(g)' /\ (g.id.kind = "nxopti" <=> k = "nxopti")
      BY <2>9
    <3>2. rpc[k] # "off" /\ \A s \in stray' : s \in stray \/ Job(s)'
      BY <1>2
    <3>3. g = job'[k] /\ DOMAIN job' = DOMAIN job
      BY <2>8
    <3>4. Grows /\ behaviour' = behaviour /\ ProbesTruly' /\ DeniedTruly'
      BY <1>2, <1>6, <1>8
    <3>5. b = behaviour[k] /\ row = out'[k]
      BY <1>1, <2>11
    <3>6. Sent(k)' => row.kind = k /\ (k = "nxopti" => NxRow(row, b)')
      BY <2>10
    <3>7. k = "nxopti" /\ Asking(k)' =>
             \E a \in BOOLEAN : a = (rpc'[k] = "ask_b") /\ NxOwn(g, b, a)'
      BY <2>12
    <3> QED
      BY <2>7, <3>1, <3>2, <3>3, <3>4, <3>5, <3>6, <3>7, OneMoves
<1>14. CASE Ends(j, q, r) /\ Outcome(k, Ending(r), r.seq, r.ind) /\ job' = job
  <2>1. Ending(r) = r.is /\ r.is \in Errors \cup {"ok"}
    BY <1>10, NxEnding
  <2>2. NxMoves(k, j, r.is)
    <3>1. job[k].top \in {"a", "b"}
      BY <1>1, <1>4 DEF NxOwn
    <3>2. Outcome(k, r.is, r.seq, r.ind)
      BY <1>14, <2>1, Zenon
    <3>3. NxMoves(k, job[k], r.is)
      BY <3>1, <3>2, NxOutcome, Zenon
    <3> QED
      BY <1>1, <3>3, Zenon
  <2> QED
    BY <1>11, <1>12, <1>14, <2>2 DEF NxMoves
<1> QED
  BY <1>2, <1>13, <1>14

\* nxopti's own query is answered from a denial that the resolver remembers.
LEMMA NxRemembers ==
    ASSUME RowInv, NxInv, ~Cfg.b, NEW k \in Kinds, k = "nxopti", Resolve_denied(k)
    PROVE  NxInv'
<1>1. PICK j, b : j = job[k] /\ b = behaviour[k]
  OBVIOUS
<1>2. /\ rpc[k] = "wait" /\ Known_denied(j) /\ Outcome(k, "nxdomain", <<>>, <<>>)
      /\ Cfg' = Cfg /\ behaviour' = behaviour /\ stray' = stray /\ drawn' = drawn
      /\ denied' = denied /\ probes' = probes /\ job' = job
  BY <1>1 DEF Resolve_denied, idVars, resolverVars
<1>3. Job(j) /\ NxJob(j) /\ j.id.kind = "nxopti"
  BY <1>1, <1>2 DEF NxInv, JobsTruly, Asking, Job
<1>4. NxOwn(j, b, FALSE)
  <2>1. NxOwn(j, b, rpc[k] = "ask_b")
    BY <1>1, <1>2 DEF NxInv, OwnTruly, Asking
  <2> QED
    BY <1>2, <2>1 DEF NxOwn
<1>5. Grows /\ ProbesTruly' /\ DeniedTruly' /\ Job(j)'
  <2>1. Grows /\ ProbesTruly' /\ DeniedTruly'
    BY <1>2 DEF Grows, NxInv, ProbesTruly, DeniedTruly, IsProbe
  <2> QED
    BY <1>3, <2>1, JobGrows
<1>6. /\ <<j.id, 1>> \in denied /\ b.nxopt
      /\ \E c : <<j.id, c>> \in drawn /\ 1 \in c.steps
  <2>1. PICK d \in denied : d[1] = j.id /\ j.behaviour.nxopt
    BY <1>2, Zenon DEF Known_denied
  <2>2. d = <<j.id, 1>> /\ \E c : <<j.id, c>> \in drawn /\ 1 \in c.steps
    BY <1>3, <2>1 DEF NxInv, DeniedTruly
  <2> QED
    BY <1>4, <2>1, <2>2 DEF NxOwn
<1>7. NxMoves(k, j, "nxdomain")
  <2>1. job[k].top \in {"a", "b"}
    BY <1>1, <1>4 DEF NxOwn
  <2>2. NxMoves(k, job[k], "nxdomain")
    BY <1>2, <2>1, NxOutcome, Zenon
  <2> QED
    BY <1>1, <2>2, Zenon
<1>8. DOMAIN out = Kinds /\ rpc \in [Kinds -> Stages]
  BY DEF RowInv, Types
<1>9. /\ \A i \in Kinds \ {k} : rpc'[i] = rpc[i] /\ job'[i] = job[i] /\ out'[i] = out[i]
      /\ j = job'[k] /\ DOMAIN job' = DOMAIN job
  BY <1>1, <1>2, <1>7, <1>8 DEF NxMoves
<1>10. CASE rpc' = [rpc EXCEPT ![k] = "ask_b"] /\ j.top = "a"
  <2>1. NxOwn(j, b, TRUE)'
    BY <1>2, <1>4, <1>6, <1>10 DEF NxOwn
  <2>2. rpc'[k] = "ask_b" /\ ~Sent(k)'
    BY <1>8, <1>10 DEF Sent
  <2>3. PICK row : row = out'[k]
    OBVIOUS
  <2>4. \E a \in BOOLEAN : a = (rpc'[k] = "ask_b") /\ NxOwn(j, b, a)'
    BY <2>1, <2>2
  <2> QED
    BY <1>1, <1>2, <1>3, <1>5, <1>9, <2>2, <2>3, <2>4, OneMoves
<1>11. ASSUME rpc' = [rpc EXCEPT ![k] = "send"], NEW row,
              out' = [out EXCEPT ![k] = row], row.kind = k, row.id = j.id,
              row.nxopti \in {-1, 1}
       PROVE  NxInv'
  <2>1. ~Two_servers(j.id) => 1 \in b.steps
    <3>1. PICK c : <<j.id, c>> \in drawn /\ 1 \in c.steps
      BY <1>6
    <3>2. <<j.id, b>> \in drawn
      BY <1>3, <1>4 DEF NxJob, NxOwn
    <3>3. c # b => Two_servers(j.id)
      BY <3>1, <3>2 DEF Two_servers
    <3> QED
      BY <3>1, <3>3
  <2>2. Two_servers(j.id) => Two_servers(j.id)'
    BY <1>2 DEF Two_servers
  <2>3. NxRow(row, b)'
    BY <1>6, <1>11, <2>1, <2>2 DEF NxRow, Optimises, Truth
  <2>4. row = out'[k] /\ ~Asking(k)'
    BY <1>8, <1>11 DEF Asking
  <2> QED
    BY <1>1, <1>2, <1>5, <1>9, <1>11, <2>3, <2>4, OneMoves
<1> QED
  BY <1>7, <1>10, <1>11 DEF NxMoves

\* nxopti's own query is over without an answer: it is asked again, or reported.
LEMMA NxTimeout ==
    ASSUME RowInv, NxInv, ~Cfg.b, NEW k \in Kinds, k = "nxopti", Timeout(k)
    PROVE  NxInv'
<1>1. PICK j, b : j = job[k] /\ b = behaviour[k]
  OBVIOUS
<1>2. /\ rpc[k] = "wait"
      /\ \/ rpc' = [rpc EXCEPT ![k] = "ask"] /\ out' = out
         \/ Outcome(k, "timeout", <<>>, <<>>)
      /\ Cfg' = Cfg /\ behaviour' = behaviour /\ stray' = stray \cup {j} /\ drawn' = drawn
      /\ denied' = denied /\ probes' = probes /\ job' = job
  BY <1>1 DEF Timeout, idVars
<1>3. Job(j) /\ j.id.kind = "nxopti"
  BY <1>1, <1>2 DEF NxInv, JobsTruly, Asking, Job
<1>4. NxOwn(j, b, FALSE)
  <2>1. NxOwn(j, b, rpc[k] = "ask_b")
    BY <1>1, <1>2 DEF NxInv, OwnTruly, Asking
  <2> QED
    BY <1>2, <2>1 DEF NxOwn
<1>5. Grows /\ ProbesTruly' /\ DeniedTruly' /\ Job(j)'
  <2>1. Grows /\ ProbesTruly' /\ DeniedTruly'
    BY <1>2 DEF Grows, NxInv, ProbesTruly, DeniedTruly, IsProbe
  <2> QED
    BY <1>3, <2>1, JobGrows
<1>6. DOMAIN out = Kinds /\ rpc \in [Kinds -> Stages]
  BY DEF RowInv, Types
<1>7. /\ j = job'[k] /\ DOMAIN job' = DOMAIN job /\ \A i \in Kinds \ {k} : job'[i] = job[i]
      /\ \A s \in stray' : s \in stray \/ Job(s)'
  BY <1>1, <1>2, <1>5
<1>8. CASE rpc' = [rpc EXCEPT ![k] = "ask"] /\ out' = out
  <2>1. rpc'[k] = "ask" /\ ~Sent(k)' /\ (rpc'[k] = "ask_b") = FALSE
    BY <1>6, <1>8 DEF Sent
  <2>2. \E a \in BOOLEAN : a = (rpc'[k] = "ask_b") /\ NxOwn(j, b, a)'
    BY <1>4, <1>5, <2>1, OwnGrows
  <2>3. PICK row : row = out'[k]
    OBVIOUS
  <2>4. \A i \in Kinds \ {k} : rpc'[i] = rpc[i] /\ job'[i] = job[i] /\ out'[i] = out[i]
    BY <1>6, <1>7, <1>8
  <2> QED
    BY <1>1, <1>2, <1>3, <1>5, <1>7, <2>1, <2>2, <2>3, <2>4, OneMoves
<1>9. CASE Outcome(k, "timeout", <<>>, <<>>)
  <2>1. NxMoves(k, j, "timeout")
    <3>1. job[k].top \in {"a", "b"}
      BY <1>1, <1>4 DEF NxOwn
    <3>2. NxMoves(k, job[k], "timeout")
      BY <1>9, <3>1, NxOutcome, Zenon
    <3> QED
      BY <1>1, <3>2, Zenon
  <2>2. PICK row : /\ rpc' = [rpc EXCEPT ![k] = "send"] /\ out' = [out EXCEPT ![k] = row]
                   /\ row.kind = k /\ row.nxopti = -1
    BY <2>1 DEF NxMoves
  <2>3. NxRow(row, b)'
    BY <2>2 DEF NxRow
  <2>4. \A i \in Kinds \ {k} : rpc'[i] = rpc[i] /\ job'[i] = job[i] /\ out'[i] = out[i]
    BY <1>6, <1>7, <2>2
  <2>5. row = out'[k] /\ ~Asking(k)'
    BY <1>6, <2>2 DEF Asking
  <2> QED
    BY <1>1, <1>2, <1>5, <1>7, <2>2, <2>3, <2>4, <2>5, OneMoves
<1> QED
  BY <1>2, <1>8, <1>9

\* A query is asked: under a new id, or for "b." or once more under the same.
LEMMA QueryNewKeeps ==
    ASSUME RowInv, NxInv, NEW k \in Kinds, Query_new(k)
    PROVE  NxInv'
<1>1. PICK n : /\ drawn' = drawn \cup {<<domainAssembly(k, n), behaviour[k]>>}
               /\ Query_at(k, domainAssembly(k, n), "a")
  BY DEF Query_new
<1>2. PICK j, b, row : /\ b = behaviour[k] /\ row = out'[k]
                       /\ j = [id |-> domainAssembly(k, n), top |-> "a", at |-> 0,
                               target |-> FALSE, full |-> FALSE, behaviour |-> b]
  OBVIOUS
<1>3. /\ rpc[k] = "ask" /\ rpc' = [rpc EXCEPT ![k] = "wait"] /\ out' = out
      /\ Cfg' = Cfg /\ behaviour' = behaviour /\ stray' = stray /\ denied' = denied
      /\ probes' = probes
  BY DEF Query_new
<1>4. job' = [job EXCEPT ![k] = j]
  BY <1>1, <1>2 DEF Query_at
<1>5. DOMAIN out = Kinds /\ rpc \in [Kinds -> Stages] /\ DOMAIN job = Kinds
  BY DEF RowInv, Types, NxInv, JobsTruly
<1>6. Grows /\ ProbesTruly' /\ DeniedTruly'
  <2>1. Grows
    BY <1>1, <1>3 DEF Grows
  <2>2. ProbesTruly'
    BY <1>3 DEF NxInv, ProbesTruly, IsProbe
  <2>3. DeniedTruly'
    BY <1>3, <2>1 DEF Grows, NxInv, DeniedTruly
  <2> QED
    BY <2>1, <2>2, <2>3
<1>7. /\ j.id.kind = k /\ j.behaviour = b /\ j.top = "a" /\ j.at = 0
      /\ j.target = FALSE /\ j.full = FALSE /\ <<j.id, b>> \in drawn'
  BY <1>1, <1>2 DEF domainAssembly
<1>8. Job(j)'
  <2>1. IsJob(j)
    <3>1. PICK depth : domainAssembly(k, n) = [kind |-> k, nonce |-> n, depth |-> depth]
      BY DEF domainAssembly
    <3> QED
      BY <1>2, <3>1, Zenon DEF IsJob
  <2>2. b \in Behaviours
    BY <1>2, <1>3 DEF NxInv, BehavedTruly
  <2>3. NxJob(j)'
    <3>1. /\ <<j.id, j.behaviour>> \in drawn' /\ j.behaviour \in Behaviours
          /\ j.at \in Nat /\ ~(j.at > 0)
      BY <1>7, <2>2
    <3>2. j.target = FALSE /\ j.full \in BOOLEAN /\ ~j.full
      BY <1>7
    <3> QED
      BY <3>1, <3>2 DEF NxJob
  <2> QED
    BY <2>1, <2>3 DEF Job, IsJob
<1>9. NxOwn(j, b, FALSE)'
  BY <1>7 DEF NxOwn
<1>10. rpc'[k] = "wait" /\ ~Sent(k)' /\ (rpc'[k] = "ask_b") = FALSE
  BY <1>3, <1>5 DEF Sent
<1>11. \E a \in BOOLEAN : a = (rpc'[k] = "ask_b") /\ NxOwn(j, b, a)'
  BY <1>9, <1>10
<1>12. /\ \A i \in Kinds \ {k} : rpc'[i] = rpc[i] /\ job'[i] = job[i] /\ out'[i] = out[i]
       /\ j = job'[k] /\ DOMAIN job' = DOMAIN job
  BY <1>3, <1>4, <1>5
<1>13. j.id.kind = "nxopti" <=> k = "nxopti"
  BY <1>7
<1> QED
  BY <1>2, <1>3, <1>6, <1>8, <1>10, <1>11, <1>12, <1>13, OneMoves

LEMMA QuerySameKeeps ==
    ASSUME RowInv, NxInv, NEW k \in Kinds, Query_same(k)
    PROVE  NxInv'
<1>1. PICK h, b, row : b = behaviour[k] /\ row = out'[k] /\ h = job[k]
  OBVIOUS
<1>2. /\ rpc[k] \in {"ask", "ask_b"} /\ k = "nxopti" /\ h # NULL
      /\ rpc' = [rpc EXCEPT ![k] = "wait"] /\ out' = out
      /\ Cfg' = Cfg /\ behaviour' = behaviour /\ stray' = stray /\ denied' = denied
      /\ probes' = probes /\ drawn' = drawn
      /\ Query_at(k, h.id, IF rpc[k] = "ask_b" THEN "b" ELSE h.top)
  BY <1>1 DEF Query_same, idVars
<1>3. PICK top : top = IF rpc[k] = "ask_b" THEN "b" ELSE h.top
  OBVIOUS
<1>4. PICK j : j = [id |-> h.id, top |-> top, at |-> 0,
                    target |-> FALSE, full |-> FALSE, behaviour |-> b]
  OBVIOUS
<1>5. job' = [job EXCEPT ![k] = j]
  BY <1>1, <1>2, <1>3, <1>4 DEF Query_at
<1>6. DOMAIN out = Kinds /\ rpc \in [Kinds -> Stages] /\ DOMAIN job = Kinds
  BY DEF RowInv, Types, NxInv, JobsTruly
<1>7. Grows /\ ProbesTruly' /\ DeniedTruly'
  BY <1>2 DEF Grows, NxInv, ProbesTruly, DeniedTruly, IsProbe
<1>8. /\ IsJob(h) /\ NxJob(h) /\ h.id.kind = "nxopti"
      /\ NxOwn(h, b, rpc[k] = "ask_b")
  BY <1>1, <1>2 DEF NxInv, JobsTruly, Asking, Job, OwnTruly
<1>9. /\ j.id = h.id /\ j.behaviour = b /\ j.top = top /\ j.at = 0
      /\ j.target = FALSE /\ j.full = FALSE /\ h.behaviour = b
  BY <1>4, <1>8 DEF NxOwn
<1>10. Job(j)'
  <2>1. IsJob(j)
    <3>0. PICK kind, nonce, depth, t, at, target, full, c :
             h = [id |-> [kind |-> kind, nonce |-> nonce, depth |-> depth], top |-> t,
                  at |-> at, target |-> target, full |-> full, behaviour |-> c]
      BY <1>8, Zenon DEF IsJob
    <3>1. h.id = [kind |-> kind, nonce |-> nonce, depth |-> depth]
      BY <3>0
    <3> QED
      BY <1>4, <3>1, Zenon DEF IsJob
  <2>2. NxJob(j)'
    <3>1. /\ <<j.id, j.behaviour>> \in drawn' /\ j.behaviour \in Behaviours
          /\ j.at \in Nat /\ ~(j.at > 0)
      BY <1>2, <1>8, <1>9 DEF NxJob
    <3>2. j.target = FALSE /\ j.full \in BOOLEAN /\ ~j.full
      BY <1>9
    <3> QED
      BY <3>1, <3>2 DEF NxJob
  <2> QED
    BY <2>1, <2>2 DEF Job, IsJob
<1>11. NxOwn(j, b, FALSE)'
  BY <1>2, <1>3, <1>8, <1>9 DEF NxOwn
<1>12. rpc'[k] = "wait" /\ ~Sent(k)' /\ (rpc'[k] = "ask_b") = FALSE
  BY <1>2, <1>6 DEF Sent
<1>13. \E a \in BOOLEAN : a = (rpc'[k] = "ask_b") /\ NxOwn(j, b, a)'
  BY <1>11, <1>12
<1>14. /\ \A i \in Kinds \ {k} : rpc'[i] = rpc[i] /\ job'[i] = job[i] /\ out'[i] = out[i]
       /\ j = job'[k] /\ DOMAIN job' = DOMAIN job
  BY <1>2, <1>5, <1>6
<1>15. rpc[k] # "off" /\ (j.id.kind = "nxopti" <=> k = "nxopti")
  BY <1>2, <1>8, <1>9
<1> QED
  BY <1>1, <1>2, <1>7, <1>10, <1>12, <1>13, <1>14, <1>15, OneMoves

\* A denial that is not of nxopti's names says nothing about them.
LEMMA OtherDenied ==
    ASSUME DeniedTruly, NEW j, j.id.kind # "nxopti", NEW q, NEW r,
           denied' = Denied(j, q, r), drawn' = drawn
    PROVE  DeniedTruly' /\ denied \subseteq denied'
<1>1. denied' = denied \/ denied' = denied \cup {<<j.id, q.labels>>}
  BY DEF Denied
<1>2. ASSUME NEW d \in denied', d[1].kind = "nxopti"
      PROVE  d = <<d[1], 1>> /\ \E c : <<d[1], c>> \in drawn' /\ 1 \in c.steps
  <2>1. d \in denied
    BY <1>1, <1>2
  <2> QED
    BY <1>2, <2>1 DEF DeniedTruly
<1> QED
  BY <1>1, <1>2 DEF DeniedTruly

LEMMA OtherKeeps ==
    ASSUME RowInv, NxInv, NEW k \in Kinds, k # "nxopti", Answer(k) \/ Timeout(k)
    PROVE  NxInv'
<1>1. PICK j, q, r, b, row :
         /\ j = job[k] /\ q = Next_query(j) /\ r = Reply(q)
         /\ b = behaviour[k] /\ row = out'[k]
  OBVIOUS
<1>2. /\ rpc[k] = "wait" /\ Cfg' = Cfg /\ behaviour' = behaviour /\ drawn' = drawn
      /\ stray' \subseteq stray \cup {j}
  <2>1. CASE Resolve(k)
    BY <2>1 DEF Resolve, idVars
  <2>2. CASE Resolve_denied(k)
    BY <2>2 DEF Resolve_denied, idVars, resolverVars
  <2>3. CASE Timeout(k)
    BY <1>1, <2>3 DEF Timeout, idVars
  <2> QED
    BY <2>1, <2>2, <2>3 DEF Answer
<1>3. Job(j) /\ IsJob(j) /\ j.id.kind # "nxopti" /\ DOMAIN job = Kinds
  BY <1>1, <1>2 DEF NxInv, JobsTruly, Asking, Job
<1>4. /\ \/ rpc' = rpc /\ out' = out /\ job' = [job EXCEPT ![k] = Goes_on(j, q, r)]
         \/ rpc' = [rpc EXCEPT ![k] = "ask"] /\ out' = out /\ job' = job
         \/ (\E res, seq, ind : Outcome(k, res, seq, ind)) /\ job' = job
      /\ \/ requestResponse(q) /\ denied' = Denied(j, q, r)
         \/ probes' = probes /\ denied' = denied
  <2>1. CASE Resolve(k)
    <3>1. /\ requestResponse(q) /\ denied' = Denied(j, q, r)
          /\ \/ Outcome(k, Ending(r), r.seq, r.ind) /\ job' = job
             \/ /\ job' = [job EXCEPT ![k] = Goes_on(j, q, r)]
                /\ rpc' = rpc /\ out' = out
      BY <1>1, <2>1 DEF Resolve
    <3> QED
      BY <3>1
  <2>2. CASE Resolve_denied(k)
    <3>1. Outcome(k, "nxdomain", <<>>, <<>>) /\ job' = job /\ probes' = probes
          /\ denied' = denied
      BY <2>2 DEF Resolve_denied, resolverVars
    <3> QED
      BY <3>1
  <2>3. CASE Timeout(k)
    <3>1. /\ probes' = probes /\ denied' = denied /\ job' = job
          /\ \/ Outcome(k, "timeout", <<>>, <<>>)
             \/ rpc' = [rpc EXCEPT ![k] = "ask"] /\ out' = out
      BY <2>3 DEF Timeout
    <3> QED
      BY <3>1
  <2> QED
    BY <2>1, <2>2, <2>3 DEF Answer
<1>5. Grows /\ DeniedTruly' /\ ProbesTruly'
  <2>1. DeniedTruly /\ ProbesTruly
    BY DEF NxInv
  <2>2. CASE requestResponse(q) /\ denied' = Denied(j, q, r)
    BY <1>2, <1>3, <2>1, <2>2, OtherDenied, RequestKeeps DEF Grows
  <2>3. CASE probes' = probes /\ denied' = denied
    BY <1>2, <2>1, <2>3 DEF Grows, DeniedTruly, ProbesTruly, IsProbe
  <2> QED
    BY <1>4, <2>2, <2>3
<1>6. \A s \in stray' : s \in stray \/ Job(s)'
  BY <1>2, <1>3, <1>5, JobGrows
<1>7. DOMAIN out = Kinds /\ rpc \in [Kinds -> Stages]
  BY DEF RowInv, Types
<1>8. CASE rpc' = rpc /\ out' = out /\ job' = [job EXCEPT ![k] = Goes_on(j, q, r)]
  <2>1. PICK g : g = Goes_on(j, q, r)
    OBVIOUS
  <2>2. IsJob(g) /\ (g.id.kind = "plain" \/ g.id = j.id)
    <3>1. From(j, q, r, g)
      BY <1>3, <2>1, GoesOn, Zenon
    <3> QED
      BY <3>1, Zenon DEF From
  <2>3. Job(g)' /\ g.id.kind # "nxopti"
    BY <1>3, <2>2 DEF Job, IsJob
  <2>4. /\ \A i \in Kinds \ {k} : rpc'[i] = rpc[i] /\ job'[i] = job[i] /\ out'[i] = out[i]
        /\ g = job'[k] /\ DOMAIN job' = DOMAIN job /\ ~Sent(k)'
    BY <1>2, <1>3, <1>8, <2>1 DEF Sent
  <2>5. rpc[k] # "off" /\ Asking(k)' => Job(g)' /\ (g.id.kind = "nxopti" <=> k = "nxopti")
    BY <2>3
  <2>6. rpc[k] # "off"
    BY <1>2
  <2> QED
    BY <1>1, <1>2, <1>5, <1>6, <2>4, <2>5, <2>6, OneMoves
<1>9. CASE rpc' = [rpc EXCEPT ![k] = "ask"] /\ out' = out /\ job' = job
  <2>1. Job(j)'
    BY <1>3, <1>5, JobGrows
  <2>2. /\ \A i \in Kinds \ {k} : rpc'[i] = rpc[i] /\ job'[i] = job[i] /\ out'[i] = out[i]
        /\ j = job'[k] /\ DOMAIN job' = DOMAIN job /\ ~Sent(k)' /\ rpc[k] # "off"
    BY <1>1, <1>2, <1>7, <1>9 DEF Sent
  <2> QED
    BY <1>1, <1>2, <1>3, <1>5, <1>6, <2>1, <2>2, OneMoves
<1>10. ASSUME NEW res, NEW seq, NEW ind, Outcome(k, res, seq, ind), job' = job
       PROVE  NxInv'
  <2>1. PICK line : /\ rpc' = [rpc EXCEPT ![k] = "send"] /\ line.kind = k
                    /\ out' = [out EXCEPT ![k] = line]
    BY <1>10, OtherOutcome
  <2>2. /\ \A i \in Kinds \ {k} : rpc'[i] = rpc[i] /\ job'[i] = job[i] /\ out'[i] = out[i]
        /\ j = job'[k] /\ DOMAIN job' = DOMAIN job /\ ~Asking(k)' /\ rpc[k] # "off"
        /\ line = out'[k]
    BY <1>1, <1>2, <1>7, <1>10, <2>1 DEF Asking
  <2> QED
    BY <1>1, <1>2, <1>5, <1>6, <2>1, <2>2, OneMoves
<1> QED
  BY <1>4, <1>8, <1>9, <1>10

\* What is true stays true when no goroutine moves.
LEMMA NoneMoves ==
    ASSUME NxInv, Grows, UNCHANGED <<rpc, job, behaviour, out>>,
           \A s \in stray' : s \in stray \/ Job(s)', ProbesTruly', DeniedTruly'
    PROVE  NxInv'
<1>1. \A s \in stray' : Job(s)'
  BY JobGrows DEF NxInv, JobsTruly
<1>2. ASSUME NEW i \in Kinds, Asking(i)'
      PROVE  Job(job[i])' /\ (job'[i].id.kind = "nxopti" <=> i = "nxopti")
  <2>1. PICK h : h = job[i]
    OBVIOUS
  <2>2. Asking(i) /\ job'[i] = h
    BY <1>2, <2>1 DEF Asking
  <2>3. Job(h) /\ (h.id.kind = "nxopti" <=> i = "nxopti")
    BY <2>1, <2>2, Zenon DEF NxInv, JobsTruly
  <2>4. Job(h)'
    BY <2>3, JobGrows
  <2>5. IsJob(job'[i])
    BY <2>2, <2>3, Zenon DEF Job
  <2>6. h.id.kind = "nxopti" => NxJob(h)'
    BY <2>4 DEF Job
  <2>7. h.id.kind = "nxopti" => NxJob(job[i])'
    BY <2>2, <2>6 DEF NxJob
  <2> QED
    BY <2>2, <2>3, <2>5, <2>7 DEF Job, IsJob
<1>3. JobsTruly'
  BY <1>1, <1>2 DEF JobsTruly, NxInv
<1>4. OwnTruly'
  BY DEF NxInv, OwnTruly, Asking, NxOwn, Grows
<1>5. BehavedTruly'
  BY DEF NxInv, BehavedTruly
<1>6. SentTruly'
  <2>1. ASSUME NEW i \in Kinds, Sent(i)'
        PROVE  out'[i].kind = i /\ (i = "nxopti" => NxRow(out[i], behaviour[i])')
    <3>1. PICK h, c : h = out[i] /\ c = behaviour[i]
      OBVIOUS
    <3>2. Sent(i) /\ out'[i] = h /\ behaviour'[i] = c
      BY <2>1, <3>1 DEF Sent
    <3>3. h.kind = i /\ (i = "nxopti" => NxRow(h, c))
      BY <3>1, <3>2, Zenon DEF NxInv, SentTruly
    <3>4. i = "nxopti" => NxRow(h, c)'
      BY <3>3, RowGrows
    <3> QED
      BY <3>2, <3>3, <3>4 DEF NxRow, Two_servers
  <2> QED
    BY <2>1 DEF SentTruly
<1> QED
  BY <1>3, <1>4, <1>5, <1>6 DEF NxInv

\* The resolver goes on with a query that was given up, perhaps one of nxopti.
LEMMA StrayKeeps ==
    ASSUME RowInv, NxInv, ~Cfg.b, NEW j \in stray, Resolve_stray(j)
    PROVE  NxInv'
<1>1. PICK q, r, g : q = Next_query(j) /\ r = Reply(q) /\ g = Goes_on(j, q, r)
  OBVIOUS
<1>2. /\ requestResponse(q) /\ denied' = Denied(j, q, r) /\ stray' \subseteq stray \cup {g}
      /\ g \in stray' => g \in stray \/ ~Ends(j, q, r)
      /\ UNCHANGED <<rpc, job, behaviour, out>> /\ Cfg' = Cfg /\ drawn' = drawn
  BY <1>1 DEF Resolve_stray, routineVars, idVars
<1>3. Job(j) /\ IsJob(j) /\ ProbesTruly /\ DeniedTruly
  BY DEF NxInv, JobsTruly, Job
<1>4. ProbesTruly'
  BY <1>2, <1>3, RequestKeeps
<1>5. From(j, q, r, g)
  BY <1>1, <1>3, GoesOn, Zenon
<1>6. CASE j.id.kind # "nxopti"
  <2>1. DeniedTruly' /\ Grows
    BY <1>2, <1>3, <1>6, OtherDenied DEF Grows
  <2>2. g.id.kind # "nxopti"
    <3>1. g.id.kind = "plain" \/ g.id = j.id
      BY <1>5, Zenon DEF From
    <3> QED
      BY <1>6, <3>1
  <2>3. Job(g)'
    BY <1>5, <2>2 DEF Job, IsJob, From
  <2> QED
    BY <1>2, <1>4, <2>1, <2>3, NoneMoves
<1>7. CASE j.id.kind = "nxopti"
  <2>1. NxJob(j)
    BY <1>3, <1>7 DEF Job
  <2>2. \/ /\ q.labels = 1 /\ 1 \in j.behaviour.steps /\ r.is = "nxdomain"
           /\ denied' = denied \cup {<<j.id, 1>>}
        \/ /\ q.labels = 2 /\ (1 \in j.behaviour.steps => j.at > 0)
           /\ r.is \in {"nxdomain", "false"} /\ denied' = denied
    BY <1>1, <1>2, <1>3, <1>7, <2>1, NxRequest
  <2>3. Grows
    BY <1>2, <2>2 DEF Grows
  <2>4. DeniedTruly'
    <3>1. ASSUME NEW d \in denied', d[1].kind = "nxopti"
          PROVE  d = <<d[1], 1>> /\ \E c : <<d[1], c>> \in drawn' /\ 1 \in c.steps
      <4>1. CASE d \in denied
        BY <1>2, <1>3, <3>1, <4>1 DEF DeniedTruly
      <4>2. CASE d = <<j.id, 1>> /\ 1 \in j.behaviour.steps
        BY <1>2, <2>1, <4>2 DEF NxJob
      <4> QED
        BY <2>2, <3>1, <4>1, <4>2
    <3> QED
      BY <3>1 DEF DeniedTruly
  <2>5. /\ g.id = j.id /\ g.target = j.target /\ g.at = q.labels
        /\ g.full = IF r.is = "nxdomain" THEN TRUE ELSE j.full
    <3>1. r.is # "cname"
      BY <2>2
    <3> QED
      BY <1>5, <3>1 DEF From
  <2>6. NxJob(g)'
    <3>1. /\ <<g.id, g.behaviour>> \in drawn' /\ g.behaviour \in Behaviours
          /\ g.target = FALSE /\ g.at \in Nat /\ g.at > 0
      BY <1>2, <1>5, <2>1, <2>2, <2>5 DEF NxJob, From
    <3>2. g.full \in BOOLEAN
      BY <2>1, <2>5 DEF NxJob
    <3>3. 1 \in g.behaviour.steps => <<g.id, 1>> \in denied'
      BY <1>5, <2>1, <2>2, <2>5 DEF NxJob, From
    <3> QED
      BY <3>1, <3>2, <3>3 DEF NxJob
  <2>7. Job(g)'
    BY <1>5, <2>6 DEF Job, IsJob, From
  <2> QED
    BY <1>2, <1>4, <2>3, <2>4, <2>7, NoneMoves
<1> QED
  BY <1>6, <1>7

\* A round begins without queries; a row that is stored is still the one that was sent.
LEMMA RoundKeeps == ASSUME RowInv, NxInv, Start_round PROVE NxInv'
<1>1. /\ Cfg' = Cfg /\ stray' = stray /\ denied' = denied /\ drawn' = drawn
      /\ probes' = probes /\ job' = [k \in Kinds |-> NULL]
      /\ rpc' = [k \in Kinds |-> IF k \in Cfg.kinds THEN "ask" ELSE "off"]
      /\ behaviour' \in [Kinds -> Cfg.behaviours \cup {NULL}]
      /\ \A k \in Kinds : behaviour'[k] = NULL <=> k \notin Cfg.kinds
  BY DEF Start_round, idVars
<1>2. Grows /\ ProbesTruly' /\ DeniedTruly'
  BY <1>1 DEF Grows, NxInv, ProbesTruly, DeniedTruly, IsProbe
<1>3. \A k \in Kinds : ~Asking(k)' /\ ~Sent(k)'
  BY <1>1 DEF Asking, Sent
<1>4. JobsTruly'
  <2>1. \A s \in stray' : Job(s)'
    BY <1>1, <1>2, JobGrows DEF NxInv, JobsTruly
  <2> QED
    BY <1>1, <1>3, <2>1 DEF JobsTruly
<1>5. OwnTruly' /\ SentTruly'
  <2>1. "nxopti" \in Kinds
    BY DEF Kinds
  <2> QED
    BY <1>3, <2>1 DEF OwnTruly, SentTruly
<1>6. BehavedTruly'
  <2>1. Cfg.behaviours \subseteq Behaviours
    BY ConfigAssumption DEF RowInv, Types
  <2> QED
    BY <1>1, <2>1 DEF BehavedTruly
<1> QED
  BY <1>2, <1>4, <1>5, <1>6 DEF NxInv

LEMMA CollectedKeeps == ASSUME RowInv, NxInv, NEW k \in Kinds, Collect(k) PROVE NxInv'
<1>1. /\ rpc[k] = "send" /\ rpc' = [rpc EXCEPT ![k] = "done"] /\ Cfg' = Cfg
      /\ behaviour' = behaviour /\ job' = job /\ stray' = stray /\ denied' = denied
      /\ drawn' = drawn /\ probes' = probes /\ out' = out
  BY DEF Collect, resolverVars, idVars
<1>2. Grows /\ ProbesTruly' /\ DeniedTruly'
  BY <1>1 DEF Grows, NxInv, ProbesTruly, DeniedTruly, IsProbe
<1>3. PICK j, row, b : j = job'[k] /\ row = out'[k] /\ b = behaviour[k]
  OBVIOUS
<1>4. rpc \in [Kinds -> Stages]
  BY DEF RowInv, Types
<1>5. row.kind = k /\ (k = "nxopti" => NxRow(row, b))
  BY <1>1, <1>3 DEF NxInv, SentTruly, Sent
<1>6. row.kind = k /\ (k = "nxopti" => NxRow(row, b)')
  BY <1>2, <1>5, RowGrows
<1>7. /\ \A i \in Kinds \ {k} : rpc'[i] = rpc[i] /\ job'[i] = job[i] /\ out'[i] = out[i]
      /\ ~Asking(k)' /\ rpc[k] # "off" /\ DOMAIN job' = DOMAIN job
      /\ \A s \in stray' : s \in stray
  BY <1>1, <1>4 DEF Asking
<1> QED
  BY <1>1, <1>2, <1>3, <1>6, <1>7, OneMoves

LEMMA NxNext == RowInv /\ NxInv /\ ~Cfg.b /\ [Next]_vars => NxInv'
<1> SUFFICES ASSUME RowInv, NxInv, ~Cfg.b, [Next]_vars PROVE NxInv'
  OBVIOUS
<1>1. ASSUME NEW k \in Kinds, Query(k) PROVE NxInv'
  BY <1>1, QueryNewKeeps, QuerySameKeeps DEF Query
<1>2. ASSUME NEW k \in Kinds, Answer(k) \/ Timeout(k) PROVE NxInv'
  BY <1>2, NxResolve, NxRemembers, NxTimeout, OtherKeeps DEF Answer
<1>3. ASSUME NEW k \in Kinds, Collect(k) PROVE NxInv'
  BY <1>3, CollectedKeeps
<1>4. CASE Start_round
  BY <1>4, RoundKeeps
<1>5. ASSUME NEW j \in stray, Resolve_stray(j) PROVE NxInv'
  BY <1>5, StrayKeeps
<1>6. CASE Age \/ Close_ch \/ Collected \/ Close_store \/ WriteOutputParquet \/ UNCHANGED vars
  <2>1. /\ UNCHANGED <<Cfg, rpc, job, behaviour, out, stray, denied, drawn>>
        /\ probes' = probes \/ \E old : cleanProbes(old)
    BY <1>6 DEF Age, Close_ch, Collected, Close_store, WriteOutputParquet, vars,
                routineVars, resolverVars, idVars
  <2>2. Grows /\ DeniedTruly' /\ \A s \in stray' : s \in stray
    BY <2>1 DEF Grows, NxInv, DeniedTruly
  <2>3. ProbesTruly'
    <3>1. ProbesTruly
      BY DEF NxInv
    <3>2. CASE probes' = probes
      BY <3>1, <3>2 DEF ProbesTruly, IsProbe
    <3>3. ASSUME NEW old, cleanProbes(old) PROVE ProbesTruly'
      BY <3>1, <3>3, AgeKeeps
    <3> QED
      BY <2>1, <3>2, <3>3
  <2> QED
    BY <2>1, <2>2, <2>3, NoneMoves
<1> QED
  BY <1>1, <1>2, <1>3, <1>4, <1>5, <1>6 DEF Next, Start_scan, scanResolvers

LEMMA NxInit == Init => NxInv
<1> SUFFICES ASSUME Init PROVE NxInv
  OBVIOUS
<1>1. /\ rpc = [k \in Kinds |-> "off"] /\ job = [k \in Kinds |-> NULL]
      /\ stray = {} /\ denied = {} /\ probes = <<>>
  BY DEF Init
<1>2. \A k \in Kinds : rpc[k] = "off" /\ ~Asking(k) /\ ~Sent(k)
  BY <1>1 DEF Asking, Sent
<1>3. ProbesTruly /\ DeniedTruly
  <2>1. DOMAIN probes = {}
    BY <1>1
  <2> QED
    BY <1>1, <2>1 DEF ProbesTruly, DeniedTruly
<1>4. JobsTruly /\ BehavedTruly /\ SentTruly
  BY <1>1, <1>2 DEF JobsTruly, BehavedTruly, SentTruly
<1>5. OwnTruly
  <2>1. "nxopti" \in Kinds
    BY DEF Kinds
  <2> QED
    BY <1>2, <2>1 DEF OwnTruly
<1> QED
  BY <1>3, <1>4, <1>5 DEF NxInv

\* A row of another query says nothing of it.
LEMMA NxIs ==
    ASSUME NEW row, row.kind \in Kinds
    PROVE  evalRow(row).nx = IF row.kind = "nxopti" THEN row.nxopti ELSE Nil
<1>1. /\ \A m : [Unknown EXCEPT !.mode = m].nx = Nil
      /\ \A x : [Unknown EXCEPT !.nx = x].nx = x
      /\ \A x : [Unknown EXCEPT !.induction = x].nx = Nil
      /\ \A x : [Unknown EXCEPT !.qmin = x].nx = Nil
      /\ \A e : [Unknown EXCEPT !.errors[e] = 1].nx = Nil
  BY DEF Unknown
<1>2. CASE row.res # "ok"
  <2>1. CASE row.kind = "qminmode" /\ row.res = "nxdomain"
    <3>1. evalRow(row) = [Unknown EXCEPT !.mode = "strict"]
      BY <1>2, <2>1, Zenon DEF evalRow
    <3> QED
      BY <1>1, <2>1, <3>1
  <2>2. CASE row.kind = "nxopti"
    <3>1. ~(row.kind = "qminmode" /\ row.res = "nxdomain")
      BY <2>2
    <3>2. evalRow(row) = [Unknown EXCEPT !.nx = row.nxopti]
      BY <1>2, <2>2, <3>1, Zenon DEF evalRow
    <3> QED
      BY <1>1, <2>2, <3>2
  <2>3. CASE ~(row.kind = "qminmode" /\ row.res = "nxdomain") /\ row.kind # "nxopti"
    <3>1. evalRow(row) = [Unknown EXCEPT !.errors[row.res] = 1]
      BY <1>2, <2>3, Zenon DEF evalRow
    <3> QED
      BY <1>1, <2>3, <3>1
  <2> QED
    BY <2>1, <2>2, <2>3
<1>3. CASE row.res = "ok" /\ row.kind = "qminmode"
  <2>1. evalRow(row) = [Unknown EXCEPT !.mode = IF Several(row.seq) THEN "relaxed" ELSE ""]
    BY <1>3, Zenon DEF evalRow
  <2> QED
    BY <1>1, <1>3, <2>1
<1>4. CASE row.res = "ok" /\ row.kind = "nxopti"
  <2>1. row.kind # "qminmode"
    BY <1>4
  <2>2. evalRow(row) = [Unknown EXCEPT !.nx = row.nxopti]
    BY <1>4, <2>1, Zenon DEF evalRow
  <2> QED
    BY <1>1, <1>4, <2>2
<1>5. CASE row.res = "ok" /\ row.kind = "induction"
  <2>1. row.kind # "qminmode" /\ row.kind # "nxopti"
    BY <1>5
  <2>2. evalRow(row) = [Unknown EXCEPT !.induction = Truth(Several(row.ind))]
    BY <1>5, <2>1, Zenon DEF evalRow
  <2> QED
    BY <1>1, <2>1, <2>2
<1>6. CASE row.res = "ok" /\ row.kind = "plain"
  <2>1. row.kind # "qminmode" /\ row.kind # "nxopti" /\ row.kind # "induction"
    BY <1>6
  <2>2. evalRow(row) = [Unknown EXCEPT !.qmin = Truth(Several(row.seq))]
    BY <1>6, <2>1, Zenon DEF evalRow
  <2> QED
    BY <1>1, <2>1, <2>2
<1> QED
  BY <1>2, <1>3, <1>4, <1>5, <1>6 DEF Kinds

\* What nxopti reports of a resolver (scanner.go 320-365, dns_server.go 258-275) is true:
\* whatever is lost, late, asked again and deleted, with other queries going on.
THEOREM NxIsTrue == Spec => []NxTruly
<1>1. Init => RowInv /\ (Cfg.b \/ NxInv)
  BY InitKeeps, NxInit
<1>2. RowInv /\ (Cfg.b \/ NxInv) /\ [Next]_vars => (RowInv /\ (Cfg.b \/ NxInv))'
  <2> SUFFICES ASSUME RowInv, Cfg.b \/ NxInv, [Next]_vars
               PROVE  RowInv' /\ (Cfg'.b \/ NxInv')
    OBVIOUS
  <2>1. RowInv'
    BY NextKeeps
  <2>2. Cfg' = Cfg
    BY DEF Next, Start_scan, scanResolvers, Start_round, Close_ch, Collected, Collect,
           Close_store, WriteOutputParquet, Query, Query_new, Query_same, Answer, Resolve,
           Resolve_denied, Timeout, Resolve_stray, Age, vars
  <2> QED
    BY <2>1, <2>2, NxNext
<1>3. RowInv /\ (Cfg.b \/ NxInv) => NxTruly
  <2> SUFFICES ASSUME NxInv, NEW k \in Kinds, Sent(k), ~behaviour[k].mixed,
                      ~Two_servers(out[k].id)
               PROVE  evalRow(out[k]).nx \in {Nil, Truth(Optimises(behaviour[k]))}
    BY DEF NxTruly
  <2>1. out[k].kind = k /\ (k = "nxopti" => NxRow(out[k], behaviour[k]))
    BY DEF NxInv, SentTruly
  <2>2. evalRow(out[k]).nx = IF k = "nxopti" THEN out[k].nxopti ELSE Nil
    BY <2>1, NxIs
  <2> QED
    BY <2>1, <2>2 DEF NxRow, Nil
<1> QED
  BY <1>1, <1>2, <1>3, PTL DEF Spec
-----------------------------------------------------------------------------
(***************************************************************************)
(* What is measured on a probe is true, if nothing disturbed it: its        *)
(* sequence spells the names that the resolver asks for as far as the       *)
(* farthest query on it has come, and no query asks for anything else.      *)
(*                                                                          *)
(* First what it means for a sequence of parts to spell a set of names:     *)
(* there is a list of them, the shortest first, whose steps are the labels  *)
(* of the parts, the last part first.                                       *)
(***************************************************************************)
Types_asked == {"NS", "A", "TXT"}
Parts == [stage : Nat, labels : Nat, type : Types_asked]

Spelling(seq, S, nm) ==
    /\ nm \in [0 .. Len(seq) -> Nat] /\ nm[0] = 0
    /\ S = {nm[i] : i \in 1 .. Len(seq)}
    /\ \A i, j \in 0 .. Len(seq) : i < j => nm[i] < nm[j]
    /\ \A i \in 1 .. Len(seq) : seq[Len(seq) + 1 - i].labels = nm[i] - nm[i - 1]
Spells(seq, S) == seq \in Seq(Parts) /\ \E nm : Spelling(seq, S, nm)

\* The longest name of the set, nothing if there is none.
Longest(S, m) == (S = {} /\ m = 0) \/ (m \in S /\ \A n \in S : n <= m)

LEMMA SpellsNone ==
    /\ Spells(<<>>, {})
    /\ \A seq : Spells(seq, {}) => seq = <<>>
<1>1. Spells(<<>>, {})
  <2> DEFINE nm == [i \in 0 .. 0 |-> 0]
  <2>1. nm \in [0 .. 0 -> Nat] /\ nm[0] = 0
    OBVIOUS
  <2>2. /\ {nm[i] : i \in 1 .. 0} = {}
        /\ \A i, j \in 0 .. 0 : ~(i < j)
        /\ \A i \in 1 .. 0 : FALSE
    OBVIOUS
  <2>3. Len(<<>>) = 0 /\ <<>> \in Seq(Parts)
    OBVIOUS
  <2> HIDE DEF nm
  <2>4. Spelling(<<>>, {}, nm)
    BY <2>1, <2>2, <2>3 DEF Spelling
  <2> QED
    BY <2>3, <2>4 DEF Spells
<1>2. ASSUME NEW seq, Spells(seq, {}) PROVE seq = <<>>
  <2>1. PICK nm : Spelling(seq, {}, nm) /\ seq \in Seq(Parts)
    BY <1>2 DEF Spells
  <2>2. Len(seq) \in Nat /\ (Len(seq) > 0 => nm[1] \in {})
    <3>1. Len(seq) \in Nat
      BY <2>1
    <3>2. Len(seq) > 0 => 1 \in 1 .. Len(seq)
      BY <3>1
    <3> QED
      BY <2>1, <3>1, <3>2, Zenon DEF Spelling
  <2> QED
    BY <2>1, <2>2
<1> QED
  BY <1>1, <1>2

\* A longer name in front.
LEMMA SpellsMore ==
    ASSUME NEW seq, NEW S, Spells(seq, S), NEW m, Longest(S, m), NEW v \in Nat, v > m,
           NEW part \in Parts, part.labels = v - m
    PROVE  Spells(<<part>> \o seq, S \cup {v}) /\ Longest(S \cup {v}, v)
<1>1. PICK nm : Spelling(seq, S, nm) /\ seq \in Seq(Parts)
  BY DEF Spells
<1>2. PICK L \in Nat : L = Len(seq)
  BY <1>1
<1>3. /\ nm \in [0 .. L -> Nat] /\ nm[0] = 0 /\ S = {nm[i] : i \in 1 .. L}
      /\ \A i, j \in 0 .. L : i < j => nm[i] < nm[j]
      /\ \A i \in 1 .. L : seq[L + 1 - i].labels = nm[i] - nm[i - 1]
  BY <1>1, <1>2 DEF Spelling
<1>4. nm[L] = m
  <2>1. CASE L = 0
    <3>1. S = {}
      BY <1>3, <2>1
    <3> QED
      BY <1>3, <2>1, <3>1 DEF Longest
  <2>2. CASE L > 0
    <3>1. L \in 1 .. L /\ L \in 0 .. L
      BY <2>2
    <3>2. nm[L] \in S
      BY <1>3, <3>1
    <3>3. PICK i \in 1 .. L : m = nm[i]
      BY <1>3, <3>2 DEF Longest
    <3>4. i \in 0 .. L /\ nm[i] \in Nat /\ nm[L] \in Nat
      BY <1>3, <3>1, <3>3
    <3>5. i < L => nm[i] < nm[L]
      BY <1>3, <3>1, <3>4
    <3>6. nm[L] <= m
      BY <3>2 DEF Longest
    <3>7. i = L
      BY <3>3, <3>4, <3>5, <3>6
    <3> QED
      BY <3>3, <3>7
  <2> QED
    BY <2>1, <2>2
<1> DEFINE new == <<part>> \o seq
           to == [i \in 0 .. L + 1 |-> IF i = L + 1 THEN v ELSE nm[i]]
<1>5. /\ new \in Seq(Parts) /\ Len(new) = L + 1 /\ new[1] = part
      /\ \A i \in 1 .. L : new[i + 1] = seq[i]
  BY <1>1, <1>2
<1>6. /\ to \in [0 .. L + 1 -> Nat] /\ to[0] = 0 /\ to[L + 1] = v
      /\ \A i \in 0 .. L : to[i] = nm[i]
  <2>1. \A i \in 0 .. L + 1 : i # L + 1 => i \in 0 .. L
    OBVIOUS
  <2> QED
    BY <1>3, <2>1
<1>7. S \cup {v} = {to[i] : i \in 1 .. L + 1}
  <2>1. \A i \in 1 .. L + 1 : i = L + 1 \/ (i \in 1 .. L /\ i \in 0 .. L)
    OBVIOUS
  <2>2. \A i \in 1 .. L : i \in 1 .. L + 1 /\ i \in 0 .. L
    OBVIOUS
  <2>3. L + 1 \in 1 .. L + 1
    OBVIOUS
  <2> HIDE DEF to
  <2>4. \A n \in S : \E i \in 1 .. L + 1 : n = to[i]
    BY <1>3, <1>6, <2>2, Zenon
  <2>5. \A i \in 1 .. L + 1 : to[i] \in S \/ to[i] = v
    BY <1>3, <1>6, <2>1, Zenon
  <2>6. \E i \in 1 .. L + 1 : v = to[i]
    BY <1>6, <2>3, Zenon
  <2> QED
    BY <2>4, <2>5, <2>6
<1>8. \A i \in 0 .. L : nm[i] <= m
  <2>1. ASSUME NEW i \in 0 .. L PROVE nm[i] <= nm[L]
    <3>1. L \in 0 .. L /\ nm[i] \in Nat /\ nm[L] \in Nat /\ (i = L \/ i < L)
      BY <1>3
    <3> QED
      BY <1>3, <3>1
  <2> QED
    BY <1>4, <2>1
<1>9. ASSUME NEW i \in 0 .. L + 1, NEW j \in 0 .. L + 1, i < j PROVE to[i] < to[j]
  <2>1. CASE j = L + 1
    <3>1. i \in 0 .. L
      BY <1>9, <2>1
    <3>2. to[i] = nm[i] /\ nm[i] <= m /\ nm[i] \in Nat /\ m \in Nat /\ to[j] = v
      BY <1>3, <1>4, <1>6, <1>8, <2>1, <3>1
    <3> QED
      BY <3>2
  <2>2. CASE j # L + 1
    <3>1. i \in 0 .. L /\ j \in 0 .. L
      BY <1>9, <2>2
    <3> QED
      BY <1>3, <1>6, <1>9, <3>1
  <2> QED
    BY <2>1, <2>2
<1>10. ASSUME NEW i \in 1 .. L + 1
       PROVE  new[L + 2 - i].labels = to[i] - to[i - 1]
  <2>1. CASE i = L + 1
    <3>1. L + 2 - i = 1 /\ i - 1 = L /\ L \in 0 .. L
      BY <2>1
    <3> QED
      BY <1>4, <1>5, <1>6, <2>1, <3>1
  <2>2. CASE i # L + 1
    <3>1. /\ i \in 1 .. L /\ i \in 0 .. L /\ i - 1 \in 0 .. L
          /\ L + 1 - i \in 1 .. L /\ L + 2 - i = (L + 1 - i) + 1
      BY <2>2
    <3>2. new[L + 2 - i] = seq[L + 1 - i]
      BY <1>5, <3>1
    <3> QED
      BY <1>3, <1>6, <3>1, <3>2
  <2> QED
    BY <2>1, <2>2
<1> HIDE DEF new, to
<1>11. Spelling(new, S \cup {v}, to)
  <2>1. \A i \in 1 .. Len(new) : new[Len(new) + 1 - i].labels = to[i] - to[i - 1]
    <3>1. \A i \in 1 .. L + 1 : Len(new) + 1 - i = L + 2 - i
      BY <1>5
    <3> QED
      BY <1>5, <1>10, <3>1
  <2> QED
    BY <1>5, <1>6, <1>7, <1>9, <2>1 DEF Spelling
<1>12. Spells(<<part>> \o seq, S \cup {v})
  BY <1>5, <1>11 DEF Spells, new
<1>13. Longest(S \cup {v}, v)
  <2>1. \A n \in S : n <= m /\ n \in Nat
    <3>1. \A i \in 1 .. L : i \in 0 .. L
      OBVIOUS
    <3> QED
      BY <1>3, <1>8, <3>1
  <2>2. m \in Nat
    BY <1>3, <1>4
  <2> QED
    BY <2>1, <2>2 DEF Longest
<1> QED
  BY <1>12, <1>13

\* There are as many parts as names.
LEMMA SpellsSize ==
    ASSUME NEW seq, NEW S, Spells(seq, S)
    PROVE  IsFiniteSet(S) /\ Cardinality(S) = Len(seq)
<1>1. PICK nm : Spelling(seq, S, nm) /\ seq \in Seq(Parts)
  BY DEF Spells
<1>2. PICK L \in Nat : L = Len(seq)
  BY <1>1
<1> DEFINE f == [i \in 1 .. L |-> nm[i]]
<1>3. f \in [1 .. L -> S] /\ \A n \in S : \E i \in 1 .. L : f[i] = n
  BY <1>1, <1>2 DEF Spelling
<1>4. \A i, j \in 1 .. L : f[i] = f[j] => i = j
  <2>1. \A i, j \in 1 .. L : i \in 0 .. L /\ j \in 0 .. L /\ (i # j => i < j \/ j < i)
    OBVIOUS
  <2>2. nm \in [0 .. L -> Nat] /\ \A i, j \in 0 .. L : i < j => nm[i] < nm[j]
    BY <1>1, <1>2 DEF Spelling
  <2>3. \A i, j \in 0 .. L : nm[i] = nm[j] => ~(i < j) /\ ~(j < i)
    BY <2>2
  <2> QED
    BY <2>1, <2>3
<1> HIDE DEF f
<1>5. f \in Bijection(1 .. L, S)
  BY <1>3, <1>4 DEF Bijection, Injection, IsInjective, Surjection
<1>6. ExistsBijection(1 .. L, S)
  BY <1>5 DEF ExistsBijection
<1>7. Cardinality(S) = L
  BY <1>6, FS_CountingElements
<1>8. IsFiniteSet(S)
  BY <1>6, FS_NatBijection
<1> QED
  BY <1>2, <1>7, <1>8

\* The labels up to a name are those of the parts up to it: stripRTypes as its fold
\* defines it, by a function on the sets of parts.
Stripped(g, seq) ==
    [s \in SUBSET DOMAIN seq |->
        IF s = {} THEN 0 ELSE g[s \ {Max(s)}] + seq[Max(s)].labels]

LEMMA StripIsFolded ==
    ASSUME NEW seq
    PROVE  stripRTypes(seq) = (CHOOSE g : g = Stripped(g, seq))[DOMAIN seq]
BY Zenon DEF stripRTypes, FoldLeft, MapThenFoldSet, Stripped

\* The numbers of labels that the parts in s add.
Between(nm, L, i) == nm[L - i] + 1 .. nm[L + 1 - i]
Covered(nm, L, s) == UNION {Between(nm, L, i) : i \in s}

LEMMA CoveredAdds ==
    ASSUME NEW L \in Nat, NEW nm \in [0 .. L -> Nat],
           \A i, j \in 0 .. L : i < j => nm[i] < nm[j],
           NEW s \in SUBSET (1 .. L), NEW x \in s
    PROVE  /\ IsFiniteSet(Covered(nm, L, s)) /\ Cardinality(Covered(nm, L, s)) \in Nat
           /\ Cardinality(Covered(nm, L, s))
                = Cardinality(Covered(nm, L, s \ {x})) + (nm[L + 1 - x] - nm[L - x])
<1>1. ASSUME NEW i \in 1 .. L
      PROVE  /\ L - i \in 0 .. L /\ L + 1 - i \in 0 .. L
             /\ nm[L - i] \in Nat /\ nm[L + 1 - i] \in Nat /\ nm[L - i] < nm[L + 1 - i]
             /\ nm[L + 1 - i] <= nm[L]
  <2>1. L - i \in 0 .. L /\ L + 1 - i \in 0 .. L /\ L - i < L + 1 - i /\ L \in 0 .. L
    OBVIOUS
  <2>2. nm[L - i] \in Nat /\ nm[L + 1 - i] \in Nat /\ nm[L] \in Nat
    BY <2>1
  <2>3. L + 1 - i = L \/ L + 1 - i < L
    OBVIOUS
  <2> QED
    BY <2>1, <2>2, <2>3
<1>2. ASSUME NEW i \in 1 .. L, NEW j \in 1 .. L, i < j
      PROVE  Between(nm, L, i) \cap Between(nm, L, j) = {}
  <2>1. L + 1 - j \in 0 .. L /\ L - i \in 0 .. L /\ (L + 1 - j = L - i \/ L + 1 - j < L - i)
    BY <1>2
  <2>2. /\ nm[L + 1 - j] \in Nat /\ nm[L - j] \in Nat
        /\ nm[L + 1 - i] \in Nat /\ nm[L - i] \in Nat
    BY <1>1
  <2>3. nm[L + 1 - j] <= nm[L - i]
    <3>1. L + 1 - j < L - i => nm[L + 1 - j] < nm[L - i]
      BY <2>1
    <3> QED
      BY <2>1, <2>2, <3>1
  <2>4. \A a, b, c, d \in Nat : b <= c => (a + 1 .. b) \cap (c + 1 .. d) = {}
    OBVIOUS
  <2> QED
    BY <2>2, <2>3, <2>4 DEF Between
<1>3. Covered(nm, L, s) = Covered(nm, L, s \ {x}) \cup Between(nm, L, x)
  <2>1. s = (s \ {x}) \cup {x}
    OBVIOUS
  <2> QED
    BY <2>1 DEF Covered
<1>4. Covered(nm, L, s \ {x}) \cap Between(nm, L, x) = {}
  <2>1. \A i \in s \ {x} : Between(nm, L, i) \cap Between(nm, L, x) = {}
    <3>1. \A i \in s \ {x} : i \in 1 .. L /\ x \in 1 .. L /\ (i < x \/ x < i)
      OBVIOUS
    <3> QED
      BY <1>2, <3>1
  <2> QED
    BY <2>1 DEF Covered
<1>5. ASSUME NEW t \in SUBSET (1 .. L)
      PROVE  IsFiniteSet(Covered(nm, L, t)) /\ Cardinality(Covered(nm, L, t)) \in Nat
  <2>0. nm[L] \in Nat
    OBVIOUS
  <2>1. Covered(nm, L, t) \subseteq 1 .. nm[L]
    <3>1. ASSUME NEW i \in t PROVE Between(nm, L, i) \subseteq 1 .. nm[L]
      <4>1. /\ nm[L - i] \in Nat /\ nm[L + 1 - i] \in Nat
            /\ nm[L + 1 - i] <= nm[L]
        BY <1>1
      <4> QED
        BY <2>0, <4>1 DEF Between
    <3> QED
      BY <3>1 DEF Covered
  <2>2. IsFiniteSet(1 .. nm[L])
    <3>1. PICK M \in Nat : M = nm[L]
      BY <2>0
    <3>2. IsFiniteSet(1 .. M)
      BY FS_Interval
    <3> QED
      BY <3>1, <3>2
  <2> QED
    BY <2>1, <2>2, FS_Subset, FS_CardinalityType
<1>6. /\ IsFiniteSet(Between(nm, L, x))
      /\ Cardinality(Between(nm, L, x)) = nm[L + 1 - x] - nm[L - x]
  <2>1. x \in 1 .. L
    OBVIOUS
  <2>2. nm[L - x] \in Nat /\ nm[L + 1 - x] \in Nat /\ nm[L - x] < nm[L + 1 - x]
    BY <1>1, <2>1
  <2>3. /\ IsFiniteSet(nm[L - x] + 1 .. nm[L + 1 - x])
        /\ Cardinality(nm[L - x] + 1 .. nm[L + 1 - x])
             = IF nm[L - x] + 1 > nm[L + 1 - x] THEN 0
               ELSE nm[L + 1 - x] - (nm[L - x] + 1) + 1
    <3>1. PICK a \in Int, b \in Int : a = nm[L - x] + 1 /\ b = nm[L + 1 - x]
      BY <2>2
    <3>2. /\ IsFiniteSet(a .. b)
          /\ Cardinality(a .. b) = IF a > b THEN 0 ELSE b - a + 1
      BY FS_Interval
    <3> QED
      BY <3>1, <3>2
  <2> QED
    BY <2>2, <2>3 DEF Between
<1>7. s \ {x} \in SUBSET (1 .. L)
  OBVIOUS
<1>8. IsFiniteSet(Covered(nm, L, s \ {x})) /\ Cardinality(Covered(nm, L, s \ {x})) \in Nat
  BY <1>5, <1>7
<1>9. Cardinality(Covered(nm, L, s))
        = Cardinality(Covered(nm, L, s \ {x})) + Cardinality(Between(nm, L, x))
          - Cardinality({})
  <2> HIDE DEF Covered, Between
  <2>1. PICK A, B : A = Covered(nm, L, s \ {x}) /\ B = Between(nm, L, x)
    OBVIOUS
  <2>2. IsFiniteSet(A) /\ IsFiniteSet(B)
    BY <1>6, <1>8, <2>1
  <2>3. Cardinality(A \cup B) = Cardinality(A) + Cardinality(B) - Cardinality(A \cap B)
    BY <2>2, FS_Union
  <2> QED
    BY <1>3, <1>4, <2>1, <2>3
<1>10. nm[L + 1 - x] - nm[L - x] \in Int
  <2>1. x \in 1 .. L
    OBVIOUS
  <2> QED
    BY <1>1, <2>1
<1>11. Cardinality({}) = 0
  BY FS_EmptySet
<1>12. IsFiniteSet(Covered(nm, L, s)) /\ Cardinality(Covered(nm, L, s)) \in Nat
  BY <1>5
<1> HIDE DEF Covered, Between
<1> QED
  BY <1>6, <1>8, <1>9, <1>10, <1>11, <1>12

\* All parts together add all labels of the longest name.
LEMMA CoveredAll ==
    ASSUME NEW L \in Nat, NEW nm \in [0 .. L -> Nat], nm[0] = 0,
           \A i, j \in 0 .. L : i < j => nm[i] < nm[j]
    PROVE  Cardinality(Covered(nm, L, 1 .. L)) = nm[L]
<1>0. nm[L] \in Nat
  OBVIOUS
<1>1. ASSUME NEW x \in 1 .. nm[L] PROVE x \in Covered(nm, L, 1 .. L)
  <2> DEFINE T == {i \in 0 .. L : nm[i] >= x}
  <2>1. T \subseteq Nat /\ L \in T
    BY <1>0
  <2>2. PICK i \in T : \A y \in T : ~(y < i)
    BY <2>1, Least
  <2>3. i \in 0 .. L /\ nm[i] >= x /\ i # 0
    OBVIOUS
  <2>4. i - 1 \in 0 .. L /\ i - 1 \notin T /\ L + 1 - i \in 1 .. L
    BY <2>2, <2>3
  <2>5. nm[i - 1] \in Nat /\ nm[i] \in Nat /\ nm[i - 1] < x
    BY <2>3, <2>4
  <2>6. L - (L + 1 - i) = i - 1 /\ L + 1 - (L + 1 - i) = i
    BY <2>3
  <2>7. x \in Between(nm, L, L + 1 - i)
    BY <2>3, <2>5, <2>6 DEF Between
  <2> QED
    BY <2>4, <2>7 DEF Covered
<1>2. ASSUME NEW x \in Covered(nm, L, 1 .. L) PROVE x \in 1 .. nm[L]
  <2>1. PICK i \in 1 .. L : x \in Between(nm, L, i)
    BY <1>2 DEF Covered
  <2>2. /\ L - i \in 0 .. L /\ L + 1 - i \in 0 .. L /\ L \in 0 .. L
        /\ L + 1 - i = L \/ L + 1 - i < L
    OBVIOUS
  <2>3. nm[L - i] \in Nat /\ nm[L + 1 - i] \in Nat /\ nm[L + 1 - i] <= nm[L]
    BY <1>0, <2>2
  <2> QED
    BY <1>0, <2>1, <2>3 DEF Between
<1>3. Covered(nm, L, 1 .. L) = 1 .. nm[L]
  BY <1>1, <1>2
<1>4. Cardinality(1 .. nm[L]) = IF 1 > nm[L] THEN 0 ELSE nm[L] - 1 + 1
  <2>1. PICK M \in Int : M = nm[L]
    BY <1>0
  <2>2. Cardinality(1 .. M) = IF 1 > M THEN 0 ELSE M - 1 + 1
    BY FS_Interval
  <2> QED
    BY <2>1, <2>2
<1> QED
  BY <1>0, <1>3, <1>4

LEMMA SpellsLongest ==
    ASSUME NEW seq, NEW S, Spells(seq, S), NEW m, Longest(S, m)
    PROVE  stripRTypes(seq) = m /\ m \in Nat
<1>1. PICK nm : Spelling(seq, S, nm) /\ seq \in Seq(Parts)
  BY DEF Spells
<1>2. PICK L \in Nat : L = Len(seq) /\ DOMAIN seq = 1 .. L
  BY <1>1
<1>3. /\ nm \in [0 .. L -> Nat] /\ nm[0] = 0 /\ S = {nm[i] : i \in 1 .. L}
      /\ \A i, j \in 0 .. L : i < j => nm[i] < nm[j]
      /\ \A i \in 1 .. L : seq[L + 1 - i].labels = nm[i] - nm[i - 1]
  BY <1>1, <1>2 DEF Spelling
<1>4. nm[L] = m
  <2>1. CASE L = 0
    <3>1. S = {}
      BY <1>3, <2>1
    <3> QED
      BY <1>3, <2>1, <3>1 DEF Longest
  <2>2. CASE L > 0
    <3>1. L \in 1 .. L /\ L \in 0 .. L
      BY <2>2
    <3>2. nm[L] \in S
      BY <1>3, <3>1
    <3>3. PICK i \in 1 .. L : m = nm[i]
      BY <1>3, <3>2 DEF Longest
    <3>4. i \in 0 .. L /\ nm[i] \in Nat /\ nm[L] \in Nat
      BY <1>3, <3>1, <3>3
    <3>5. i < L => nm[i] < nm[L]
      BY <1>3, <3>1, <3>4
    <3>6. nm[L] <= m
      BY <3>2 DEF Longest
    <3>7. i = L
      BY <3>3, <3>4, <3>5, <3>6
    <3> QED
      BY <3>3, <3>7
  <2> QED
    BY <2>1, <2>2
<1> DEFINE D == 1 .. L
           G == [s \in SUBSET D |-> Cardinality(Covered(nm, L, s))]
<1>5. ASSUME NEW s \in SUBSET D, s # {}
      PROVE  /\ Max(s) \in s /\ s \ {Max(s)} \in SUBSET D
             /\ G[s] = G[s \ {Max(s)}] + seq[Max(s)].labels
  <2>1. PICK x : x = Max(s)
    OBVIOUS
  <2>2. x \in s /\ s \ {x} \in SUBSET D
    BY <1>5, <2>1, MaxIs
  <2>3. Cardinality(Covered(nm, L, s))
          = Cardinality(Covered(nm, L, s \ {x})) + (nm[L + 1 - x] - nm[L - x])
    BY <1>3, <2>2, CoveredAdds
  <2>4. L + 1 - x \in 1 .. L /\ L + 1 - (L + 1 - x) = x /\ L + 1 - x - 1 = L - x
    BY <2>2
  <2>5. seq[x].labels = nm[L + 1 - x] - nm[L - x]
    <3>1. PICK i \in 1 .. L : i = L + 1 - x
      BY <2>4
    <3>2. seq[L + 1 - i].labels = nm[i] - nm[i - 1]
      BY <1>3
    <3>3. L + 1 - i = x /\ i - 1 = L - x
      BY <2>4, <3>1
    <3> QED
      BY <3>1, <3>2, <3>3
  <2>6. G[s] = Cardinality(Covered(nm, L, s))
    OBVIOUS
  <2>7. G[s \ {x}] = Cardinality(Covered(nm, L, s \ {x}))
    BY <2>2
  <2> QED
    BY <2>1, <2>2, <2>3, <2>5, <2>6, <2>7, Zenon
<1>6. G[{}] = 0
  <2>1. Covered(nm, L, {}) = {}
    BY DEF Covered
  <2> QED
    BY <2>1, FS_EmptySet
<1>7. G = Stripped(G, seq)
  <2>1. ASSUME NEW s \in SUBSET D
        PROVE  G[s] = IF s = {} THEN 0 ELSE G[s \ {Max(s)}] + seq[Max(s)].labels
    BY <1>5, <1>6, Zenon
  <2>2. G = [s \in SUBSET D |-> G[s]]
    BY Zenon
  <2> HIDE DEF G
  <2> QED
    BY <1>2, <2>1, <2>2, Zenon DEF Stripped
<1>8. ASSUME NEW g, g = Stripped(g, seq), NEW s \in SUBSET D PROVE g[s] = G[s]
  <2> DEFINE B == {Cardinality(t) : t \in {u \in SUBSET D : g[u] # G[u]}}
  <2> SUFFICES ASSUME g[s] # G[s] PROVE FALSE
    OBVIOUS
  <2>1. \A t \in SUBSET D : IsFiniteSet(t) /\ Cardinality(t) \in Nat
    <3>1. IsFiniteSet(D)
      BY FS_Interval
    <3> HIDE DEF D
    <3> QED
      BY <3>1, FS_Subset, FS_CardinalityType
  <2> HIDE DEF G, D
  <2>2. B \subseteq Nat /\ B # {}
    BY <2>1
  <2>3. PICK x \in B : \A y \in B : ~(y < x)
    BY <2>2, Least
  <2>4. PICK t \in SUBSET D : g[t] # G[t] /\ x = Cardinality(t)
    BY <2>3
  <2>5. g[t] = IF t = {} THEN 0 ELSE g[t \ {Max(t)}] + seq[Max(t)].labels
    BY <1>2, <1>8, Zenon DEF Stripped, D
  <2>6. G[t] = IF t = {} THEN 0 ELSE G[t \ {Max(t)}] + seq[Max(t)].labels
    BY <1>5, <1>6, Zenon
  <2>7. t # {}
    BY <2>4, <2>5, <2>6, Zenon
  <2>8. t \ {Max(t)} \in SUBSET D /\ Max(t) \in t
    BY <1>5, <2>7, Zenon
  <2>9. Cardinality(t \ {Max(t)}) < Cardinality(t)
    BY <2>1, <2>8, FS_RemoveElement
  <2>10. g[t \ {Max(t)}] = G[t \ {Max(t)}]
    BY <2>3, <2>4, <2>8, <2>9, Zenon
  <2> QED
    BY <2>4, <2>5, <2>6, <2>7, <2>10, Zenon
<1>9. PICK c : c = (CHOOSE g : g = Stripped(g, seq))
  OBVIOUS
<1>10. c = Stripped(c, seq)
  BY <1>7, <1>9, Zenon
<1>11. c[D] = G[D]
  BY <1>8, <1>10, Zenon
<1>12. G[D] = m
  BY <1>3, <1>4, CoveredAll
<1>13. m \in Nat
  BY <1>3, <1>4
<1> QED
  BY <1>2, <1>9, <1>11, <1>12, <1>13, StripIsFolded, Zenon

\* The first names grow by one label as long as no number of labels is left out.
LEMMA SpellsFirst ==
    ASSUME NEW seq, NEW S, Spells(seq, S), NEW n \in Nat, n > 0
    PROVE  /\ S \subseteq Nat \ {0}
           /\ 1 .. n \subseteq S
                <=> n <= Len(seq) /\ \A k \in 0 .. n - 1 : seq[Len(seq) - k].labels = 1
<1>1. PICK nm : Spelling(seq, S, nm) /\ seq \in Seq(Parts)
  BY DEF Spells
<1>2. PICK L \in Nat : L = Len(seq) /\ DOMAIN seq = 1 .. L
  BY <1>1
<1>3. /\ nm \in [0 .. L -> Nat] /\ nm[0] = 0 /\ S = {nm[i] : i \in 1 .. L}
      /\ \A i, j \in 0 .. L : i < j => nm[i] < nm[j]
      /\ \A i \in 1 .. L : seq[L + 1 - i].labels = nm[i] - nm[i - 1]
  BY <1>1, <1>2 DEF Spelling
<1>4. \A i \in 1 .. L : i \in 0 .. L /\ i - 1 \in 0 .. L /\ nm[i] \in Nat /\ nm[i - 1] \in Nat
                        /\ nm[i - 1] < nm[i]
  BY <1>3
<1>5. S \subseteq Nat \ {0}
  BY <1>3, <1>4
<1>6. ASSUME n <= L, \A k \in 0 .. n - 1 : seq[L - k].labels = 1
      PROVE  1 .. n \subseteq S
  <2>1. ASSUME NEW i \in 1 .. n PROVE nm[i] = nm[i - 1] + 1
    <3>1. i - 1 \in 0 .. n - 1 /\ i \in 1 .. L /\ L - (i - 1) = L + 1 - i
      BY <1>6
    <3>2. seq[L + 1 - i].labels = 1 /\ seq[L + 1 - i].labels = nm[i] - nm[i - 1]
      BY <1>3, <1>6, <3>1
    <3> QED
      BY <1>4, <3>1, <3>2
  <2>2. ASSUME NEW i \in 0 .. n PROVE nm[i] = i
    <3> DEFINE T == {h \in 0 .. n : nm[h] # h}
    <3> SUFFICES ASSUME T # {} PROVE FALSE
      OBVIOUS
    <3>1. T \subseteq Nat
      OBVIOUS
    <3>2. PICK h \in T : \A y \in T : ~(y < h)
      BY <3>1, Least
    <3>3. h # 0 /\ h \in 1 .. n /\ h - 1 \in 0 .. n /\ h - 1 \notin T
      BY <1>3, <3>2
    <3>4. nm[h - 1] = h - 1
      BY <3>3
    <3> QED
      BY <2>1, <3>3, <3>4
  <2>3. \A i \in 1 .. n : i \in 0 .. n /\ i \in 1 .. L
    BY <1>6
  <2> QED
    BY <1>3, <2>2, <2>3
<1>7. ASSUME 1 .. n \subseteq S
      PROVE  n <= L /\ \A k \in 0 .. n - 1 : seq[L - k].labels = 1
  <2>1. ASSUME NEW i \in 0 .. L, i <= n PROVE nm[i] = i
    <3> DEFINE T == {h \in 0 .. L : h <= n /\ nm[h] # h}
    <3> SUFFICES ASSUME T # {} PROVE FALSE
      BY <2>1
    <3>1. T \subseteq Nat
      OBVIOUS
    <3>2. PICK h \in T : \A y \in T : ~(y < h)
      BY <3>1, Least
    <3>3. h # 0 /\ h \in 1 .. L /\ h - 1 \in 0 .. L /\ h - 1 \notin T /\ h \in 1 .. n
      BY <1>3, <3>2
    <3>4. nm[h - 1] = h - 1
      BY <3>3
    <3>5. nm[h] > h
      BY <1>4, <3>3, <3>4
    <3>6. PICK j \in 1 .. L : nm[j] = h
      BY <1>3, <1>7, <3>3
    <3>7. CASE j < h
      <4>1. j \in 0 .. L /\ j \notin T
        BY <3>2, <3>7
      <4>2. nm[j] = j
        BY <3>3, <3>7, <4>1
      <4> QED
        BY <3>6, <3>7, <4>2
    <3>8. CASE j = h
      BY <3>5, <3>6, <3>8, <1>4
    <3>9. CASE h < j
      <4>1. nm[h] < nm[j] /\ nm[h] \in Nat
        BY <1>3, <1>4, <3>3, <3>9
      <4> QED
        BY <3>5, <3>6, <4>1
    <3> QED
      BY <3>3, <3>7, <3>8, <3>9
  <2>2. n <= L
    <3> SUFFICES ASSUME n > L PROVE FALSE
      OBVIOUS
    <3>1. n \in 1 .. n
      OBVIOUS
    <3>2. PICK j \in 1 .. L : nm[j] = n
      BY <1>3, <1>7, <3>1
    <3>3. j \in 0 .. L /\ j <= n
      OBVIOUS
    <3>4. nm[j] = j
      BY <2>1, <3>3
    <3> QED
      BY <3>2, <3>4
  <2>3. ASSUME NEW k \in 0 .. n - 1 PROVE seq[L - k].labels = 1
    <3>1. /\ k + 1 \in 1 .. L /\ k + 1 \in 0 .. L /\ k \in 0 .. L /\ k + 1 <= n /\ k <= n
          /\ L + 1 - (k + 1) = L - k /\ k + 1 - 1 = k
      BY <2>2
    <3>2. nm[k + 1] = k + 1 /\ nm[k] = k
      BY <2>1, <3>1
    <3>3. seq[L + 1 - (k + 1)].labels = nm[k + 1] - nm[k + 1 - 1]
      BY <1>3, <3>1
    <3> QED
      BY <3>1, <3>2, <3>3
  <2> QED
    BY <2>2, <2>3
<1> QED
  BY <1>2, <1>5, <1>6, <1>7

-----------------------------------------------------------------------------
(***************************************************************************)
(* What a request does to a sequence.  The names asked for on the way to a  *)
(* full name of D labels are some of 1 .. D; D + 1 is the full name once    *)
(* more, as TXT after A.                                                    *)
(***************************************************************************)
Naming(D, S) == D \in Nat \ {0} /\ S \subseteq 1 .. D + 1 /\ D \in S

\* The sequence spells the names as far as m, the farthest that was asked for.
NamedTo(seq, num, D, S, m) ==
    /\ m \in {0} \cup S /\ Spells(seq, {n \in S : n <= m})
    /\ num = IF m > D THEN D ELSE m
    /\ m = D => (Head(seq).type = "TXT" <=> D + 1 \notin S)
Named(seq, num, D, S) == \E m : NamedTo(seq, num, D, S, m)

\* A request for v, the next name after at; the last one is asked for as TXT.
Asks(q, D, S, at, v) ==
    /\ at \in {0} \cup S /\ at <= D
    /\ v \in S /\ v > at /\ \A n \in S : n <= at \/ v <= n
    /\ q.labels = IF v > D THEN D ELSE v
    /\ q.type \in Types_asked
    /\ q.type = "TXT" <=> v = D + 1 \/ (v = D /\ D + 1 \notin S)

LEMMA NamesAre ==
    ASSUME NEW D, NEW S, Naming(D, S)
    PROVE  /\ D \in Nat /\ D > 0 /\ D \in S
           /\ \A n \in S : n \in Nat /\ n > 0 /\ n <= D + 1
           /\ \A n \in S : n > D => n = D + 1
BY DEF Naming

\* The names as far as the next, and as far as the last.
LEMMA NamesUpTo ==
    ASSUME NEW S, \A n \in S : n \in Nat, NEW m \in Nat, NEW v \in S, v > m,
           \A n \in S : n <= m \/ v <= n
    PROVE  {n \in S : n <= m} \cup {v} = {n \in S : n <= v}
<1>1. ASSUME NEW n \in {h \in S : h <= m} \cup {v} PROVE n \in {h \in S : h <= v}
  <2>1. n \in S /\ n \in Nat /\ v \in Nat /\ (n <= m \/ n = v)
    OBVIOUS
  <2>2. n <= v
    BY <2>1
  <2> QED
    BY <2>1, <2>2
<1>2. ASSUME NEW n \in {h \in S : h <= v} PROVE n \in {h \in S : h <= m} \cup {v}
  <2>1. n \in S /\ n \in Nat /\ v \in Nat /\ n <= v /\ (n <= m \/ v <= n)
    OBVIOUS
  <2>2. n <= m \/ n = v
    BY <2>1
  <2> QED
    BY <2>1, <2>2
<1> QED
  BY <1>1, <1>2

LEMMA NamesAll ==
    ASSUME NEW S, NEW m, \A n \in S : n <= m
    PROVE  {n \in S : n <= m} = S
OBVIOUS

LEMMA NamedNone ==
    ASSUME NEW D, NEW S, Naming(D, S)
    PROVE  Named(<<>>, 0, D, S)
<1>1. {n \in S : n <= 0} = {}
  <2>1. \A n \in S : ~(n <= 0)
    BY NamesAre
  <2> QED
    BY <2>1
<1>2. NamedTo(<<>>, 0, D, S, 0)
  <2>1. Spells(<<>>, {n \in S : n <= 0})
    BY <1>1, SpellsNone, Zenon
  <2>2. D \in Nat /\ D > 0
    BY NamesAre
  <2>3. 0 # D /\ 0 = IF 0 > D THEN D ELSE 0
    BY <2>2
  <2> QED
    BY <2>1, <2>3, Zenon DEF NamedTo
<1> QED
  BY <1>2 DEF Named

LEMMA NamedIs ==
    ASSUME NEW D, NEW S, Naming(D, S), NEW seq, NEW num, NEW m, NamedTo(seq, num, D, S, m)
    PROVE  /\ stripRTypes(seq) = m /\ m \in 0 .. D + 1 /\ num \in 0 .. D
           /\ Longest({n \in S : n <= m}, m)
<1>0. D \in Nat /\ \A n \in S : n \in Nat /\ n > 0 /\ n <= D + 1
  BY NamesAre
<1>1. m \in 0 .. D + 1
  BY <1>0 DEF NamedTo
<1>2. Longest({n \in S : n <= m}, m)
  <2>1. CASE m = 0
    <3>1. \A n \in S : ~(n <= 0)
      BY <1>0
    <3> QED
      BY <2>1, <3>1 DEF Longest
  <2>2. CASE m \in S
    BY <1>1, <2>2 DEF Longest
  <2> QED
    BY <2>1, <2>2 DEF NamedTo
<1>3. stripRTypes(seq) = m
  BY <1>2, SpellsLongest, Zenon DEF NamedTo
<1>4. num \in 0 .. D
  BY <1>0, <1>1 DEF NamedTo
<1> QED
  BY <1>1, <1>2, <1>3, <1>4

LEMMA NamedLonger ==
    ASSUME NEW D, NEW S, Naming(D, S), NEW seq, NEW num, Named(seq, num, D, S),
           NEW q, NEW at, NEW v, Asks(q, D, S, at, v), at <= num,
           NEW new, new = updateProbeEntry(D, seq, q),
           NEW to, to = IF stripRTypes(seq) < q.labels THEN q.labels ELSE num
    PROVE  /\ Named(new, to, D, S) /\ to \in Nat /\ num <= to /\ q.labels <= to /\ to <= D
           /\ q.type = "TXT" => Spells(new, S) /\ to = D
<1>1. PICK m : NamedTo(seq, num, D, S, m)
  BY DEF Named
<1>2. /\ stripRTypes(seq) = m /\ m \in 0 .. D + 1 /\ num \in 0 .. D
      /\ Longest({n \in S : n <= m}, m)
  BY <1>1, NamedIs
<1>3. /\ m \in {0} \cup S /\ Spells(seq, {n \in S : n <= m})
      /\ num = IF m > D THEN D ELSE m
      /\ m = D => (Head(seq).type = "TXT" <=> D + 1 \notin S)
  BY <1>1 DEF NamedTo
<1>4. /\ D \in Nat /\ D > 0 /\ D \in S
      /\ \A n \in S : n \in Nat /\ n > 0 /\ n <= D + 1
      /\ v \in S /\ v \in 1 .. D + 1 /\ at \in 0 .. D
  <2>1. /\ D \in Nat /\ D > 0 /\ D \in S
        /\ \A n \in S : n \in Nat /\ n > 0 /\ n <= D + 1
    BY NamesAre
  <2>2. v \in S /\ at \in {0} \cup S /\ at <= D
    BY DEF Asks
  <2> QED
    BY <2>1, <2>2
<1>5. q.labels \in 1 .. D /\ q.labels <= v
  BY <1>4 DEF Asks
<1>6. CASE m < q.labels
  <2>1. m = at /\ m < v /\ v <= D /\ q.labels = v
    <3>1. num = m /\ m < v
      BY <1>2, <1>3, <1>4, <1>5, <1>6
    <3>2. m = 0 \/ m <= at
      BY <1>2, <1>3, <1>4, <3>1 DEF Asks
    <3>3. m = at
      BY <1>2, <1>4, <3>1, <3>2
    <3>4. v <= D
      BY <1>4, <1>5, <1>6, <3>3 DEF Asks
    <3>5. q.labels = IF v > D THEN D ELSE v
      BY DEF Asks
    <3>6. ~(v > D)
      BY <1>4, <3>4
    <3> QED
      BY <3>1, <3>3, <3>4, <3>5, <3>6
  <2>2. new = <<Part(v - 1, v - m, q.type)>> \o seq /\ to = v
    BY <1>2, <1>6, <2>1 DEF updateProbeEntry, More
  <2>3. Part(v - 1, v - m, q.type) \in Parts /\ Part(v - 1, v - m, q.type).labels = v - m
        /\ Part(v - 1, v - m, q.type).type = q.type
    BY <1>2, <1>4, <2>1 DEF Part, Parts, Asks
  <2>4. Spells(new, {n \in S : n <= m} \cup {v})
    <3>1. PICK part : part = Part(v - 1, v - m, q.type)
      OBVIOUS
    <3>2. v \in Nat /\ v > m
      BY <1>2, <1>4, <2>1
    <3>3. PICK low : low = {n \in S : n <= m}
      OBVIOUS
    <3>4. Spells(<<part>> \o seq, low \cup {v})
      BY <1>2, <1>3, <2>3, <3>1, <3>2, <3>3, SpellsMore, Zenon
    <3> QED
      BY <2>2, <3>1, <3>3, <3>4, Zenon
  <2>5. {n \in S : n <= m} \cup {v} = {n \in S : n <= v}
    <3>1. m \in Nat /\ v > m /\ \A n \in S : n \in Nat /\ (n <= m \/ v <= n)
      BY <1>2, <1>4, <2>1 DEF Asks
    <3>2. PICK i \in Nat, h \in S : i = m /\ h = v
      BY <1>4, <3>1
    <3>3. {n \in S : n <= i} \cup {h} = {n \in S : n <= h}
      <4>1. \A n \in S : n \in Nat
        BY <3>1
      <4>2. h > i /\ \A n \in S : n <= i \/ h <= n
        BY <3>1, <3>2
      <4> QED
        BY <4>1, <4>2, NamesUpTo
    <3> QED
      BY <3>2, <3>3
  <2>6. Head(new).type = q.type
    BY <1>3, <2>2, <2>3 DEF Spells
  <2>7. NamedTo(new, to, D, S, v)
    <3>1. v = D => (Head(new).type = "TXT" <=> D + 1 \notin S)
      BY <1>4, <2>6 DEF Asks
    <3>2. ~(v > D)
      BY <1>4, <2>1
    <3>3. to = IF v > D THEN D ELSE v
      BY <2>2, <3>2
    <3>4. v \in {0} \cup S /\ Spells(new, {n \in S : n <= v})
      BY <1>4, <2>4, <2>5
    <3> QED
      BY <3>1, <3>3, <3>4, Zenon DEF NamedTo
  <2>8. q.type = "TXT" => {n \in S : n <= v} = S /\ v = D
    <3>1. v # D + 1
      BY <1>4, <2>1
    <3> SUFFICES ASSUME q.type = "TXT" PROVE {n \in S : n <= v} = S /\ v = D
      OBVIOUS
    <3>2. v = D /\ D + 1 \notin S
      BY <3>1 DEF Asks
    <3>3. \A n \in S : n \in Nat /\ n <= v
      BY <1>4, <3>2
    <3> QED
      BY <3>2, <3>3, NamesAll
  <2>9. num <= to /\ q.labels <= to /\ to <= D /\ to \in Nat
    BY <1>2, <1>3, <1>4, <2>1, <2>2
  <2> QED
    BY <2>2, <2>4, <2>5, <2>7, <2>8, <2>9 DEF Named
<1>7. CASE ~(m < q.labels) /\ Again(seq, q)
  <2>1. m = q.labels /\ q.type = "TXT" /\ Head(seq).type # "TXT"
    BY <1>2, <1>7 DEF Again
  <2>2. m = D /\ D + 1 \in S
    <3>1. v = D + 1 \/ v = D
      BY <2>1 DEF Asks
    <3>2. m = D
      BY <1>4, <2>1, <3>1 DEF Asks
    <3> QED
      BY <1>3, <2>1, <3>2
  <2>3. new = <<Part(D - 1, 1, "TXT")>> \o seq /\ to = D /\ num = D
    BY <1>2, <1>3, <1>4, <1>7, <2>2 DEF updateProbeEntry
  <2>4. Part(D - 1, 1, "TXT") \in Parts /\ Part(D - 1, 1, "TXT").labels = (D + 1) - m
    BY <1>4, <2>2 DEF Part, Parts, Types_asked
  <2>5. Spells(new, {n \in S : n <= m} \cup {D + 1})
    <3>1. PICK part : part = Part(D - 1, 1, "TXT")
      OBVIOUS
    <3>2. D + 1 \in Nat /\ D + 1 > m
      BY <1>4, <2>2
    <3>3. PICK low, h : low = {n \in S : n <= m} /\ h = D + 1
      OBVIOUS
    <3>4. Spells(<<part>> \o seq, low \cup {h})
      BY <1>2, <1>3, <2>4, <3>1, <3>2, <3>3, SpellsMore, Zenon
    <3> QED
      BY <2>3, <3>1, <3>3, <3>4, Zenon
  <2>6. {n \in S : n <= m} \cup {D + 1} = S /\ {n \in S : n <= D + 1} = S
    <3>1. PICK h \in S, i \in Nat : h = D + 1 /\ i = m
      BY <1>4, <2>2
    <3>2. h > i /\ \A n \in S : n \in Nat /\ n <= h /\ (n <= i \/ h <= n)
      BY <1>4, <2>2, <3>1
    <3>3. {n \in S : n <= i} \cup {h} = {n \in S : n <= h}
      <4>1. \A n \in S : n \in Nat
        BY <3>2
      <4>2. \A n \in S : n <= i \/ h <= n
        BY <3>2
      <4> QED
        BY <3>2, <4>1, <4>2, NamesUpTo
    <3>4. {n \in S : n <= h} = S
      BY <3>2, NamesAll
    <3> QED
      BY <3>1, <3>3, <3>4
  <2>7. NamedTo(new, to, D, S, D + 1)
    <3>1. Spells(new, {n \in S : n <= D + 1}) /\ D + 1 \in {0} \cup S
      BY <2>2, <2>5, <2>6
    <3>2. D + 1 > D /\ D + 1 # D
      BY <1>4
    <3>3. to = IF D + 1 > D THEN D ELSE D + 1
      BY <2>3, <3>2
    <3> QED
      BY <3>1, <3>2, <3>3, Zenon DEF NamedTo
  <2>8. num <= to /\ q.labels <= to /\ to <= D /\ to \in Nat
    BY <1>4, <1>5, <2>3
  <2> QED
    BY <2>3, <2>5, <2>6, <2>7, <2>8 DEF Named
<1>8. CASE ~(m < q.labels) /\ ~Again(seq, q)
  <2>1. new = seq /\ to = num
    BY <1>2, <1>8 DEF updateProbeEntry
  <2>2. q.labels <= to /\ to <= D /\ to \in Nat /\ num <= to
    BY <1>2, <1>3, <1>4, <1>5, <1>8, <2>1
  <2>3. ASSUME q.type = "TXT" PROVE {n \in S : n <= m} = S /\ num = D
    <3>1. v = D + 1 \/ (v = D /\ D + 1 \notin S)
      BY <2>3 DEF Asks
    <3>2. q.labels = D /\ m >= D
      BY <1>2, <1>4, <1>8, <3>1 DEF Asks
    <3>3. num = D
      BY <1>2, <1>3, <1>4, <3>2
    <3>4. m = D => D + 1 \notin S
      BY <1>2, <1>3, <1>8, <2>3, <3>2 DEF Again
    <3>5. {n \in S : n <= m} = S
      <4>1. m \in Nat /\ \A n \in S : n \in Nat /\ n <= m
        BY <1>2, <1>4, <3>2, <3>4
      <4> QED
        BY <4>1, NamesAll
    <3> QED
      BY <3>3, <3>5
  <2> QED
    BY <1>1, <1>3, <2>1, <2>2, <2>3 DEF Named
<1> QED
  BY <1>6, <1>7, <1>8

\* The first request, which starts a probe.
LEMMA NamedFirst ==
    ASSUME NEW D, NEW S, Naming(D, S), NEW q, NEW v, Asks(q, D, S, 0, v),
           NEW new, new = <<Part(q.labels - 1, q.labels, q.type)>>
    PROVE  /\ Named(new, q.labels, D, S) /\ q.labels \in 1 .. D
           /\ q.type = "TXT" => Spells(new, S) /\ q.labels = D
<1>1. D \in Nat \ {0} /\ v \in 1 .. D + 1 /\ (D <= 0 \/ v <= D) /\ q.labels = v
  BY DEF Naming, Asks
<1>2. q.labels \in 1 .. D
  BY <1>1
<1>3. stripRTypes(<<>>) = 0
  <2>1. Spells(<<>>, {}) /\ Longest({}, 0)
    BY SpellsNone DEF Longest
  <2> QED
    BY <2>1, SpellsLongest
<1>4. new = updateProbeEntry(D, <<>>, q)
  <2>1. PICK part : part = Part(q.labels - 1, q.labels, q.type)
    OBVIOUS
  <2>2. updateProbeEntry(D, <<>>, q) = <<Part(q.labels - 1, q.labels - 0, q.type)>> \o <<>>
    BY <1>2, <1>3 DEF updateProbeEntry, More
  <2>3. q.labels - 0 = q.labels
    BY <1>2
  <2>4. <<part>> \o <<>> = <<part>>
    OBVIOUS
  <2> QED
    BY <2>1, <2>2, <2>3, <2>4
<1>5. q.labels = IF stripRTypes(<<>>) < q.labels THEN q.labels ELSE 0
  BY <1>2, <1>3
<1>6. Named(<<>>, 0, D, S) /\ 0 <= 0
  BY NamedNone
<1> QED
  BY <1>2, <1>4, <1>5, <1>6, NamedLonger

\* More than one name was asked for: there is one besides the full name.
LEMMA SeveralNames ==
    ASSUME NEW D, NEW S, NEW seq, Spells(seq, S), D \in S
    PROVE  Several(seq) <=> S # {D}
<1>1. IsFiniteSet(S) /\ Cardinality(S) = Len(seq)
  BY SpellsSize
<1>2. Len(seq) \in Nat
  BY DEF Spells
<1>3. CASE S = {D}
  <2>1. Cardinality({D}) = 1
    BY FS_Singleton
  <2>2. Len(seq) = 1
    BY <1>1, <1>3, <2>1
  <2> QED
    BY <1>3, <2>2 DEF Several
<1>4. CASE S # {D}
  <2>1. S \ {D} # {}
    BY <1>4
  <2>2. IsFiniteSet(S \ {D}) /\ Cardinality(S \ {D}) = Cardinality(S) - 1
    BY <1>1, FS_RemoveElement
  <2>3. Cardinality(S \ {D}) # 0 /\ Cardinality(S \ {D}) \in Nat
    BY <2>1, <2>2, FS_EmptySet, FS_CardinalityType
  <2>4. Len(seq) > 1
    BY <1>1, <1>2, <2>2, <2>3
  <2> QED
    BY <1>4, <2>4 DEF Several
<1> QED
  BY <1>3, <1>4

-----------------------------------------------------------------------------
(***************************************************************************)
(* The names that are asked for on the way to a full name: those of the     *)
(* resolver's steps, after a denial only the first of them.                 *)
(***************************************************************************)
WayOf(target, b) == Way(IF target THEN b.induced ELSE b.steps)
Shortest(way) == {n \in way : \A m \in way : n <= m}
NamesOf(kind, target, b) ==
    (IF kind = "qminmode" THEN Shortest(WayOf(target, b)) ELSE WayOf(target, b))
        \cup {Cfg.depth}
        \cup (IF b.type_a /\ WayOf(target, b) # {} THEN {Cfg.depth + 1} ELSE {})

LEMMA NamesOfIs ==
    ASSUME Cfg \in Configs, NEW kind, NEW target, NEW b \in Behaviours,
           NEW D, D = Cfg.depth, NEW N, N = NamesOf(kind, target, b),
           NEW W, W = WayOf(target, b)
    PROVE  /\ Naming(D, N) /\ \A n \in W : n \in Nat /\ n > 0 /\ n < D
           /\ \A n \in N : n < D => n \in W /\ (kind = "qminmode" => \A m \in W : n <= m)
           /\ kind # "qminmode" => W \subseteq N
           /\ W # {} => \E n \in N : n < D
           /\ D + 1 \in N <=> b.type_a /\ W # {}
<1>1. D \in Nat /\ D > 0
  BY ConfigAssumption
<1>2. b.steps \subseteq Nat \ {0} /\ b.induced \subseteq Nat \ {0}
  BY DEF Behaviours
<1>3. \A n \in W : n \in Nat /\ n > 0 /\ n < D
  BY <1>2 DEF WayOf, Way
<1> DEFINE low == IF kind = "qminmode" THEN Shortest(W) ELSE W
           last == IF b.type_a /\ W # {} THEN {D + 1} ELSE {}
<1>4. N = low \cup {D} \cup last
  BY Zenon DEF NamesOf
<1>5. low \subseteq W /\ (kind = "qminmode" => \A n \in low : \A m \in W : n <= m)
  BY DEF Shortest
<1>6. last \subseteq {D + 1} /\ (D + 1 \in last <=> b.type_a /\ W # {})
  OBVIOUS
<1>7. kind # "qminmode" => W \subseteq low
  OBVIOUS
<1>8. W # {} => \E n \in low : n \in W
  <2>1. CASE kind = "qminmode"
    <3> SUFFICES ASSUME W # {} PROVE \E n \in low : n \in W
      OBVIOUS
    <3>1. W \subseteq Nat
      BY <1>3
    <3>2. PICK n \in W : \A m \in W : ~(m < n)
      BY <3>1, Least
    <3>3. \A m \in W : n <= m
      BY <1>3, <3>2
    <3> QED
      BY <2>1, <3>3 DEF Shortest
  <2>2. CASE kind # "qminmode"
    BY <2>2
  <2> QED
    BY <2>1, <2>2
<1> HIDE DEF low, last
<1>9. \A n \in N : n \in low \/ n = D \/ n = D + 1
  BY <1>4, <1>6
<1>10. \A n \in low : n \in Nat /\ n > 0 /\ n < D
  BY <1>3, <1>5
<1>11. Naming(D, N)
  <2>1. \A n \in N : n \in 1 .. D + 1
    BY <1>1, <1>9, <1>10
  <2> QED
    BY <1>1, <1>4, <2>1 DEF Naming
<1>12. \A n \in N : n < D => n \in low
  BY <1>1, <1>9
<1>13. D + 1 \in N <=> D + 1 \in last
  <2>1. D + 1 \notin low /\ D + 1 # D
    BY <1>1, <1>10
  <2> QED
    BY <1>4, <2>1
<1> QED
  BY <1>3, <1>4, <1>5, <1>6, <1>7, <1>8, <1>10, <1>11, <1>12, <1>13

\* Where a query is on its way to the full name, and what it asks for next.
OnWay(j) ==
    LET N == NamesOf(j.id.kind, j.target, j.behaviour) IN
    /\ j.at \in {0} \cup N /\ j.at <= Cfg.depth /\ \E n \in N : n > j.at
    /\ j.full = (j.id.kind = "qminmode" /\ j.at > 0)

LEMMA QueryAsks ==
    ASSUME Cfg \in Configs, NEW j, j.id.kind # "nxopti", j.id.depth = Cfg.depth,
           j.behaviour \in Behaviours, OnWay(j), NEW q, q = Next_query(j),
           NEW N, N = NamesOf(j.id.kind, j.target, j.behaviour)
    PROVE  q.id = j.id /\ Labels(j) = Cfg.depth /\ \E v : Asks(q, Cfg.depth, N, j.at, v)
<1>1. PICK D, W, b, target, kind : /\ D = Cfg.depth /\ W = WayOf(j.target, j.behaviour)
                    /\ b = j.behaviour /\ target = j.target /\ kind = j.id.kind
  OBVIOUS
<1>2. /\ Naming(D, N) /\ \A n \in W : n \in Nat /\ n > 0 /\ n < D
      /\ \A n \in N : n < D => n \in W /\ (kind = "qminmode" => \A m \in W : n <= m)
      /\ kind # "qminmode" => W \subseteq N
      /\ W # {} => \E n \in N : n < D
      /\ D + 1 \in N <=> b.type_a /\ W # {}
  <2>1. /\ N = NamesOf(kind, target, b) /\ W = WayOf(target, b) /\ b \in Behaviours
        /\ D = Cfg.depth
    BY <1>1
  <2> QED
    BY <2>1, NamesOfIs
<1>3. /\ D \in Nat /\ D > 0 /\ D \in N
      /\ \A n \in N : n \in Nat /\ n > 0 /\ n <= D + 1
      /\ \A n \in N : n > D => n = D + 1
  BY <1>2, NamesAre
<1>4. /\ j.at \in {0} \cup N /\ j.at <= D /\ \E n \in N : n > j.at
      /\ j.full = (kind = "qminmode" /\ j.at > 0)
  BY <1>1, Zenon DEF OnWay
<1>5. Labels(j) = D /\ Steps(j) = W
  <2>1. Labels(j) = D
    BY <1>1 DEF Labels
  <2> QED
    BY <1>1, <2>1, Zenon DEF Steps, WayOf, Way
<1>6. Left(j) = IF j.full THEN {} ELSE {n \in W : n > j.at}
  BY <1>5, Zenon DEF Left
<1>7. j.at \in Nat
  <2>1. j.at = 0 \/ j.at \in N
    BY <1>4
  <2>2. j.at \in N => j.at \in Nat
    BY <1>3, Zenon
  <2> QED
    BY <2>1, <2>2
<1>0. j.full <=> kind = "qminmode" /\ j.at > 0
  BY <1>4, Zenon
<1>8. CASE Left(j) # {}
  <2>1. ~j.full /\ Left(j) = {n \in W : n > j.at}
    BY <1>6, <1>8
  <2>2. Left(j) \subseteq Nat
    BY <1>2, <2>1
  <2>3. PICK x \in Left(j) : \A y \in Left(j) : ~(y < x)
    BY <1>8, <2>2, Least
  <2>4. \E n \in Left(j) : \A m \in Left(j) : n <= m
    BY <2>2, <2>3
  <2>5. PICK n : n = CHOOSE h \in Left(j) : \A m \in Left(j) : h <= m
    OBVIOUS
  <2>6. n \in Left(j) /\ \A m \in Left(j) : n <= m
    BY <2>4, <2>5, Zenon
  <2>7. n \in W /\ n > j.at /\ n < D /\ \A m \in W : m > j.at => n <= m
    BY <1>2, <2>1, <2>6
  <2>8. q = [id |-> j.id, labels |-> n, type |-> "NS",
             b |-> n = 1 /\ Cfg.b /\ ~j.behaviour.mixed]
    BY <1>8, <2>5, Zenon DEF Next_query
  <2>9. n \in N
    <3>1. CASE kind = "qminmode"
      <4>1. j.at = 0
        <5>1. ~(j.at > 0)
          BY <1>0, <2>1, <3>1, Zenon
        <5> QED
          BY <1>7, <5>1
      <4>2. PICK h \in N : h < D
        BY <1>2, <2>7
      <4>3. h \in W /\ h <= n
        BY <1>2, <2>7, <3>1, <4>2
      <4>4. n <= h
        BY <1>2, <2>7, <4>1, <4>3
      <4>5. h = n
        BY <1>2, <2>7, <4>3, <4>4
      <4> QED
        BY <4>2, <4>5
    <3>2. CASE kind # "qminmode"
      BY <1>2, <2>7, <3>2
    <3> QED
      BY <3>1, <3>2
  <2>10. \A m \in N : m <= j.at \/ n <= m
    <3>1. ASSUME NEW m \in N, m > j.at PROVE n <= m
      <4>1. m < D => m \in W
        BY <1>2
      <4>2. ~(m < D) => n <= m
        BY <1>2, <1>3, <2>7
      <4> QED
        BY <2>7, <3>1, <4>1, <4>2
    <3>2. \A m \in N : m \in Nat
      BY <1>3
    <3> QED
      BY <1>7, <3>1, <3>2
  <2>11. Asks(q, D, N, j.at, n)
    <3>1. q.labels = n /\ q.type = "NS" /\ n # D /\ n # D + 1 /\ ~(n > D)
      BY <1>2, <1>3, <2>7, <2>8
    <3>2. q.labels = IF n > D THEN D ELSE n
      BY <3>1
    <3>3. q.type \in Types_asked /\ q.type # "TXT"
      BY <3>1 DEF Types_asked
    <3> QED
      BY <1>4, <2>7, <2>9, <2>10, <3>1, <3>2, <3>3, Zenon DEF Asks
  <2>12. q.id = j.id
    BY <2>8
  <2> QED
    BY <1>1, <1>5, <2>11, <2>12
<1>9. CASE Left(j) = {}
  <2>1. \A n \in N : n <= j.at \/ n >= D
    <3>1. ASSUME NEW n \in N, n > j.at, n < D PROVE FALSE
      <4>1. n \in W /\ (kind = "qminmode" => \A m \in W : n <= m)
        BY <1>2, <3>1
      <4>2. j.full
        BY <1>6, <1>9, <3>1, <4>1
      <4>3. kind = "qminmode" /\ j.at > 0 /\ j.at \in N /\ j.at < D
        <5>1. kind = "qminmode" /\ j.at > 0
          BY <1>0, <4>2, Zenon
        <5>2. j.at # 0 /\ j.at \in {0} \cup N
          BY <1>4, <1>7, <5>1
        <5>3. n \in Nat /\ j.at < D
          BY <1>3, <1>7, <3>1
        <5> QED
          BY <5>1, <5>2, <5>3
      <4>4. j.at \in W
        BY <1>2, <4>3
      <4>5. n <= j.at
        BY <4>1, <4>3, <4>4
      <4> QED
        BY <1>3, <1>7, <3>1, <4>5
    <3>2. \A m \in N : m \in Nat
      BY <1>3
    <3> QED
      BY <1>3, <1>7, <3>1, <3>2
  <2>2. q = [id |-> j.id, labels |-> D,
             type |-> IF b.type_a /\ W # {} /\ j.at < D THEN "A" ELSE "TXT",
             b |-> j.top = "b" /\ ~j.behaviour.mixed]
    BY <1>1, <1>5, <1>9, Zenon DEF Next_query
  <2>3. q.id = j.id /\ q.labels = D
    BY <2>2
  <2>4. q.type = IF b.type_a /\ W # {} /\ j.at < D THEN "A" ELSE "TXT"
    BY <2>2
  <2>5. CASE j.at < D
    <3>1. q.type \in Types_asked /\ (q.type = "TXT" <=> D + 1 \notin N)
      BY <1>2, <2>4, <2>5 DEF Types_asked
    <3>2. D > j.at /\ ~(D > D) /\ D # D + 1
      BY <1>3, <1>7, <2>5
    <3>3. \A n \in N : n <= j.at \/ D <= n
      BY <1>3, <2>1
    <3>4. q.labels = IF D > D THEN D ELSE D
      BY <2>3
    <3>5. Asks(q, D, N, j.at, D)
      BY <1>3, <1>4, <3>1, <3>2, <3>3, <3>4, Zenon DEF Asks
    <3> QED
      BY <1>1, <1>5, <2>3, <3>5
  <2>6. CASE ~(j.at < D)
    <3>1. q.type = "TXT" /\ q.type \in Types_asked
      BY <2>4, <2>6 DEF Types_asked
    <3>2. j.at = D
      BY <1>3, <1>4, <1>7, <2>6
    <3>3. PICK n \in N : n > D
      BY <1>4, <3>2
    <3>4. n = D + 1
      BY <1>3, <3>3
    <3>5. \A m \in N : m <= D \/ n <= m
      BY <1>3, <3>4
    <3>6. q.labels = IF n > D THEN D ELSE n
      BY <2>3, <3>3
    <3>7. Asks(q, D, N, j.at, n)
      BY <1>4, <3>1, <3>2, <3>3, <3>4, <3>5, <3>6, Zenon DEF Asks
    <3> QED
      BY <1>1, <1>5, <2>3, <3>7
  <2> QED
    BY <2>5, <2>6
<1> QED
  BY <1>8, <1>9

-----------------------------------------------------------------------------
(***************************************************************************)
(* Who asks for what.  Every query at the resolver is on its way to a name  *)
(* whose id was drawn, as long as there is no alias; after one, the id was  *)
(* drawn for induction.  The probes and denials are those of such names.    *)
(***************************************************************************)
Origin(j) == IF j.target THEN Induction(j.id) ELSE j.id
Rooted(id) == id \in Ids \/ (id.kind = "plain" /\ Induction(id) \in Ids)

DrawnWell ==
    \A x \in drawn : \E kind \in Kinds, b \in Behaviours, nonce \in {x[1].nonce} :
        x = <<domainAssembly(kind, nonce), b>>

WellJob(j) ==
    /\ IsJob(j) /\ j.target \in BOOLEAN /\ (j.target => j.id.kind = "plain")
    /\ <<Origin(j), j.behaviour>> \in drawn
OwnJob(j, k, b) == WellJob(j) /\ j.behaviour = b /\ Origin(j).kind = k
JobsWell ==
    /\ DOMAIN job = Kinds
    /\ \A j \in stray : WellJob(j)
    /\ \A k \in Kinds : Asking(k) =>
          \A j \in {job[k]}, b \in {behaviour[k]} : OwnJob(j, k, b)

KeysWell ==
    /\ \A key \in DOMAIN probes : Rooted(key)
    /\ \A d \in denied : Rooted(d[1])

WellInv == DrawnWell /\ JobsWell /\ KeysWell /\ ProbesTruly /\ BehavedTruly

LEMMA JobIs ==
    ASSUME Cfg \in Configs, DrawnWell, NEW j, WellJob(j)
    PROVE  /\ j.behaviour \in Behaviours /\ j.target \in BOOLEAN
           /\ Origin(j) \in Ids /\ Origin(j).nonce = j.id.nonce /\ Rooted(j.id)
           /\ j.id.kind \in Kinds /\ (j.id.kind # "nxopti" => j.id.depth = Cfg.depth)
           /\ ~j.target => Origin(j) = j.id
           /\ j.target => /\ Origin(j) = Induction(j.id) /\ Origin(j).kind = "induction"
                          /\ j.id.kind = "plain" /\ Origin(j) # j.id
           /\ Induction(j.id).kind = "induction" /\ Induction(j.id).nonce = j.id.nonce
           /\ Induction(j.id).depth = j.id.depth
<1>1. PICK kind, nonce, depth, top, at, target, full, b :
         j = [id |-> [kind |-> kind, nonce |-> nonce, depth |-> depth], top |-> top,
              at |-> at, target |-> target, full |-> full, behaviour |-> b]
  BY Zenon DEF WellJob, IsJob
<1>2. /\ j.id = [kind |-> kind, nonce |-> nonce, depth |-> depth]
      /\ j.id.kind = kind /\ j.id.nonce = nonce /\ j.id.depth = depth
  BY <1>1
<1>3. Induction(j.id) = [kind |-> "induction", nonce |-> nonce, depth |-> depth]
  BY <1>2 DEF Induction
<1>4. PICK k \in Kinds, c \in Behaviours, n \in {<<Origin(j), j.behaviour>>[1].nonce} :
         <<Origin(j), j.behaviour>> = <<domainAssembly(k, n), c>>
  BY DEF WellJob, DrawnWell
<1>5. Origin(j) = domainAssembly(k, n) /\ j.behaviour \in Behaviours
  BY <1>4
<1>6. /\ Origin(j).kind = k /\ Origin(j).nonce = n
      /\ k # "nxopti" => Origin(j).depth = Cfg.depth
  BY <1>5 DEF domainAssembly
<1>7. Origin(j) \in Ids
  BY DEF WellJob, Ids
<1>8. CASE j.target
  <2>1. Origin(j) = Induction(j.id) /\ j.id.kind = "plain" /\ j.target \in BOOLEAN
    BY <1>8, Zenon DEF Origin, WellJob
  <2>2. Rooted(j.id)
    BY <1>7, <2>1 DEF Rooted
  <2>3. /\ Origin(j).kind = "induction" /\ Origin(j).nonce = j.id.nonce
        /\ Origin(j).depth = j.id.depth /\ Origin(j) # j.id
    BY <1>2, <1>3, <2>1
  <2> QED
    BY <1>2, <1>3, <1>5, <1>6, <1>7, <1>8, <2>1, <2>2, <2>3 DEF Kinds
<1>9. CASE ~j.target
  <2>1. Origin(j) = j.id /\ j.target \in BOOLEAN
    BY <1>9, Zenon DEF Origin, WellJob
  <2>2. Rooted(j.id)
    BY <1>7, <2>1 DEF Rooted
  <2> QED
    BY <1>2, <1>3, <1>5, <1>6, <1>7, <1>9, <2>1, <2>2
<1> QED
  BY <1>8, <1>9

-----------------------------------------------------------------------------
(***************************************************************************)
(* What nothing disturbed.                                                  *)
(***************************************************************************)
Clear(id) == ~Disturbed(id)

\* Disturbances concern a number, and for qminmode also the one id.
LEMMA ClearAlike ==
    ASSUME NEW id, NEW other, Clear(id), other.nonce = id.nonce,
           other.kind # "qminmode" \/ other = id
    PROVE  Clear(other)
<1>1. CASE other = id
  BY <1>1
<1>2. CASE other.kind # "qminmode"
  BY <1>2 DEF Clear, Disturbed, Two_servers
<1> QED
  BY <1>1, <1>2

Disturbs == Cfg' = Cfg /\ drawn \subseteq drawn' /\ repeated \subseteq repeated'
            /\ aged \subseteq aged'

LEMMA ClearBefore ==
    ASSUME Disturbs, NEW id, Clear(id)'
    PROVE  Clear(id)
<1>1. Two_servers(id) => Two_servers(id)'
  BY DEF Disturbs, Two_servers
<1>2. id \in repeated => id \in repeated'
  BY DEF Disturbs
<1>3. (\E key \in aged : key.nonce = id.nonce) => \E key \in aged' : key.nonce = id.nonce
  BY DEF Disturbs
<1>4. Ids \subseteq Ids'
  BY DEF Disturbs, Ids
<1>5. {"plain", "induction"} \subseteq {i.kind : i \in {x \in Ids : x.nonce = id.nonce}}
      => {"plain", "induction"} \subseteq {i.kind : i \in {x \in Ids' : x.nonce = id.nonce}}
  BY <1>4
<1> QED
  BY <1>1, <1>2, <1>3, <1>5 DEF Clear, Disturbed

LEMMA ClearOne ==
    ASSUME NEW id, Clear(id)
    PROVE  /\ \A x, y \in drawn : x[1] = y[1] /\ x[1].nonce = id.nonce => x[2] = y[2]
           /\ \A x, y \in Ids : x.nonce = id.nonce /\ y.nonce = id.nonce
                => ~(x.kind = "plain" /\ y.kind = "induction")
           /\ id.kind = "qminmode" => id \notin repeated
           /\ \A key \in aged : key.nonce # id.nonce
<1>1. \A x, y \in drawn : x[1] = y[1] /\ x[1].nonce = id.nonce => x[2] = y[2]
  BY DEF Clear, Disturbed, Two_servers
<1>2. ASSUME NEW x \in Ids, NEW y \in Ids, x.nonce = id.nonce, y.nonce = id.nonce,
             x.kind = "plain", y.kind = "induction"
      PROVE  FALSE
  <2>1. {"plain", "induction"} \subseteq {i.kind : i \in {h \in Ids : h.nonce = id.nonce}}
    BY <1>2
  <2> QED
    BY <2>1 DEF Clear, Disturbed
<1> QED
  BY <1>1, <1>2 DEF Clear, Disturbed

\* A query that nothing disturbed works on the probe of its origin.
LEMMA KeyIs ==
    ASSUME Cfg \in Configs, WellInv, NEW j, WellJob(j), Clear(j.id),
           \A key \in DOMAIN probes : Clear(key) => key \in Ids,
           j.target => Origin(j) \in DOMAIN probes
    PROVE  Key(j.id) = Origin(j)
<1>1. /\ Origin(j) \in Ids /\ Origin(j).nonce = j.id.nonce /\ j.target \in BOOLEAN
      /\ ~j.target => Origin(j) = j.id
      /\ j.target => /\ Origin(j) = Induction(j.id) /\ Origin(j).kind = "induction"
                     /\ j.id.kind = "plain"
      /\ Induction(j.id).kind = "induction" /\ Induction(j.id).nonce = j.id.nonce
  BY JobIs DEF WellInv
<1>2. CASE j.target
  <2>1. j.id \notin DOMAIN probes
    BY <1>1, <1>2, ClearOne
  <2> QED
    BY <1>1, <1>2, <2>1 DEF Key
<1>3. CASE ~j.target
  <2>1. ASSUME j.id.kind = "plain", Induction(j.id) \in DOMAIN probes PROVE FALSE
    <3>1. Induction(j.id) \in Ids
      BY <1>1, <2>1 DEF WellInv, KeysWell, Rooted
    <3> QED
      BY <1>1, <1>3, <2>1, <3>1, ClearOne
  <2> QED
    BY <1>1, <1>3, <2>1 DEF Key
<1> QED
  BY <1>1, <1>2, <1>3

\* Any query works on a probe of its number, of its kind or of the alias.
LEMMA KeyRooted ==
    ASSUME Cfg \in Configs, WellInv, NEW j, WellJob(j)
    PROVE  /\ Rooted(Key(j.id)) /\ Key(j.id).nonce = j.id.nonce
           /\ \/ Key(j.id) = j.id
              \/ /\ Key(j.id) = Induction(j.id) /\ j.id.kind = "plain"
                 /\ Key(j.id).kind = "induction" /\ Key(j.id) \in DOMAIN probes
<1>1. /\ Rooted(j.id) /\ Induction(j.id).kind = "induction"
      /\ Induction(j.id).nonce = j.id.nonce
  BY JobIs DEF WellInv
<1>2. CASE Key(j.id) = j.id
  BY <1>1, <1>2
<1>3. CASE Key(j.id) # j.id
  <2>1. Key(j.id) = Induction(j.id) /\ j.id.kind = "plain" /\ Induction(j.id) \in DOMAIN probes
    BY <1>3 DEF Key
  <2> QED
    BY <1>1, <2>1 DEF WellInv, KeysWell
<1> QED
  BY <1>2, <1>3

-----------------------------------------------------------------------------
(***************************************************************************)
(* What is measured of a query that nothing disturbed.  Its probe has come  *)
(* as far as the query has, and the target of an alias is asked for when    *)
(* the alias was; after a denial nothing but the full name is asked for,    *)
(* and nobody has asked for a name of qminmode before its only query has.   *)
(***************************************************************************)
Farthest(p, target) == IF target THEN p.inductionTokenNum ELSE p.currTokenNum
Reached(j) ==
    /\ j.at > 0 \/ j.target =>
          Origin(j) \in DOMAIN probes /\ j.at <= Farthest(probes[Origin(j)], j.target)
    /\ j.target => probes[Origin(j)].currTokenNum = Cfg.depth
DeniedOnce(j) ==
    j.id.kind = "qminmode" =>
        /\ j.at = 0 => j.id \notin DOMAIN probes /\ \A d \in denied : d[1] # j.id
        /\ j.at > 0 => ~j.behaviour.strict /\ Way(j.behaviour.steps) # {}
Measured(j) ==
    Clear(j.id) /\ j.id.kind # "nxopti" => OnWay(j) /\ Reached(j) /\ DeniedOnce(j)

\* A probe has collected the names that are asked for, as far as it has come.
Collects(p, id, b) ==
    /\ p.tokenLength = Cfg.depth
    /\ Named(p.tokenSequence, p.currTokenNum, Cfg.depth, NamesOf(id.kind, FALSE, b))
    /\ Named(p.inductionSequence, p.inductionTokenNum, Cfg.depth,
             NamesOf("plain", TRUE, b))
ProbesMeasured ==
    /\ \A key \in DOMAIN probes : Clear(key) => key \in Ids
    /\ \A x \in drawn :
          x[1] \in DOMAIN probes /\ Clear(x[1]) /\ x[1].kind # "nxopti"
              => Collects(probes[x[1]], x[1], x[2])

-----------------------------------------------------------------------------
LEMMA NamesOfNaming ==
    ASSUME Cfg \in Configs, NEW kind, NEW target, NEW b \in Behaviours
    PROVE  Naming(Cfg.depth, NamesOf(kind, target, b))
<1>1. PICK D, N, W : D = Cfg.depth /\ N = NamesOf(kind, target, b) /\ W = WayOf(target, b)
  OBVIOUS
<1>2. Naming(D, N)
  BY <1>1, NamesOfIs
<1> QED
  BY <1>1, <1>2

\* What a request makes of a probe, field by field.
Starts(p, q) ==
    /\ p.tokenLength = q.id.depth /\ p.currTokenNum = q.labels
    /\ p.tokenSequence = <<Part(q.labels - 1, q.labels, q.type)>>
    /\ p.inductionSequence = <<>> /\ p.inductionTokenNum = 0
Continues(p, o, q) ==
    /\ p.tokenLength = o.tokenLength
    /\ p.tokenSequence = updateProbeEntry(o.tokenLength, o.tokenSequence, q)
    /\ p.currTokenNum = IF stripRTypes(o.tokenSequence) < q.labels
                        THEN q.labels ELSE o.currTokenNum
    /\ p.inductionSequence = o.inductionSequence
    /\ p.inductionTokenNum = o.inductionTokenNum
Follows(p, o, q) ==
    /\ p.tokenLength = o.tokenLength
    /\ p.inductionSequence = updateProbeEntry(o.tokenLength, o.inductionSequence, q)
    /\ p.inductionTokenNum = IF stripRTypes(o.inductionSequence) < q.labels
                             THEN q.labels ELSE o.inductionTokenNum
    /\ p.tokenSequence = o.tokenSequence /\ p.currTokenNum = o.currTokenNum

LEMMA ProbeFields ==
    ASSUME ProbesTruly, NEW q, NEW p, p = Probe(q), NEW key, key = Key(q.id)
    PROVE  /\ IsProbe(p) /\ (p.induction <=> key.kind = "induction")
           /\ key \notin DOMAIN probes => key = q.id /\ Starts(p, q)
           /\ key \in DOMAIN probes /\ key = q.id => Continues(p, probes[key], q)
           /\ key \in DOMAIN probes /\ key # q.id => Follows(p, probes[key], q)
<1>1. IsProbe(p) /\ (p.induction <=> key.kind = "induction")
  BY ProbeIs
<1>2. ASSUME key \notin DOMAIN probes
      PROVE  key = q.id /\ Starts(p, q)
  <2>1. key = q.id
    BY <1>2, Zenon DEF Key
  <2>2. p = [tokenLength |-> q.id.depth, currTokenNum |-> q.labels,
             tokenSequence |-> <<Part(q.labels - 1, q.labels, q.type)>>,
             induction |-> q.id.kind = "induction",
             inductionSequence |-> <<>>, inductionTokenNum |-> 0]
    BY <1>2, Zenon DEF Probe
  <2> QED
    BY <2>1, <2>2 DEF Starts
<1>3. ASSUME key \in DOMAIN probes, NEW o, o = probes[key]
      PROVE  IsProbe(o)
  BY <1>3 DEF ProbesTruly
<1>4. ASSUME key \in DOMAIN probes, key = q.id, NEW o, o = probes[key]
      PROVE  Continues(p, o, q)
  <2>1. PICK s, n : /\ s = updateProbeEntry(o.tokenLength, o.tokenSequence, q)
                    /\ n = IF stripRTypes(o.tokenSequence) < q.labels
                           THEN q.labels ELSE o.currTokenNum
    OBVIOUS
  <2>2. p = [o EXCEPT !.tokenSequence = s, !.currTokenNum = n]
    BY <1>4, <2>1, Zenon DEF Probe
  <2>3. PICK len, num, seq, i, iseq, inum :
           o = [tokenLength |-> len, currTokenNum |-> num, tokenSequence |-> seq,
                induction |-> i, inductionSequence |-> iseq, inductionTokenNum |-> inum]
    <3>1. IsProbe(o)
      BY <1>3, <1>4
    <3> QED
      BY <3>1, Zenon DEF IsProbe
  <2>4. /\ p.tokenLength = o.tokenLength /\ p.tokenSequence = s /\ p.currTokenNum = n
        /\ p.inductionSequence = o.inductionSequence
        /\ p.inductionTokenNum = o.inductionTokenNum
    BY <2>2, <2>3
  <2> QED
    BY <2>1, <2>4, Zenon DEF Continues
<1>5. ASSUME key \in DOMAIN probes, key # q.id, NEW o, o = probes[key]
      PROVE  Follows(p, o, q)
  <2>1. PICK s, n : /\ s = updateProbeEntry(o.tokenLength, o.inductionSequence, q)
                    /\ n = IF stripRTypes(o.inductionSequence) < q.labels
                           THEN q.labels ELSE o.inductionTokenNum
    OBVIOUS
  <2>2. p = [o EXCEPT !.inductionSequence = s, !.inductionTokenNum = n]
    BY <1>5, <2>1, Zenon DEF Probe
  <2>3. PICK len, num, seq, i, iseq, inum :
           o = [tokenLength |-> len, currTokenNum |-> num, tokenSequence |-> seq,
                induction |-> i, inductionSequence |-> iseq, inductionTokenNum |-> inum]
    <3>1. IsProbe(o)
      BY <1>3, <1>5
    <3> QED
      BY <3>1, Zenon DEF IsProbe
  <2>4. /\ p.tokenLength = o.tokenLength /\ p.inductionSequence = s
        /\ p.inductionTokenNum = n
        /\ p.tokenSequence = o.tokenSequence /\ p.currTokenNum = o.currTokenNum
    BY <2>2, <2>3
  <2> QED
    BY <2>1, <2>4, Zenon DEF Follows
<1> QED
  BY <1>1, <1>2, <1>4, <1>5, Zenon

\* What a query has made of its probe when its request is answered.
Makes(j, q, p) ==
    LET N == NamesOf(j.id.kind, j.target, j.behaviour)
        seq == IF j.target THEN p.inductionSequence ELSE p.tokenSequence
        num == Farthest(p, j.target)
    IN  /\ Collects(p, Origin(j), j.behaviour)
        /\ {p.currTokenNum, p.inductionTokenNum} \subseteq 0 .. Cfg.depth
        /\ q.labels <= num
        /\ q.type = "TXT" => Spells(seq, N) /\ num = Cfg.depth
        /\ j.target => p.currTokenNum = Cfg.depth

LEMMA ProbeMakes ==
    ASSUME Cfg \in Configs, WellInv, ProbesMeasured, NEW j, WellJob(j), Measured(j),
           Clear(j.id), j.id.kind # "nxopti", NEW q, q = Next_query(j), NEW p, p = Probe(q)
    PROVE  /\ Key(j.id) = Origin(j) /\ q.id = j.id /\ Labels(j) = Cfg.depth
           /\ \E v : Asks(q, Cfg.depth, NamesOf(j.id.kind, j.target, j.behaviour), j.at, v)
           /\ Makes(j, q, p) /\ IsProbe(p) /\ (p.induction <=> Origin(j).kind = "induction")
           /\ Origin(j) \in DOMAIN probes =>
                 /\ probes[Origin(j)].currTokenNum \in 0 .. p.currTokenNum
                 /\ probes[Origin(j)].inductionTokenNum \in 0 .. p.inductionTokenNum
           /\ Origin(j) \notin DOMAIN probes =>
                 j.at = 0 /\ ~j.target /\ p.currTokenNum = q.labels
<1>1. PICK D, N, M, b, key :
         /\ D = Cfg.depth /\ N = NamesOf(j.id.kind, j.target, j.behaviour)
         /\ M = NamesOf("plain", TRUE, b) /\ b = j.behaviour /\ key = Origin(j)
  OBVIOUS
<1>2. /\ b \in Behaviours /\ j.target \in BOOLEAN
      /\ key \in Ids /\ key.nonce = j.id.nonce
      /\ j.id.depth = D /\ j.id.kind \in Kinds /\ (~j.target => key = j.id)
      /\ j.target => key = Induction(j.id) /\ key.kind = "induction" /\ j.id.kind = "plain"
                     /\ key # j.id
  BY <1>1, JobIs DEF WellInv
<1>3. OnWay(j) /\ Reached(j)
  BY DEF Measured
<1>4. Naming(D, N) /\ Naming(D, M)
  BY <1>1, <1>2, NamesOfNaming
<1>5. q.id = j.id /\ Labels(j) = D /\ \E v : Asks(q, D, N, j.at, v)
  BY <1>1, <1>2, <1>3, QueryAsks
<1>6. PICK v : Asks(q, D, N, j.at, v)
  BY <1>5
<1>7. Key(j.id) = key
  BY <1>1, <1>3, KeyIs DEF Reached, ProbesMeasured
<1>8. ProbesTruly /\ key = Key(q.id)
  BY <1>5, <1>7 DEF WellInv
<1>9. /\ IsProbe(p) /\ (p.induction <=> key.kind = "induction")
      /\ key \notin DOMAIN probes => key = q.id /\ Starts(p, q)
      /\ key \in DOMAIN probes /\ key = q.id => Continues(p, probes[key], q)
      /\ key \in DOMAIN probes /\ key # q.id => Follows(p, probes[key], q)
  BY <1>8, ProbeFields
<1>10. D \in Nat
  BY <1>4, NamesAre
<1>11. ASSUME NEW s, NEW n, NEW S, Naming(D, S), Named(s, n, D, S) PROVE n \in 0 .. D
  BY <1>11, NamedIs DEF Named
<1>12. key.kind # "nxopti" /\ Clear(key)
  BY <1>2, ClearAlike
<1>13. ASSUME key \in DOMAIN probes PROVE Collects(probes[key], key, b)
  <2>1. <<key, b>> \in drawn /\ <<key, b>>[1] = key /\ <<key, b>>[2] = b
    BY <1>1 DEF WellJob
  <2> QED
    BY <1>12, <1>13, <2>1, Zenon DEF ProbesMeasured
<1>14. CASE key \notin DOMAIN probes
  <2>1. j.at = 0 /\ ~j.target
    <3>1. ~(j.at > 0) /\ ~j.target
      BY <1>1, <1>3, <1>14, Zenon DEF Reached
    <3>2. j.at \in Nat
      BY <1>4, <1>6, NamesAre DEF Asks
    <3> QED
      BY <3>1, <3>2
  <2>2. /\ p.tokenLength = D /\ p.currTokenNum = q.labels
        /\ p.tokenSequence = <<Part(q.labels - 1, q.labels, q.type)>>
        /\ p.inductionSequence = <<>> /\ p.inductionTokenNum = 0
    BY <1>2, <1>5, <1>9, <1>14, Zenon DEF Starts
  <2>3. /\ Named(p.tokenSequence, q.labels, D, N) /\ q.labels \in 1 .. D
        /\ q.type = "TXT" => Spells(p.tokenSequence, N) /\ q.labels = D
    BY <1>4, <1>6, <2>1, <2>2, NamedFirst
  <2>4. Named(p.inductionSequence, p.inductionTokenNum, D, M)
    BY <1>4, <2>2, NamedNone
  <2>5. N = NamesOf(key.kind, FALSE, b)
    BY <1>1, <1>2, <2>1 DEF NamesOf, WayOf
  <2>6. Collects(p, key, b)
    BY <1>1, <2>2, <2>3, <2>4, <2>5 DEF Collects
  <2>7. Makes(j, q, p)
    BY <1>1, <1>10, <2>1, <2>2, <2>3, <2>6 DEF Makes, Farthest
  <2> QED
    BY <1>1, <1>5, <1>6, <1>7, <1>9, <1>14, <2>1, <2>2, <2>7
<1>15. CASE key \in DOMAIN probes /\ ~j.target
  <2>0. PICK o : o = probes[key]
    OBVIOUS
  <2>1. /\ p.tokenLength = o.tokenLength
        /\ p.tokenSequence = updateProbeEntry(o.tokenLength, o.tokenSequence, q)
        /\ p.currTokenNum = IF stripRTypes(o.tokenSequence) < q.labels
                            THEN q.labels ELSE o.currTokenNum
        /\ p.inductionSequence = o.inductionSequence
        /\ p.inductionTokenNum = o.inductionTokenNum
    <3>1. key = q.id
      BY <1>2, <1>5, <1>15, Zenon
    <3> QED
      BY <1>9, <1>15, <2>0, <3>1, Zenon DEF Continues
  <2>2. N = NamesOf(key.kind, FALSE, b)
    BY <1>1, <1>2, <1>15 DEF NamesOf, WayOf
  <2>3. /\ o.tokenLength = D /\ Named(o.tokenSequence, o.currTokenNum, D, N)
        /\ Named(o.inductionSequence, o.inductionTokenNum, D, M)
    BY <1>1, <1>13, <1>15, <2>0, <2>2 DEF Collects
  <2>4. j.at <= o.currTokenNum
    <3>1. o.currTokenNum \in Nat
      BY <1>4, <1>10, <1>11, <2>3
    <3>2. j.at \in Nat
      BY <1>4, <1>6, NamesAre DEF Asks
    <3>3. j.at > 0 => j.at <= o.currTokenNum
      BY <1>1, <1>3, <1>15, <2>0 DEF Reached, Farthest
    <3> QED
      BY <3>1, <3>2, <3>3
  <2>5. /\ Named(p.tokenSequence, p.currTokenNum, D, N) /\ o.currTokenNum <= p.currTokenNum
        /\ q.labels <= p.currTokenNum
        /\ q.type = "TXT" => Spells(p.tokenSequence, N) /\ p.currTokenNum = D
    BY <1>4, <1>6, <2>1, <2>3, <2>4, NamedLonger
  <2>6. Collects(p, key, b)
    BY <1>1, <2>1, <2>2, <2>3, <2>5 DEF Collects
  <2>7. p.currTokenNum \in 0 .. D /\ p.inductionTokenNum \in 0 .. D
    BY <1>4, <1>11, <2>1, <2>3, <2>5
  <2>8. Makes(j, q, p)
    BY <1>1, <1>15, <2>5, <2>6, <2>7 DEF Makes, Farthest
  <2>9. /\ o.currTokenNum \in 0 .. p.currTokenNum
        /\ o.inductionTokenNum \in 0 .. p.inductionTokenNum
    <3>1. o.currTokenNum \in 0 .. D
      BY <1>4, <1>11, <2>3
    <3> QED
      BY <1>10, <2>1, <2>5, <2>7, <3>1
  <2> QED
    BY <1>1, <1>5, <1>6, <1>7, <1>9, <1>15, <2>0, <2>8, <2>9
<1>16. CASE key \in DOMAIN probes /\ j.target
  <2>0. PICK o : o = probes[key]
    OBVIOUS
  <2>1. /\ p.tokenLength = o.tokenLength
        /\ p.inductionSequence = updateProbeEntry(o.tokenLength, o.inductionSequence, q)
        /\ p.inductionTokenNum = IF stripRTypes(o.inductionSequence) < q.labels
                                 THEN q.labels ELSE o.inductionTokenNum
        /\ p.tokenSequence = o.tokenSequence
        /\ p.currTokenNum = o.currTokenNum
    <3>1. key # q.id
      BY <1>2, <1>5, <1>16, Zenon
    <3> QED
      BY <1>9, <1>16, <2>0, <3>1, Zenon DEF Follows
  <2>2. N = M
    BY <1>1, <1>2, <1>16 DEF NamesOf, WayOf
  <2>3. PICK S : S = NamesOf(key.kind, FALSE, b) /\ Naming(D, S)
    <3>1. Naming(D, NamesOf(key.kind, FALSE, b))
      BY <1>1, <1>2, NamesOfNaming
    <3> QED
      BY <3>1
  <2>4. /\ o.tokenLength = D /\ Named(o.tokenSequence, o.currTokenNum, D, S)
        /\ Named(o.inductionSequence, o.inductionTokenNum, D, M)
    BY <1>1, <1>13, <1>16, <2>0, <2>3 DEF Collects
  <2>5. j.at <= o.inductionTokenNum /\ o.currTokenNum = D
    BY <1>1, <1>3, <1>16, <2>0 DEF Reached, Farthest
  <2>6. /\ Named(p.inductionSequence, p.inductionTokenNum, D, N)
        /\ o.inductionTokenNum <= p.inductionTokenNum /\ q.labels <= p.inductionTokenNum
        /\ q.type = "TXT" => Spells(p.inductionSequence, N) /\ p.inductionTokenNum = D
    BY <1>4, <1>6, <2>1, <2>2, <2>4, <2>5, NamedLonger
  <2>7. Collects(p, key, b)
    BY <1>1, <2>1, <2>2, <2>3, <2>4, <2>6 DEF Collects
  <2>8. p.currTokenNum \in 0 .. D /\ p.inductionTokenNum \in 0 .. D
    BY <1>4, <1>11, <2>1, <2>3, <2>4, <2>6
  <2>9. Makes(j, q, p)
    BY <1>1, <1>16, <2>1, <2>5, <2>6, <2>7, <2>8 DEF Makes, Farthest
  <2>10. /\ o.currTokenNum \in 0 .. p.currTokenNum
         /\ o.inductionTokenNum \in 0 .. p.inductionTokenNum
    <3>1. o.inductionTokenNum \in 0 .. D
      BY <1>4, <1>11, <2>4
    <3> QED
      BY <1>10, <2>1, <2>6, <2>8, <3>1
  <2> QED
    BY <1>1, <1>5, <1>6, <1>7, <1>9, <1>16, <2>0, <2>9, <2>10
<1> QED
  BY <1>2, <1>14, <1>15, <1>16

-----------------------------------------------------------------------------
(***************************************************************************)
(* What the name server answers, and what a row may say of the resolver.    *)
(***************************************************************************)
Told(kind, b, res, seq, ind) ==
    /\ kind = "plain" /\ res = "ok" => Spells(seq, NamesOf("plain", FALSE, b))
    /\ kind = "induction" /\ res = "ok" => (Several(ind) <=> Way(b.induced) # {})
    /\ kind = "qminmode" /\ res = "nxdomain" => b.strict /\ Way(b.steps) # {}
    /\ kind = "qminmode" /\ res = "ok" /\ Several(seq) => ~b.strict /\ Way(b.steps) # {}

LEMMA QueryId == ASSUME NEW j PROVE Next_query(j).id = j.id
<1>1. CASE Left(j) # {}
  <2>1. PICK n : Next_query(j) = [id |-> j.id, labels |-> n, type |-> "NS",
                                  b |-> n = 1 /\ Cfg.b /\ ~j.behaviour.mixed]
    BY <1>1 DEF Next_query
  <2> QED
    BY <2>1
<1>2. CASE Left(j) = {}
  <2>1. PICK t, l, b : Next_query(j) = [id |-> j.id, labels |-> l, type |-> t, b |-> b]
    BY <1>2 DEF Next_query
  <2> QED
    BY <2>1
<1> QED
  BY <1>1, <1>2

LEMMA Replies ==
    ASSUME NEW q, NEW p, p = Probe(q), NEW r, r = Reply(q)
    PROVE  /\ r.is = "cname" => q.id.kind = "induction"
           /\ q.id.kind # "nxopti" =>
                LET done == /\ p.induction /\ p.inductionTokenNum = p.tokenLength
                            /\ q.type = "TXT"
                    full == p.currTokenNum = p.tokenLength
                IN  \/ done /\ r.is = "txt" /\ r.ind = p.inductionSequence
                    \/ ~done /\ full /\ q.id.kind = "induction" /\ r.is = "cname"
                    \/ /\ ~done /\ full /\ q.id.kind # "induction" /\ q.type = "TXT"
                       /\ r.is = "txt" /\ r.seq = p.tokenSequence
                    \/ /\ ~done /\ full /\ q.id.kind # "induction" /\ q.type # "TXT"
                       /\ r.is = "nodata"
                    \/ ~done /\ ~full /\ q.id.kind = "qminmode" /\ r.is = "nxdomain"
                    \/ ~done /\ ~full /\ q.id.kind # "qminmode" /\ r.is = "ns"
<1>1. CASE p.induction /\ p.inductionTokenNum = p.tokenLength /\ q.type = "TXT"
  <2>1. r = [is |-> "txt", seq |-> p.tokenSequence, ind |-> p.inductionSequence]
    BY <1>1, Zenon DEF Reply
  <2>2. r.is = "txt" /\ r.ind = p.inductionSequence
    BY <2>1
  <2> QED
    BY <1>1, <2>2
<1>2. CASE /\ ~(p.induction /\ p.inductionTokenNum = p.tokenLength /\ q.type = "TXT")
           /\ q.id.kind = "nxopti"
  <2>1. r = Simple(Nx_rcode(q))
    BY <1>2, Zenon DEF Reply
  <2>2. r.is # "cname"
    BY <2>1 DEF Simple, Nx_rcode
  <2> QED
    BY <1>2, <2>2
<1>3. CASE /\ ~(p.induction /\ p.inductionTokenNum = p.tokenLength /\ q.type = "TXT")
           /\ q.id.kind # "nxopti" /\ p.currTokenNum = p.tokenLength
           /\ q.id.kind = "induction"
  <2>1. r = Simple("cname")
    BY <1>3, Zenon DEF Reply
  <2>2. r.is = "cname"
    BY <2>1 DEF Simple
  <2> QED
    BY <1>3, <2>2
<1>4. CASE /\ ~(p.induction /\ p.inductionTokenNum = p.tokenLength /\ q.type = "TXT")
           /\ q.id.kind # "nxopti" /\ p.currTokenNum = p.tokenLength
           /\ q.id.kind # "induction" /\ q.type = "TXT"
  <2>1. r = [is |-> "txt", seq |-> p.tokenSequence, ind |-> <<>>]
    BY <1>4, Zenon DEF Reply
  <2>2. r.is = "txt" /\ r.seq = p.tokenSequence
    BY <2>1
  <2> QED
    BY <1>4, <2>2
<1>5. CASE /\ ~(p.induction /\ p.inductionTokenNum = p.tokenLength /\ q.type = "TXT")
           /\ q.id.kind # "nxopti" /\ p.currTokenNum = p.tokenLength
           /\ q.id.kind # "induction" /\ q.type # "TXT"
  <2>1. r = Simple("nodata")
    BY <1>5, Zenon DEF Reply
  <2>2. r.is = "nodata"
    BY <2>1 DEF Simple
  <2> QED
    BY <1>5, <2>2
<1>6. CASE /\ ~(p.induction /\ p.inductionTokenNum = p.tokenLength /\ q.type = "TXT")
           /\ q.id.kind # "nxopti" /\ p.currTokenNum # p.tokenLength
  <2>1. r = Simple(IF q.id.kind = "qminmode" THEN "nxdomain" ELSE "ns")
    BY <1>6, Zenon DEF Reply
  <2>2. r.is = IF q.id.kind = "qminmode" THEN "nxdomain" ELSE "ns"
    BY <2>1 DEF Simple
  <2> QED
    BY <1>6, <2>2
<1> QED
  BY <1>1, <1>2, <1>3, <1>4, <1>5, <1>6

\* A resolver that minimises is seen to ask for more than the full name.
LEMMA SeveralAlias ==
    ASSUME Cfg \in Configs, NEW b \in Behaviours, NEW seq,
           Named(seq, Cfg.depth, Cfg.depth, NamesOf("plain", TRUE, b))
    PROVE  Several(seq) <=> Way(b.induced) # {}
<1>1. PICK D, N, W, target, kind :
         /\ D = Cfg.depth /\ N = NamesOf(kind, target, b) /\ W = WayOf(target, b)
         /\ kind = "plain" /\ target = TRUE
  OBVIOUS
<1>2. /\ Naming(D, N) /\ \A n \in W : n \in Nat /\ n > 0 /\ n < D
      /\ \A n \in N : n < D => n \in W
      /\ W # {} => \E n \in N : n < D
      /\ D + 1 \in N <=> b.type_a /\ W # {}
  <2>1. /\ Naming(D, N) /\ \A n \in W : n \in Nat /\ n > 0 /\ n < D
        /\ \A n \in N : n < D => n \in W /\ (kind = "qminmode" => \A m \in W : n <= m)
        /\ kind # "qminmode" => W \subseteq N
        /\ W # {} => \E n \in N : n < D
        /\ D + 1 \in N <=> b.type_a /\ W # {}
    <3>1. /\ N = NamesOf(kind, target, b) /\ W = WayOf(target, b) /\ b \in Behaviours
          /\ D = Cfg.depth
      BY <1>1
    <3> QED
      BY <3>1, NamesOfIs
  <2> QED
    BY <2>1
<1>3. /\ D \in Nat /\ D > 0 /\ D \in N
      /\ \A n \in N : n \in Nat /\ n > 0 /\ n <= D + 1
      /\ \A n \in N : n > D => n = D + 1
  BY <1>2, NamesAre
<1>4. W = Way(b.induced)
  BY <1>1 DEF WayOf
<1>5. PICK m : NamedTo(seq, D, D, N, m)
  BY <1>1 DEF Named
<1>6. m \in {0} \cup N /\ Spells(seq, {n \in N : n <= m}) /\ D = IF m > D THEN D ELSE m
  BY <1>5, Zenon DEF NamedTo
<1>7. m \in Nat /\ m >= D
  <2>1. m = 0 \/ m \in N
    BY <1>6
  <2>2. m \in N => m \in Nat
    BY <1>3, Zenon
  <2>3. m \in Nat
    BY <2>1, <2>2
  <2> QED
    BY <1>3, <1>6, <2>3
<1>8. PICK S : S = {n \in N : n <= m}
  OBVIOUS
<1>9. D \in S
  BY <1>3, <1>7, <1>8
<1>10. Several(seq) <=> S # {D}
  BY <1>6, <1>8, <1>9, SeveralNames
<1>11. ASSUME W # {} PROVE S # {D}
  <2>1. PICK n \in N : n < D
    BY <1>2, <1>11
  <2>2. n \in S /\ n # D
    BY <1>3, <1>7, <1>8, <2>1
  <2> QED
    BY <2>2
<1>12. ASSUME W = {} PROVE S = {D}
  <2>1. \A n \in N : n = D
    BY <1>2, <1>3, <1>12
  <2> QED
    BY <1>8, <1>9, <2>1
<1> QED
  BY <1>4, <1>10, <1>11, <1>12

\* What a query that nothing disturbed gets for an answer.
Answered(j, q, p, r) ==
    LET b == j.behaviour IN
    \/ r.is = "txt" /\ Told(Origin(j).kind, b, "ok", r.seq, r.ind)
    \/ /\ r.is = "cname" /\ j.id.kind = "induction" /\ ~j.target
       /\ p.currTokenNum = Cfg.depth
    \/ /\ r.is = "nxdomain" /\ j.id.kind = "qminmode" /\ ~j.target
       /\ q.labels < Cfg.depth /\ j.at = 0 /\ Way(b.steps) # {}
    \/ /\ r.is \in {"nodata", "ns"} /\ q.type # "TXT"
       /\ j.id.kind = "qminmode" => j.at > 0

LEMMA QueryAnswered ==
    ASSUME Cfg \in Configs, WellInv, ProbesMeasured, NEW j, WellJob(j), Measured(j),
           Clear(j.id), j.id.kind # "nxopti", NEW q, q = Next_query(j), NEW p, p = Probe(q),
           NEW r, r = Reply(q)
    PROVE  Answered(j, q, p, r)
<1>1. PICK D, N, W, b, key, kind :
         /\ D = Cfg.depth /\ N = NamesOf(j.id.kind, j.target, j.behaviour)
         /\ W = WayOf(j.target, j.behaviour) /\ b = j.behaviour
         /\ key = Origin(j) /\ kind = j.id.kind
  OBVIOUS
<1>2. /\ b \in Behaviours /\ j.target \in BOOLEAN
      /\ ~j.target => key = j.id
      /\ j.target => key.kind = "induction" /\ kind = "plain"
  BY <1>1, JobIs DEF WellInv
<1>3. /\ q.id = j.id /\ Makes(j, q, p) /\ (p.induction <=> key.kind = "induction")
      /\ key \notin DOMAIN probes => j.at = 0 /\ p.currTokenNum = q.labels
      /\ \E v : Asks(q, D, N, j.at, v)
  BY <1>1, ProbeMakes
<1>4. PICK v : Asks(q, D, N, j.at, v)
  BY <1>3
<1>5. /\ p.tokenLength = D /\ Collects(p, key, b)
      /\ p.currTokenNum \in 0 .. D /\ p.inductionTokenNum \in 0 .. D
      /\ ~j.target => q.labels <= p.currTokenNum
      /\ q.type = "TXT" /\ ~j.target => Spells(p.tokenSequence, N) /\ p.currTokenNum = D
      /\ q.type = "TXT" /\ j.target => p.inductionTokenNum = D
      /\ j.target => p.currTokenNum = D
  BY <1>1, <1>3 DEF Makes, Farthest, Collects
<1>6. /\ Naming(D, N) /\ \A n \in W : n \in Nat /\ n > 0 /\ n < D
      /\ \A n \in N : n < D => n \in W /\ (kind = "qminmode" => \A m \in W : n <= m)
      /\ W # {} => \E n \in N : n < D
      /\ D + 1 \in N <=> b.type_a /\ W # {}
  BY <1>1, <1>2, NamesOfIs
<1>7. /\ D \in Nat /\ D > 0 /\ D \in N
      /\ \A n \in N : n \in Nat /\ n > 0 /\ n <= D + 1
      /\ \A n \in N : n > D => n = D + 1
  BY <1>6, NamesAre
<1>8. /\ v \in N /\ v \in Nat /\ j.at \in Nat /\ j.at <= D /\ v > j.at
      /\ \A n \in N : n <= j.at \/ v <= n
      /\ q.labels = IF v > D THEN D ELSE v
      /\ q.type = "TXT" <=> v = D + 1 \/ (v = D /\ D + 1 \notin N)
  <2>1. /\ v \in N /\ j.at \in {0} \cup N /\ j.at <= D /\ v > j.at
        /\ \A n \in N : n <= j.at \/ v <= n
        /\ q.labels = IF v > D THEN D ELSE v
        /\ q.type = "TXT" <=> v = D + 1 \/ (v = D /\ D + 1 \notin N)
    BY <1>4, Zenon DEF Asks
  <2>2. v \in Nat /\ (j.at \in N => j.at \in Nat)
    BY <1>7, <2>1, Zenon
  <2>3. j.at \in Nat
    BY <2>1, <2>2
  <2> QED
    BY <2>1, <2>2, <2>3
<1>9. OnWay(j) /\ DeniedOnce(j)
  BY DEF Measured
<1>10. kind = "qminmode" => ~j.target /\ key = j.id /\ W = Way(b.steps)
  BY <1>1, <1>2 DEF WayOf
\* The first query of qminmode.
<1>11. ASSUME kind = "qminmode", j.at = 0
       PROVE  key \notin DOMAIN probes /\ p.currTokenNum = q.labels /\ v <= D
  <2>1. key \notin DOMAIN probes
    BY <1>1, <1>9, <1>10, <1>11 DEF DeniedOnce
  <2>2. v <= D
    BY <1>7, <1>8, <1>11
  <2> QED
    BY <1>3, <2>1, <2>2
<1>12. ASSUME kind = "qminmode", j.at = 0, ~(v < D)
       PROVE  W = {} /\ N = {D} /\ q.type = "TXT"
  <2>1. v = D
    BY <1>7, <1>8, <1>11, <1>12
  <2>2. \A n \in N : ~(n < D)
    BY <1>7, <1>8, <1>12, <2>1
  <2>3. W = {}
    BY <1>6, <2>2
  <2>4. D + 1 \notin N
    BY <1>6, <2>3
  <2>5. \A n \in N : n = D
    BY <1>7, <2>2, <2>4
  <2>6. N = {D}
    BY <1>7, <2>5
  <2> QED
    BY <1>8, <2>1, <2>3, <2>4, <2>6
<1>13. CASE /\ p.induction /\ p.inductionTokenNum = p.tokenLength /\ r.is = "txt"
            /\ r.ind = p.inductionSequence
  <2>1. key.kind = "induction"
    BY <1>3, <1>13
  <2>2. Several(r.ind) <=> Way(b.induced) # {}
    <3>1. Named(r.ind, D, D, NamesOf("plain", TRUE, b))
      BY <1>1, <1>5, <1>13 DEF Collects
    <3> QED
      BY <1>1, <1>2, <3>1, SeveralAlias
  <2>3. Told(key.kind, b, "ok", r.seq, r.ind)
    BY <2>1, <2>2 DEF Told
  <2> QED
    BY <1>1, <1>13, <2>3 DEF Answered
<1>14. CASE p.currTokenNum = p.tokenLength /\ kind = "induction" /\ r.is = "cname"
  BY <1>1, <1>2, <1>5, <1>14 DEF Answered
<1>15. CASE /\ ~(p.induction /\ p.inductionTokenNum = p.tokenLength /\ q.type = "TXT")
            /\ p.currTokenNum = p.tokenLength /\ kind # "induction" /\ q.type = "TXT"
            /\ r.is = "txt" /\ r.seq = p.tokenSequence
  <2>1. ~j.target
    BY <1>2, <1>3, <1>5, <1>15
  <2>2. key = j.id /\ Spells(r.seq, N)
    BY <1>2, <1>5, <1>15, <2>1
  <2>3. kind = "plain" => Spells(r.seq, NamesOf("plain", FALSE, b))
    <3>1. j.target = FALSE
      BY <1>2, <2>1
    <3> QED
      BY <1>1, <2>2, <3>1
  <2>4. ASSUME kind = "qminmode", Several(r.seq) PROVE ~b.strict /\ Way(b.steps) # {}
    <3>1. CASE j.at = 0
      <4>1. ~(v < D)
        BY <1>7, <1>8, <1>15
      <4>2. N = {D}
        BY <1>12, <2>4, <3>1, <4>1
      <4>3. Several(r.seq) <=> N # {D}
        BY <1>7, <2>2, SeveralNames
      <4> QED
        BY <2>4, <4>2, <4>3
    <3>2. CASE j.at # 0
      BY <1>1, <1>8, <1>9, <2>4, <3>2 DEF DeniedOnce
    <3> QED
      BY <3>1, <3>2
  <2>5. Told(key.kind, b, "ok", r.seq, r.ind)
    BY <1>1, <1>15, <2>2, <2>3, <2>4 DEF Told
  <2> QED
    BY <1>1, <1>15, <2>5 DEF Answered
<1>16. CASE p.currTokenNum = p.tokenLength /\ q.type # "TXT" /\ r.is = "nodata"
  <2>1. ASSUME kind = "qminmode" PROVE j.at > 0
    <3> SUFFICES ASSUME j.at = 0 PROVE FALSE
      BY <1>8
    <3>1. p.currTokenNum = q.labels /\ p.currTokenNum = D
      BY <1>5, <1>11, <1>16, <2>1
    <3>2. ~(v < D)
      BY <1>7, <1>8, <3>1
    <3> QED
      BY <1>12, <1>16, <2>1, <3>2
  <2> QED
    BY <1>1, <1>16, <2>1 DEF Answered
<1>17. CASE p.currTokenNum # p.tokenLength /\ kind = "qminmode" /\ r.is = "nxdomain"
  <2>1. q.labels < D
    BY <1>5, <1>7, <1>8, <1>10, <1>17
  <2>2. v = q.labels /\ v < D
    BY <1>7, <1>8, <2>1
  <2>3. v \in W /\ \A m \in W : v <= m
    BY <1>6, <1>8, <1>17, <2>2
  <2>4. j.at = 0
    <3> SUFFICES ASSUME j.at # 0 PROVE FALSE
      OBVIOUS
    <3>1. j.at \in N
      BY <1>4 DEF Asks
    <3>2. j.at < D
      BY <1>7, <1>8, <2>2
    <3>3. j.at \in W
      BY <1>6, <3>1, <3>2
    <3>4. v <= j.at
      BY <2>3, <3>3
    <3> QED
      BY <1>8, <3>4
  <2> QED
    BY <1>1, <1>10, <1>17, <2>1, <2>3, <2>4 DEF Answered
<1>18. CASE p.currTokenNum # p.tokenLength /\ kind # "qminmode" /\ r.is = "ns"
  <2>1. q.type # "TXT"
    BY <1>2, <1>5, <1>18
  <2> QED
    BY <1>1, <1>18, <2>1 DEF Answered
<1>19. \/ p.induction /\ p.inductionTokenNum = p.tokenLength /\ r.is = "txt"
          /\ r.ind = p.inductionSequence
       \/ p.currTokenNum = p.tokenLength /\ kind = "induction" /\ r.is = "cname"
       \/ /\ ~(p.induction /\ p.inductionTokenNum = p.tokenLength /\ q.type = "TXT")
          /\ p.currTokenNum = p.tokenLength /\ kind # "induction" /\ q.type = "TXT"
          /\ r.is = "txt" /\ r.seq = p.tokenSequence
       \/ p.currTokenNum = p.tokenLength /\ q.type # "TXT" /\ r.is = "nodata"
       \/ p.currTokenNum # p.tokenLength /\ kind = "qminmode" /\ r.is = "nxdomain"
       \/ p.currTokenNum # p.tokenLength /\ kind # "qminmode" /\ r.is = "ns"
  BY <1>1, <1>3, Replies
<1> QED
  BY <1>13, <1>14, <1>15, <1>16, <1>17, <1>18, <1>19

-----------------------------------------------------------------------------
(***************************************************************************)
(* What stays true when nothing is drawn, drawn again or deleted.           *)
(***************************************************************************)
Calm == UNCHANGED <<Cfg, drawn, repeated, aged>>

LEMMA NamesSame ==
    ASSUME Cfg' = Cfg, NEW kind, NEW target, NEW b
    PROVE  NamesOf(kind, target, b)' = NamesOf(kind, target, b)
<1>1. \A steps : Way(steps)' = Way(steps)
  BY DEF Way
<1>2. WayOf(target, b)' = WayOf(target, b)
  BY <1>1 DEF WayOf
<1> QED
  BY <1>2, Zenon DEF NamesOf

LEMMA ToldSame ==
    ASSUME Cfg' = Cfg, NEW kind, NEW b, NEW res, NEW seq, NEW ind
    PROVE  Told(kind, b, res, seq, ind)' <=> Told(kind, b, res, seq, ind)
<1>1. NamesOf("plain", FALSE, b)' = NamesOf("plain", FALSE, b)
  BY NamesSame
<1>2. Way(b.steps)' = Way(b.steps) /\ Way(b.induced)' = Way(b.induced)
  BY DEF Way
<1>3. PICK S, T, U : /\ S = NamesOf("plain", FALSE, b) /\ T = Way(b.steps)
                     /\ U = Way(b.induced)
  OBVIOUS
<1>4. Told(kind, b, res, seq, ind) <=>
        /\ kind = "plain" /\ res = "ok" => Spells(seq, S)
        /\ kind = "induction" /\ res = "ok" => (Several(ind) <=> U # {})
        /\ kind = "qminmode" /\ res = "nxdomain" => b.strict /\ T # {}
        /\ kind = "qminmode" /\ res = "ok" /\ Several(seq) => ~b.strict /\ T # {}
  BY <1>3, Zenon DEF Told
<1>5. Told(kind, b, res, seq, ind)' <=>
        /\ kind = "plain" /\ res = "ok" => Spells(seq, S)
        /\ kind = "induction" /\ res = "ok" => (Several(ind) <=> U # {})
        /\ kind = "qminmode" /\ res = "nxdomain" => b.strict /\ T # {}
        /\ kind = "qminmode" /\ res = "ok" /\ Several(seq) => ~b.strict /\ T # {}
  BY <1>1, <1>2, <1>3, Zenon DEF Told
<1> QED
  BY <1>4, <1>5, Zenon

LEMMA CollectsSame ==
    ASSUME Cfg' = Cfg, NEW p, NEW id, NEW b, Collects(p, id, b)
    PROVE  Collects(p, id, b)'
<1>1. /\ NamesOf(id.kind, FALSE, b)' = NamesOf(id.kind, FALSE, b)
      /\ NamesOf("plain", TRUE, b)' = NamesOf("plain", TRUE, b)
  BY NamesSame
<1> QED
  BY <1>1, Zenon DEF Collects

LEMMA ClearSame == ASSUME Calm, NEW id PROVE Clear(id)' <=> Clear(id)
<1>1. Two_servers(id)' <=> Two_servers(id)
  BY DEF Calm, Two_servers
<1>2. Ids' = Ids
  BY DEF Calm, Ids
<1> QED
  BY <1>1, <1>2, Zenon DEF Calm, Clear, Disturbed

LEMMA WellSame ==
    ASSUME Cfg' = Cfg, drawn \subseteq drawn', NEW j, WellJob(j)
    PROVE  WellJob(j)'
BY DEF WellJob, Origin, IsJob

\* A probe only grows, as far as the full name.
Further(p, o) ==
    \/ p = o
    \/ /\ p.currTokenNum \in 0 .. Cfg.depth /\ p.inductionTokenNum \in 0 .. Cfg.depth
       /\ o.currTokenNum \in 0 .. p.currTokenNum
       /\ o.inductionTokenNum \in 0 .. p.inductionTokenNum

LEMMA StillMeasured ==
    ASSUME Cfg \in Configs, Cfg' = Cfg, NEW h, h.behaviour \in Behaviours, Measured(h),
           Clear(h.id)' => Clear(h.id), NEW key, key = Origin(h),
           Clear(h.id)' /\ h.id.kind # "nxopti" =>
              /\ key \in DOMAIN probes =>
                    key \in DOMAIN probes' /\ Further(probes'[key], probes[key])
              /\ h.id.kind = "qminmode" /\ h.id \notin DOMAIN probes =>
                    h.id \notin DOMAIN probes'
              /\ h.id.kind = "qminmode" =>
                    \A d \in denied' : d \in denied \/ d[1] # h.id
    PROVE  Measured(h)'
<1> SUFFICES ASSUME Clear(h.id)', h.id.kind # "nxopti"
             PROVE  OnWay(h)' /\ Reached(h)' /\ DeniedOnce(h)'
  BY DEF Measured
<1>1. OnWay(h) /\ Reached(h) /\ DeniedOnce(h)
  BY DEF Measured
<1>2. PICK N, D : N = NamesOf(h.id.kind, h.target, h.behaviour) /\ D = Cfg.depth
  OBVIOUS
<1>3. NamesOf(h.id.kind, h.target, h.behaviour)' = N
  BY <1>2, NamesSame
<1>4. Naming(D, N)
  BY <1>2, NamesOfNaming
<1>5. OnWay(h)'
  BY <1>1, <1>2, <1>3, Zenon DEF OnWay
<1>6. h.at \in Nat
  <2>1. h.at \in {0} \cup N
    BY <1>1, <1>2, Zenon DEF OnWay
  <2>2. \A n \in N : n \in Nat
    BY <1>4, NamesAre
  <2> QED
    BY <2>1, <2>2
<1>7. Reached(h)'
  <2>0. Origin(h)' = key
    BY DEF Origin
  <2>1. h.at > 0 \/ h.target =>
           key \in DOMAIN probes /\ h.at <= Farthest(probes[key], h.target)
    BY <1>1 DEF Reached
  <2>2. h.target => probes[key].currTokenNum = D
    BY <1>1, <1>2 DEF Reached
  <2>3. ASSUME h.at > 0 \/ h.target
        PROVE  /\ key \in DOMAIN probes' /\ h.at <= Farthest(probes'[key], h.target)
               /\ h.target => probes'[key].currTokenNum = D
    <3>1. PICK p, o : p = probes'[key] /\ o = probes[key]
      OBVIOUS
    <3>2. key \in DOMAIN probes' /\ Further(p, o)
      BY <2>1, <2>3, <3>1
    <3>3. h.at <= Farthest(o, h.target) /\ (h.target => o.currTokenNum = D)
      BY <2>1, <2>2, <2>3, <3>1
    <3>4. D \in Nat
      BY <1>4, NamesAre
    <3>5. h.at <= Farthest(p, h.target) /\ (h.target => p.currTokenNum = D)
      <4>1. CASE p = o
        BY <3>3, <4>1
      <4>2. CASE p # o
        <5>1. /\ p.currTokenNum \in 0 .. D /\ p.inductionTokenNum \in 0 .. D
              /\ o.currTokenNum \in 0 .. p.currTokenNum
              /\ o.inductionTokenNum \in 0 .. p.inductionTokenNum
          BY <1>2, <3>2, <4>2 DEF Further
        <5> QED
          BY <1>6, <3>3, <3>4, <5>1 DEF Farthest
      <4> QED
        BY <4>1, <4>2
    <3> QED
      BY <3>1, <3>2, <3>5
  <2>4. Cfg'.depth = D
    BY <1>2
  <2> QED
    BY <2>0, <2>3, <2>4, Zenon DEF Reached, Farthest
<1>8. DeniedOnce(h)'
  <2>1. Way(h.behaviour.steps)' = Way(h.behaviour.steps)
    BY DEF Way
  <2> QED
    BY <1>1, <2>1 DEF DeniedOnce
<1> QED
  BY <1>5, <1>7, <1>8


-----------------------------------------------------------------------------
(***************************************************************************)
(* A request of a query, its own goroutine's or one that nobody waits for.  *)
(***************************************************************************)
MeasBase == Cfg \in Configs /\ WellInv /\ ProbesMeasured
Request(j) ==
    /\ MeasBase /\ WellJob(j) /\ Measured(j)
    /\ requestResponse(Next_query(j))
    /\ denied' = Denied(j, Next_query(j), Reply(Next_query(j)))
    /\ Calm

LEMMA RequestStores ==
    ASSUME NEW j, Request(j), NEW q, q = Next_query(j), NEW key, key = Key(j.id),
           NEW p, p = Probe(q)
    PROVE  /\ q.id = j.id /\ DOMAIN probes' = DOMAIN probes \cup {key} /\ probes'[key] = p
           /\ \A other \in DOMAIN probes : other # key => probes'[other] = probes[other]
<1>1. q.id = j.id
  BY QueryId
<1>2. probes' = [k \in DOMAIN probes \cup {key} |-> IF k = key THEN p ELSE probes[k]]
  BY <1>1, Zenon DEF Request, requestResponse
<1> QED
  BY <1>1, <1>2

\* The query whose request touches a probe that nothing disturbed is not disturbed.
LEMMA KeyClear ==
    ASSUME MeasBase, NEW j, WellJob(j), NEW key, key = Key(j.id), Clear(key),
           key.kind # "nxopti"
    PROVE  Clear(j.id) /\ j.id.kind # "nxopti"
<1>1. /\ key.nonce = j.id.nonce /\ (key = j.id \/ j.id.kind = "plain")
  BY KeyRooted DEF MeasBase
<1>2. j.id.kind # "nxopti"
  BY <1>1
<1>3. j.id.kind # "qminmode" \/ j.id = key
  BY <1>1
<1> QED
  BY <1>1, <1>2, <1>3, ClearAlike

LEMMA ProbesStay ==
    ASSUME NEW j, Request(j)
    PROVE  ProbesMeasured' /\ KeysWell' /\ ProbesTruly'
<1>1. PICK q, key, p : q = Next_query(j) /\ key = Key(j.id) /\ p = Probe(q)
  OBVIOUS
<1>2. /\ q.id = j.id /\ DOMAIN probes' = DOMAIN probes \cup {key} /\ probes'[key] = p
      /\ \A other \in DOMAIN probes : other # key => probes'[other] = probes[other]
  BY <1>1, RequestStores
<1>3. /\ Cfg \in Configs /\ WellInv /\ ProbesMeasured /\ WellJob(j) /\ Measured(j)
      /\ requestResponse(q) /\ denied' = Denied(j, q, Reply(q)) /\ MeasBase
      /\ Cfg' = Cfg /\ drawn' = drawn /\ Ids' = Ids
  BY <1>1 DEF Request, MeasBase, Calm, Ids
<1>4. ProbesTruly'
  BY <1>3, RequestKeeps DEF WellInv
<1>5. /\ Rooted(j.id) /\ Origin(j) \in Ids /\ (~j.target => Origin(j) = j.id)
      /\ (j.target => j.id.kind = "plain")
  BY <1>3, JobIs DEF WellInv
<1>6. /\ Rooted(key) /\ key.nonce = j.id.nonce
      /\ key \notin DOMAIN probes => key = j.id
  BY <1>1, <1>3, KeyRooted
<1>7. KeysWell'
  <2>1. \A id : Rooted(id) => Rooted(id)'
    BY <1>3 DEF Rooted
  <2>2. \A d \in denied' : d \in denied \/ d[1] = j.id
    BY <1>3 DEF Denied
  <2>3. \A k \in DOMAIN probes : Rooted(k)
    BY <1>3 DEF WellInv, KeysWell
  <2>4. \A d \in denied : Rooted(d[1])
    BY <1>3 DEF WellInv, KeysWell
  <2>5. \A k \in DOMAIN probes' : Rooted(k)'
    BY <1>2, <1>6, <2>1, <2>3
  <2>6. \A d \in denied' : Rooted(d[1])'
    BY <1>5, <2>1, <2>2, <2>4
  <2> QED
    BY <2>5, <2>6 DEF KeysWell, Rooted
<1>8. Calm
  BY DEF Request
<1>9. ASSUME NEW k \in DOMAIN probes', Clear(k)' PROVE k \in Ids'
  <2>1. Clear(k)
    BY <1>8, <1>9, ClearSame
  <2>2. CASE k \in DOMAIN probes
    BY <1>3, <2>1, <2>2 DEF ProbesMeasured
  <2>3. CASE k \notin DOMAIN probes
    <3>1. k = key /\ key = j.id /\ Clear(j.id)
      BY <1>2, <1>6, <2>1, <2>3
    <3>2. CASE j.id.kind = "nxopti"
      BY <1>3, <1>5, <3>1, <3>2
    <3>3. CASE j.id.kind # "nxopti"
      <4>1. key = Origin(j)
        BY <1>1, <1>3, <3>1, <3>3, ProbeMakes
      <4> QED
        BY <1>3, <1>5, <3>1, <4>1
    <3> QED
      BY <3>2, <3>3
  <2> QED
    BY <2>2, <2>3
<1>10. ASSUME NEW x \in drawn, x[1] \in DOMAIN probes', Clear(x[1])', x[1].kind # "nxopti"
       PROVE  Collects(probes[x[1]], x[1], x[2])'
  <2>0. PICK id, b, c : id = x[1] /\ b = x[2] /\ c = j.behaviour
    OBVIOUS
  <2>1. Clear(id)
    BY <1>8, <1>10, <2>0, ClearSame
  <2>2. Collects(probes'[id], id, b)
    <3>1. CASE id # key
      <4>1. id \in DOMAIN probes /\ probes'[id] = probes[id]
        BY <1>2, <1>10, <2>0, <3>1
      <4> QED
        BY <1>3, <1>10, <2>0, <2>1, <4>1, Zenon DEF ProbesMeasured
    <3>2. CASE id = key
      <4>1. Clear(j.id) /\ j.id.kind # "nxopti"
        BY <1>1, <1>3, <1>10, <2>0, <2>1, <3>2, KeyClear
      <4>2. key = Origin(j) /\ Makes(j, q, p)
        BY <1>1, <1>3, <4>1, ProbeMakes
      <4>3. Collects(p, key, c)
        BY <2>0, <4>2, Zenon DEF Makes
      <4>4. PICK y : y = <<key, c>>
        OBVIOUS
      <4>5. y \in drawn /\ y[1] = key /\ y[2] = c
        BY <1>3, <2>0, <4>2, <4>4 DEF WellJob
      <4>6. x[1] = y[1] /\ x[1].nonce = id.nonce
        BY <2>0, <3>2, <4>5
      <4>7. b = c
        BY <2>0, <2>1, <4>5, <4>6, ClearOne, Zenon
      <4> QED
        BY <1>2, <3>2, <4>3, <4>7, Zenon
    <3> QED
      BY <3>1, <3>2
  <2>3. PICK o : o = probes'[id]
    OBVIOUS
  <2>4. Collects(o, id, b)'
    BY <1>3, <2>2, <2>3, CollectsSame
  <2> QED
    BY <2>0, <2>3, <2>4, Zenon DEF Collects
<1>11. ProbesMeasured'
  <2>1. \A x \in drawn' : x \in drawn
    BY <1>3
  <2> QED
    BY <1>9, <1>10, <2>1, Zenon DEF ProbesMeasured
<1> QED
  BY <1>4, <1>7, <1>11


-----------------------------------------------------------------------------
\* A request disturbs no other query, but for one of qminmode under the same id.
LEMMA OthersStay ==
    ASSUME NEW j, Request(j), NEW h, WellJob(h), Measured(h),
           h.id.kind = "qminmode" /\ Clear(h.id) => h.id # j.id
    PROVE  Measured(h)'
<1>1. PICK q, key, p, at : /\ q = Next_query(j) /\ key = Key(j.id) /\ p = Probe(q)
                           /\ at = Origin(h)
  OBVIOUS
<1>2. /\ q.id = j.id /\ DOMAIN probes' = DOMAIN probes \cup {key} /\ probes'[key] = p
      /\ \A other \in DOMAIN probes : other # key => probes'[other] = probes[other]
  BY <1>1, RequestStores
<1>3. /\ Cfg \in Configs /\ WellInv /\ ProbesMeasured /\ WellJob(j) /\ Measured(j)
      /\ MeasBase /\ Cfg' = Cfg /\ Calm
  BY DEF Request, MeasBase, Calm
<1>4. \A d \in denied' : d \in denied \/ d[1] = j.id
  BY DEF Request, Denied
<1>5. key = j.id \/ key.kind = "induction"
  BY <1>1, <1>3, KeyRooted
<1>6. /\ h.behaviour \in Behaviours /\ at.nonce = h.id.nonce
      /\ at = h.id \/ at.kind = "induction"
  <2>1. /\ h.behaviour \in Behaviours /\ h.target \in BOOLEAN
        /\ Origin(h).nonce = h.id.nonce /\ (~h.target => Origin(h) = h.id)
        /\ (h.target => Origin(h).kind = "induction")
    BY <1>3, JobIs DEF WellInv
  <2> QED
    BY <1>1, <2>1
<1>7. Clear(h.id)' => Clear(h.id)
  BY <1>3, ClearSame
<1>8. ASSUME Clear(h.id), h.id.kind # "nxopti", at \in DOMAIN probes
      PROVE  at \in DOMAIN probes' /\ Further(probes'[at], probes[at])
  <2>1. CASE at # key
    BY <1>2, <1>8, <2>1 DEF Further
  <2>2. CASE at = key
    <3>1. Clear(at) /\ at.kind # "nxopti"
      <4>1. at.kind # "qminmode" \/ at = h.id
        BY <1>6
      <4> QED
        BY <1>6, <1>8, <4>1, ClearAlike
    <3>2. Clear(j.id) /\ j.id.kind # "nxopti"
      BY <1>1, <1>3, <2>2, <3>1, KeyClear
    <3>3. /\ key = Origin(j) /\ Makes(j, q, p)
          /\ key \in DOMAIN probes =>
                /\ probes[key].currTokenNum \in 0 .. p.currTokenNum
                /\ probes[key].inductionTokenNum \in 0 .. p.inductionTokenNum
      BY <1>1, <1>3, <3>2, ProbeMakes
    <3>4. p.currTokenNum \in 0 .. Cfg.depth /\ p.inductionTokenNum \in 0 .. Cfg.depth
      BY <3>3 DEF Makes
    <3>5. Further(p, probes[key])
      BY <1>8, <2>2, <3>3, <3>4 DEF Further
    <3> QED
      BY <1>2, <1>8, <2>2, <3>5
  <2> QED
    BY <2>1, <2>2
<1>9. ASSUME Clear(h.id), h.id.kind = "qminmode"
      PROVE  /\ h.id \notin DOMAIN probes => h.id \notin DOMAIN probes'
             /\ \A d \in denied' : d \in denied \/ d[1] # h.id
  <2>1. h.id # j.id /\ h.id # key
    BY <1>5, <1>9
  <2> QED
    BY <1>2, <1>4, <2>1
<1> QED
  BY <1>1, <1>3, <1>6, <1>7, <1>8, <1>9, StillMeasured

\* A query that comes to an end has told the truth.
LEMMA Ended ==
    ASSUME NEW j, Request(j), Clear(j.id), j.id.kind # "nxopti",
           NEW q, q = Next_query(j), NEW r, r = Reply(q), Ends(j, q, r)
    PROVE  Told(Origin(j).kind, j.behaviour, Ending(r), r.seq, r.ind)
<1>1. PICK p, b, D : p = Probe(q) /\ b = j.behaviour /\ D = Cfg.depth
  OBVIOUS
<1>2. /\ Cfg \in Configs /\ WellInv /\ ProbesMeasured /\ WellJob(j) /\ Measured(j)
  BY DEF Request, MeasBase
<1>3. Answered(j, q, p, r)
  BY <1>1, <1>2, QueryAnswered
<1>4. Labels(j) = D
  BY <1>1, <1>2, ProbeMakes
<1>5. CASE r.is = "txt" /\ Told(Origin(j).kind, b, "ok", r.seq, r.ind)
  <2>1. Ending(r) = "ok"
    BY <1>5 DEF Ending
  <2> QED
    BY <1>1, <1>5, <2>1
<1>6. CASE r.is = "cname"
  BY <1>6 DEF Ends
<1>7. CASE /\ r.is = "nxdomain" /\ j.id.kind = "qminmode" /\ ~j.target
           /\ q.labels < D /\ Way(b.steps) # {}
  <2>1. ~Is_full(j, q)
    <3>1. D \in Nat
      BY <1>1, <1>2, ConfigAssumption
    <3> QED
      BY <1>4, <1>7, <3>1 DEF Is_full
  <2>2. b.strict
    BY <1>1, <1>7, <2>1 DEF Ends
  <2>3. Ending(r) = "nxdomain"
    <3>1. r.is # "txt" /\ r.is \notin {"nodata", "ns"}
      BY <1>7
    <3>2. Ending(r) = r.is
      BY <3>1, Zenon DEF Ending
    <3> QED
      BY <1>7, <3>2
  <2>4. Origin(j) = j.id
    BY <1>7 DEF Origin
  <2>5. Told("qminmode", b, "nxdomain", r.seq, r.ind)
    BY <1>7, <2>2 DEF Told
  <2> QED
    BY <1>1, <1>7, <2>3, <2>4, <2>5
<1>8. CASE r.is \in {"nodata", "ns"} /\ q.type # "TXT"
  BY <1>8 DEF Ends, Is_final
<1> QED
  BY <1>1, <1>3, <1>5, <1>6, <1>7, <1>8 DEF Answered

\* At the alias the resolver goes on with the target's name.
ToTarget(j, g) ==
    /\ IsJob(g) /\ g.target = TRUE /\ g.at = 0 /\ g.full = FALSE
    /\ g.behaviour = j.behaviour /\ Induction(g.id) = j.id
    /\ g.id.kind = "plain" /\ g.id.nonce = j.id.nonce

LEMMA GoesToTarget ==
    ASSUME NEW j, IsJob(j), j.id.kind = "induction", NEW q, NEW r, r.is = "cname"
    PROVE  ToTarget(j, Goes_on(j, q, r))
<1>0. PICK g : g = Goes_on(j, q, r)
  OBVIOUS
<1>1. PICK kind, nonce, depth, top, at, target, full, b :
         j = [id |-> [kind |-> kind, nonce |-> nonce, depth |-> depth], top |-> top,
              at |-> at, target |-> target, full |-> full, behaviour |-> b]
  BY Zenon DEF IsJob
<1>2. kind = "induction" /\ j.id = [kind |-> kind, nonce |-> nonce, depth |-> depth]
  BY <1>1
<1>3. g = [j EXCEPT !.id.kind = "plain", !.target = TRUE, !.at = 0, !.full = FALSE]
  BY <1>0, Zenon DEF Goes_on
<1>4. g = [id |-> [kind |-> "plain", nonce |-> nonce, depth |-> depth], top |-> top,
           at |-> 0, target |-> TRUE, full |-> FALSE, behaviour |-> b]
  <2>1. [j EXCEPT !.id.kind = "plain"] =
          [id |-> [kind |-> "plain", nonce |-> nonce, depth |-> depth], top |-> top,
           at |-> at, target |-> target, full |-> full, behaviour |-> b]
    BY <1>1
  <2>2. g = [[[[j EXCEPT !.id.kind = "plain"] EXCEPT !.target = TRUE] EXCEPT !.at = 0]
                EXCEPT !.full = FALSE]
    BY <1>3, Zenon
  <2> QED
    BY <2>1, <2>2
<1>5. IsJob(g)
  BY <1>4, Zenon DEF IsJob
<1>6. /\ g.target = TRUE /\ g.at = 0 /\ g.full = FALSE /\ g.behaviour = b
      /\ g.id = [kind |-> "plain", nonce |-> nonce, depth |-> depth]
  BY <1>4
<1>7. Induction(g.id) = j.id /\ g.id.kind = "plain" /\ g.id.nonce = j.id.nonce
  BY <1>2, <1>6 DEF Induction
<1> QED
  BY <1>0, <1>1, <1>5, <1>6, <1>7 DEF ToTarget

\* What the resolver goes on with is a query again, of the same origin.
WellOn(j, q, r, g) ==
    /\ WellJob(g) /\ g.behaviour = j.behaviour /\ Origin(g) = Origin(j)
    /\ g.id.nonce = j.id.nonce
    /\ r.is = "cname" =>
          /\ j.id.kind = "induction" /\ g.id.kind = "plain"
          /\ g.target = TRUE /\ g.at = 0 /\ g.full = FALSE
    /\ r.is # "cname" =>
          /\ g.id = j.id /\ g.target = j.target /\ g.at = q.labels
          /\ g.full = IF r.is = "nxdomain" THEN TRUE ELSE j.full

LEMMA GoesOnWell ==
    ASSUME NEW j, Request(j), NEW q, q = Next_query(j), NEW r, r = Reply(q),
           NEW g, g = Goes_on(j, q, r)
    PROVE  WellOn(j, q, r, g) /\ WellJob(g)'
<1>1. /\ IsJob(j) /\ j.target \in BOOLEAN /\ (j.target => j.id.kind = "plain")
      /\ <<Origin(j), j.behaviour>> \in drawn /\ Cfg' = Cfg /\ drawn' = drawn
  BY DEF Request, WellJob, Calm
<1>2. CASE r.is = "cname"
  <2>1. j.id.kind = "induction"
    <3>1. PICK p : p = Probe(q)
      OBVIOUS
    <3>2. q.id.kind = "induction"
      BY <1>2, <3>1, Replies
    <3>3. q.id = j.id
      BY QueryId
    <3> QED
      BY <3>2, <3>3
  <2>2. /\ IsJob(g) /\ g.target = TRUE /\ g.at = 0 /\ g.full = FALSE
        /\ g.behaviour = j.behaviour /\ Induction(g.id) = j.id
        /\ g.id.kind = "plain" /\ g.id.nonce = j.id.nonce
    <3>1. ToTarget(j, g)
      BY <1>1, <1>2, <2>1, GoesToTarget, Zenon
    <3> QED
      BY <3>1, Zenon DEF ToTarget
  <2>3. Origin(g) = j.id /\ Origin(j) = j.id
    BY <1>1, <2>1, <2>2 DEF Origin
  <2>4. WellJob(g)
    BY <1>1, <2>2, <2>3 DEF WellJob
  <2>5. WellJob(g)'
    BY <1>1, <2>4, WellSame
  <2> QED
    BY <1>2, <2>1, <2>2, <2>3, <2>4, <2>5 DEF WellOn
<1>3. CASE r.is # "cname"
  <2>1. /\ IsJob(g) /\ g.behaviour = j.behaviour
        /\ g.id = j.id /\ g.target = j.target /\ g.at = q.labels
        /\ g.full = IF r.is = "nxdomain" THEN TRUE ELSE j.full
    <3>1. From(j, q, r, g)
      BY <1>1, GoesOn, Zenon
    <3> QED
      BY <1>3, <3>1, Zenon DEF From
  <2>2. Origin(g) = Origin(j)
    BY <2>1 DEF Origin
  <2>3. WellJob(g)
    BY <1>1, <2>1, <2>2 DEF WellJob
  <2>4. WellJob(g)'
    BY <1>1, <2>3, WellSame
  <2> QED
    BY <1>3, <2>1, <2>2, <2>3, <2>4, Zenon DEF WellOn
<1> QED
  BY <1>2, <1>3

\* And it is measured as the query before it was.
LEMMA GoesOnMeasured ==
    ASSUME NEW j, Request(j), NEW q, q = Next_query(j), NEW r, r = Reply(q),
           ~Ends(j, q, r), NEW g, g = Goes_on(j, q, r)
    PROVE  Measured(g)'
<1>1. PICK p, b, D, N, key : /\ p = Probe(q) /\ b = j.behaviour /\ D = Cfg.depth
                     /\ N = NamesOf(j.id.kind, j.target, j.behaviour) /\ key = Key(j.id)
  OBVIOUS
<1>2. /\ Cfg \in Configs /\ WellInv /\ ProbesMeasured /\ WellJob(j) /\ Measured(j)
      /\ Calm /\ Cfg' = Cfg
  BY DEF Request, MeasBase, Calm
<1>3. /\ g.behaviour = b /\ Origin(g) = Origin(j) /\ g.id.nonce = j.id.nonce
      /\ r.is = "cname" =>
            /\ j.id.kind = "induction" /\ g.id.kind = "plain"
            /\ g.target = TRUE /\ g.at = 0 /\ g.full = FALSE
      /\ r.is # "cname" =>
            /\ g.id = j.id /\ g.target = j.target /\ g.at = q.labels
            /\ g.full = IF r.is = "nxdomain" THEN TRUE ELSE j.full
  <2>1. WellOn(j, q, r, g)
    BY GoesOnWell, Zenon
  <2> QED
    BY <1>1, <2>1, Zenon DEF WellOn
<1> SUFFICES ASSUME Clear(g.id)', g.id.kind # "nxopti"
             PROVE  OnWay(g)' /\ Reached(g)' /\ DeniedOnce(g)'
  BY DEF Measured
<1>4. Clear(j.id) /\ j.id.kind # "nxopti"
  <2>1. Clear(g.id)
    BY <1>2, ClearSame
  <2>2. j.id.kind # "nxopti" /\ (j.id.kind # "qminmode" \/ j.id = g.id)
    BY <1>3
  <2> QED
    BY <1>3, <2>1, <2>2, ClearAlike
<1>5. Answered(j, q, p, r)
  BY <1>1, <1>2, <1>4, QueryAnswered
<1>6. /\ key = Origin(j) /\ Makes(j, q, p) /\ Labels(j) = D /\ \E v : Asks(q, D, N, j.at, v)
  BY <1>1, <1>2, <1>4, ProbeMakes
<1>7. PICK v : Asks(q, D, N, j.at, v)
  BY <1>6
<1>8. /\ b \in Behaviours /\ j.target \in BOOLEAN /\ Naming(D, N)
  BY <1>1, <1>2, JobIs, NamesOfNaming DEF WellInv
<1>9. /\ D \in Nat /\ D > 0 /\ D \in N
      /\ \A n \in N : n \in Nat /\ n > 0 /\ n <= D + 1
      /\ \A n \in N : n > D => n = D + 1
  BY <1>8, NamesAre
<1>10. /\ key \in DOMAIN probes' /\ probes'[key] = p
  <2>1. DOMAIN probes' = DOMAIN probes \cup {key} /\ probes'[key] = p
    <3>1. q.id = j.id
      BY QueryId
    <3>2. probes' = [k \in DOMAIN probes \cup {key} |-> IF k = key THEN p ELSE probes[k]]
      BY <1>1, <3>1, Zenon DEF Request, requestResponse
    <3> QED
      BY <3>2
  <2> QED
    BY <2>1
<1>11. OnWay(j) /\ DeniedOnce(j)
  BY <1>2, <1>4 DEF Measured
<1>12. Origin(g)' = key
  BY <1>3, <1>6 DEF Origin
<1>13. CASE r.is = "cname" /\ p.currTokenNum = D
  <2>1. PICK M : M = NamesOf("plain", TRUE, b)
    OBVIOUS
  <2>2. NamesOf("plain", TRUE, b)' = M
    BY <1>2, <2>1, NamesSame
  <2>3. D \in M
    BY <1>1, <2>1 DEF NamesOf
  <2>4. OnWay(g)'
    <3>0. /\ g.at = 0 /\ g.full = FALSE /\ g.id.kind = "plain"
      BY <1>3, <1>13
    <3>1. /\ g.at \in {0} \cup M /\ g.at <= D /\ \E n \in M : n > g.at
          /\ g.full = (g.id.kind = "qminmode" /\ g.at > 0)
      <4>1. g.id.kind # "qminmode"
        BY <3>0
      <4>2. g.full = (g.id.kind = "qminmode" /\ g.at > 0)
        BY <3>0, <4>1, Zenon
      <4>3. D > 0 /\ 0 <= D
        BY <1>9
      <4> QED
        BY <2>3, <3>0, <4>2, <4>3
    <3>2. NamesOf(g.id.kind, g.target, g.behaviour)' = M
      BY <1>3, <1>13, <2>2, Zenon
    <3> QED
      BY <1>1, <1>2, <3>1, <3>2, Zenon DEF OnWay
  <2>5. Reached(g)'
    <3>1. p.inductionTokenNum \in 0 .. D
      BY <1>1, <1>6 DEF Makes
    <3>2. g.at <= Farthest(p, g.target)
      BY <1>3, <1>13, <3>1 DEF Farthest
    <3>3. p.currTokenNum = Cfg'.depth
      BY <1>1, <1>2, <1>13
    <3> QED
      BY <1>10, <1>12, <3>2, <3>3, Zenon DEF Reached, Farthest
  <2>6. DeniedOnce(g)'
    BY <1>3, <1>13 DEF DeniedOnce
  <2> QED
    BY <2>4, <2>5, <2>6
<1>14. CASE /\ r.is # "cname" /\ \E n \in N : n > q.labels
            /\ g.full = (j.id.kind = "qminmode")
            /\ j.id.kind = "qminmode" => ~b.strict /\ Way(b.steps) # {}
  <2>1. q.labels \in N /\ q.labels <= D /\ q.labels > 0
    <3>1. v \in N /\ q.labels = IF v > D THEN D ELSE v
      BY <1>7, Zenon DEF Asks
    <3>2. v \in Nat /\ v > 0
      BY <1>9, <3>1, Zenon
    <3> QED
      BY <1>9, <3>1, <3>2
  <2>2. OnWay(g)'
    <3>1. g.id = j.id /\ g.target = j.target /\ g.at = q.labels /\ g.behaviour = j.behaviour
      BY <1>1, <1>3, <1>14
    <3>2. NamesOf(g.id.kind, g.target, g.behaviour)' = N
      BY <1>1, <1>2, <3>1, NamesSame
    <3>3. /\ g.at \in {0} \cup N /\ g.at <= D /\ \E n \in N : n > g.at
      BY <1>14, <2>1, <3>1
    <3>4. g.full = (g.id.kind = "qminmode" /\ g.at > 0)
      <4>1. g.at > 0
        BY <2>1, <3>1
      <4> QED
        BY <1>14, <3>1, <4>1, Zenon
    <3> QED
      BY <1>1, <1>2, <3>2, <3>3, <3>4, Zenon DEF OnWay
  <2>3. Reached(g)'
    <3>1. q.labels <= Farthest(p, j.target) /\ (j.target => p.currTokenNum = D)
      BY <1>1, <1>6, Zenon DEF Makes
    <3>2. g.at <= Farthest(p, g.target) /\ (g.target => p.currTokenNum = Cfg'.depth)
      BY <1>1, <1>2, <1>3, <1>14, <3>1
    <3> QED
      BY <1>10, <1>12, <3>2, Zenon DEF Reached, Farthest
  <2>4. DeniedOnce(g)'
    <3>1. g.id.kind = "qminmode" => ~g.behaviour.strict /\ Way(g.behaviour.steps)' # {}
      BY <1>2, <1>3, <1>14 DEF Way
    <3>2. g.at # 0
      <4>1. g.at = q.labels /\ q.labels \in Nat
        BY <1>3, <1>9, <1>14, <2>1, Zenon
      <4> QED
        BY <2>1, <4>1
    <3> QED
      BY <3>1, <3>2 DEF DeniedOnce
  <2> QED
    BY <2>2, <2>3, <2>4
<1>15. CASE /\ r.is = "nxdomain" /\ j.id.kind = "qminmode" /\ q.labels < D
            /\ Way(b.steps) # {}
  <2>1. ~b.strict
    BY <1>1, <1>15 DEF Ends
  <2>2. g.full = (j.id.kind = "qminmode")
    <3>1. g.full = TRUE
      BY <1>3, <1>15
    <3> QED
      BY <1>15, <3>1
  <2> QED
    BY <1>9, <1>14, <1>15, <2>1, <2>2
<1>16. CASE /\ r.is \in {"nodata", "ns"} /\ q.type # "TXT"
            /\ j.id.kind = "qminmode" => j.at > 0
  <2>1. \E n \in N : n > q.labels
    <3>1. /\ v \in N /\ q.labels = IF v > D THEN D ELSE v
          /\ q.type = "TXT" <=> v = D + 1 \/ (v = D /\ D + 1 \notin N)
      BY <1>7, Zenon DEF Asks
    <3>2. v # D + 1 /\ (v = D => D + 1 \in N)
      BY <1>16, <3>1
    <3>3. v \in Nat /\ v > 0 /\ (v > D => v = D + 1)
      BY <1>9, <3>1, Zenon
    <3>4. v <= D /\ q.labels = v
      BY <1>9, <3>1, <3>2, <3>3
    <3> QED
      BY <1>9, <3>2, <3>3, <3>4
  <2>2. g.full = (j.id.kind = "qminmode")
    <3>1. r.is # "cname" /\ r.is # "nxdomain"
      BY <1>16
    <3>2. g.full = j.full
      BY <1>3, <3>1
    <3>3. j.full = (j.id.kind = "qminmode" /\ j.at > 0)
      BY <1>11, Zenon DEF OnWay
    <3> QED
      BY <1>16, <3>2, <3>3, Zenon
  <2>3. j.id.kind = "qminmode" => ~b.strict /\ Way(b.steps) # {}
    BY <1>1, <1>11, <1>16 DEF DeniedOnce
  <2> QED
    BY <1>14, <1>16, <2>1, <2>2, <2>3
<1>17. CASE r.is = "txt"
  BY <1>17 DEF Ends
<1> QED
  BY <1>1, <1>5, <1>13, <1>15, <1>16, <1>17 DEF Answered


-----------------------------------------------------------------------------
(***************************************************************************)
(* The invariant: probes, queries at the resolver and rows are measured.    *)
(* Of the queries of qminmode under one id, nobody waits for more than the  *)
(* one, and there is no second.                                             *)
(***************************************************************************)
JobsMeasured ==
    /\ \A s \in stray : Measured(s)
    /\ \A k \in Kinds : rpc[k] = "wait" => \A j \in {job[k]} : Measured(j)
Single ==
    \A s \in stray : s.id.kind = "qminmode" /\ Clear(s.id) =>
        /\ rpc["qminmode"] = "wait" => job["qminmode"].id # s.id
        /\ \A t \in stray : t.id = s.id => t = s
RowTrue(row, k, b) ==
    row.kind = k /\ (Clear(row.id) => Told(k, b, row.res, row.seq, row.ind))
RowsMeasured ==
    \A k \in Kinds : Sent(k) =>
        \A row \in {out[k]}, b \in {behaviour[k]} : RowTrue(row, k, b)

MeasInv == WellInv /\ ProbesMeasured /\ JobsMeasured /\ Single /\ RowsMeasured

\* What has to be true of a goroutine that moves.
Anew(i) ==
    /\ rpc[i] # "off" => behaviour[i] \in Behaviours
    /\ Asking(i) => \A j \in {job[i]}, b \in {behaviour[i]} : OwnJob(j, i, b)
    /\ rpc[i] = "wait" => \A j \in {job[i]} : Measured(j)
    /\ Sent(i) => \A row \in {out[i]}, b \in {behaviour[i]} : RowTrue(row, i, b)
Rests(i) ==
    rpc'[i] = rpc[i] /\ job'[i] = job[i] /\ out'[i] = out[i] /\ behaviour'[i] = behaviour[i]

LEMMA OwnStays ==
    ASSUME Disturbs, NEW j, NEW k, NEW b, OwnJob(j, k, b)
    PROVE  OwnJob(j, k, b)'
<1>1. WellJob(j)'
  BY WellSame DEF OwnJob, Disturbs
<1> QED
  BY <1>1 DEF OwnJob, Origin

LEMMA RowStays ==
    ASSUME Disturbs, NEW row, NEW k, NEW b, RowTrue(row, k, b)
    PROVE  RowTrue(row, k, b)'
<1>1. Clear(row.id)' => Clear(row.id)
  BY ClearBefore
<1>2. Told(k, b, row.res, row.seq, row.ind)' <=> Told(k, b, row.res, row.seq, row.ind)
  BY ToldSame DEF Disturbs
<1> QED
  BY <1>1, <1>2 DEF RowTrue

\* A step of some goroutines, or of none.
LEMMA StepMeasures ==
    ASSUME MeasInv, Disturbs, NEW M \in SUBSET Kinds,
           \A i \in Kinds \ M : Rests(i), \A i \in M : Anew(i)',
           \A s \in stray' : WellJob(s)' /\ Measured(s)',
           \A i \in Kinds \ M : rpc[i] = "wait" => \A h \in {job[i]} : Measured(h)',
           DOMAIN job' = Kinds, Single', DrawnWell', KeysWell', ProbesTruly', ProbesMeasured'
    PROVE  MeasInv'
<1>1. ASSUME NEW i \in Kinds \ M PROVE Anew(i)'
  <2>1. PICK h, c, row, at : h = job[i] /\ c = behaviour[i] /\ row = out[i] /\ at = rpc[i]
    OBVIOUS
  <2>2. job'[i] = h /\ behaviour'[i] = c /\ out'[i] = row /\ rpc'[i] = at /\ i \in Kinds
    BY <1>1, <2>1 DEF Rests
  <2>3. at # "off" => c \in Behaviours
    BY <2>1, <2>2 DEF MeasInv, WellInv, BehavedTruly
  <2>4. Asking(i)' => OwnJob(h, i, c)'
    <3> SUFFICES ASSUME Asking(i)' PROVE OwnJob(h, i, c)'
      OBVIOUS
    <3>1. Asking(i)
      BY <2>1, <2>2 DEF Asking
    <3>2. OwnJob(h, i, c)
      BY <2>1, <2>2, <3>1 DEF MeasInv, WellInv, JobsWell
    <3> QED
      BY <3>2, OwnStays
  <2>5. at = "wait" => Measured(h)'
    BY <1>1, <2>1
  <2>6. Sent(i)' => RowTrue(row, i, c)'
    <3> SUFFICES ASSUME Sent(i)' PROVE RowTrue(row, i, c)'
      OBVIOUS
    <3>1. Sent(i)
      BY <2>1, <2>2 DEF Sent
    <3>2. RowTrue(row, i, c)
      BY <2>1, <2>2, <3>1 DEF MeasInv, RowsMeasured
    <3> QED
      BY <3>2, RowStays
  <2> QED
    BY <2>2, <2>3, <2>4, <2>5, <2>6, Zenon DEF Anew
<1>2. \A i \in Kinds : Anew(i)'
  BY <1>1
<1>3. JobsWell' /\ JobsMeasured' /\ RowsMeasured' /\ BehavedTruly'
  <2>1. JobsWell'
    BY <1>2, Zenon DEF Anew, JobsWell
  <2>2. JobsMeasured'
    BY <1>2, Zenon DEF Anew, JobsMeasured
  <2>3. RowsMeasured'
    BY <1>2, Zenon DEF Anew, RowsMeasured
  <2>4. BehavedTruly'
    BY <1>2, Zenon DEF Anew, BehavedTruly
  <2> QED
    BY <2>1, <2>2, <2>3, <2>4
<1> QED
  BY <1>3 DEF MeasInv, WellInv

\* Who is at the resolver.
LEMMA JobsOf ==
    ASSUME MeasInv
    PROVE  /\ \A s \in stray : WellJob(s) /\ Measured(s)
           /\ \A i \in Kinds : rpc[i] = "wait" =>
                 \A h \in {job[i]}, b \in {behaviour[i]} :
                    OwnJob(h, i, b) /\ WellJob(h) /\ Measured(h)
<1>1. \A s \in stray : WellJob(s) /\ Measured(s)
  BY DEF MeasInv, WellInv, JobsWell, JobsMeasured
<1>2. ASSUME NEW i \in Kinds, rpc[i] = "wait", NEW h \in {job[i]}, NEW b \in {behaviour[i]}
      PROVE  OwnJob(h, i, b) /\ WellJob(h) /\ Measured(h)
  <2>1. Asking(i)
    BY <1>2 DEF Asking
  <2>2. OwnJob(h, i, b)
    BY <1>2, <2>1 DEF MeasInv, WellInv, JobsWell
  <2>3. Measured(h)
    BY <1>2 DEF MeasInv, JobsMeasured
  <2> QED
    BY <2>2, <2>3 DEF OwnJob
<1> QED
  BY <1>1, <1>2

\* The goroutine whose query asks for a name of qminmode.
LEMMA OwnKind ==
    ASSUME Cfg \in Configs, WellInv, NEW j, NEW k, NEW b, OwnJob(j, k, b)
    PROVE  /\ j.id.kind = "qminmode" <=> k = "qminmode"
           /\ j.id.kind = "nxopti" <=> k = "nxopti"
           /\ k # "induction" => ~j.target /\ Origin(j) = j.id
<1>1. WellJob(j) /\ Origin(j).kind = k
  BY DEF OwnJob
<1>2. /\ j.target \in BOOLEAN
      /\ ~j.target => Origin(j) = j.id
      /\ j.target => Origin(j).kind = "induction" /\ j.id.kind = "plain"
  BY <1>1, JobIs DEF WellInv
<1> QED
  BY <1>1, <1>2


-----------------------------------------------------------------------------
(***************************************************************************)
(* The steps, one after the other.                                          *)
(***************************************************************************)
Quiet == Calm /\ UNCHANGED <<probes, denied>>

LEMMA CalmDisturbs == ASSUME Calm PROVE Disturbs /\ Cfg' = Cfg /\ drawn' = drawn
BY DEF Calm, Disturbs

LEMMA DrawnStays == ASSUME DrawnWell, Cfg' = Cfg, drawn' = drawn PROVE DrawnWell'
BY DEF DrawnWell, domainAssembly

LEMMA QuietStays ==
    ASSUME Cfg \in Configs, MeasInv, Quiet
    PROVE  /\ DrawnWell' /\ KeysWell' /\ ProbesTruly' /\ ProbesMeasured'
           /\ \A h : WellJob(h) /\ Measured(h) => WellJob(h)' /\ Measured(h)'
<1>1. /\ WellInv /\ DrawnWell /\ KeysWell /\ ProbesTruly /\ ProbesMeasured
      /\ Cfg' = Cfg /\ drawn' = drawn /\ probes' = probes /\ denied' = denied /\ Calm
  BY DEF MeasInv, WellInv, Quiet, Calm
<1>2. DrawnWell'
  BY <1>1, DrawnStays
<1>3. KeysWell'
  BY <1>1 DEF KeysWell, Rooted, Ids
<1>4. ProbesTruly'
  BY <1>1 DEF ProbesTruly, IsProbe
<1>5. ProbesMeasured'
  <2>1. ASSUME NEW key \in DOMAIN probes', Clear(key)' PROVE key \in Ids'
    <3>1. Clear(key) /\ Ids' = Ids
      BY <1>1, <2>1, ClearSame DEF Ids
    <3> QED
      BY <1>1, <2>1, <3>1 DEF ProbesMeasured
  <2>2. ASSUME NEW x \in drawn, x[1] \in DOMAIN probes', Clear(x[1])', x[1].kind # "nxopti"
        PROVE  Collects(probes[x[1]], x[1], x[2])'
    <3>1. PICK id, b, p : id = x[1] /\ b = x[2] /\ p = probes[id]
      OBVIOUS
    <3>2. Clear(id)
      BY <1>1, <2>2, <3>1, ClearSame
    <3>3. Collects(p, id, b)
      BY <1>1, <2>2, <3>1, <3>2, Zenon DEF ProbesMeasured
    <3>4. Collects(p, id, b)'
      BY <1>1, <3>3, CollectsSame
    <3> QED
      BY <1>1, <3>1, <3>4, Zenon DEF Collects
  <2> QED
    BY <1>1, <2>1, <2>2, Zenon DEF ProbesMeasured
<1>6. ASSUME NEW h, WellJob(h), Measured(h) PROVE WellJob(h)' /\ Measured(h)'
  <2>1. WellJob(h)'
    BY <1>1, <1>6, WellSame
  <2>2. PICK key : key = Origin(h)
    OBVIOUS
  <2>3. h.behaviour \in Behaviours
    BY <1>1, <1>6, JobIs DEF WellInv
  <2>4. Clear(h.id)' => Clear(h.id)
    BY <1>1, ClearSame
  <2>5. key \in DOMAIN probes => key \in DOMAIN probes' /\ Further(probes'[key], probes[key])
    BY <1>1 DEF Further
  <2>6. Measured(h)'
    BY <1>1, <1>6, <2>2, <2>3, <2>4, <2>5, StillMeasured
  <2> QED
    BY <2>1, <2>6
<1> QED
  BY <1>2, <1>3, <1>4, <1>5, <1>6

\* What a goroutine makes of an outcome.
OutcomeIs(k, j, res, seq, ind) ==
    \/ k = "nxopti" /\ out' = out /\ rpc' = [rpc EXCEPT ![k] = "ask_b"]
    \/ /\ rpc' = [rpc EXCEPT ![k] = "send"]
       /\ \E row : /\ out' = [out EXCEPT ![k] = row] /\ row.kind = k /\ row.id = j.id
                   /\ k # "nxopti" => row.res = res /\ row.seq = seq /\ row.ind = ind

LEMMA OutcomeMakes ==
    ASSUME NEW k \in Kinds, NEW res, NEW seq, NEW ind, Outcome(k, res, seq, ind)
    PROVE  OutcomeIs(k, job[k], res, seq, ind)
<1>1. ASSUME NEW n, NEW e, NEW s, NEW i, Send(k, Row(k, e, s, i, n)),
             k # "nxopti" => e = res /\ s = seq /\ i = ind
      PROVE  OutcomeIs(k, job[k], res, seq, ind)
  <2>1. PICK row : row = Row(k, e, s, i, n)
    OBVIOUS
  <2>2. row.kind = k /\ row.id = job[k].id /\ row.res = e /\ row.seq = s /\ row.ind = i
    BY <2>1 DEF Row
  <2>3. out' = [out EXCEPT ![k] = row] /\ rpc' = [rpc EXCEPT ![k] = "send"]
    BY <1>1, <2>1, Zenon DEF Send
  <2> QED
    BY <1>1, <2>2, <2>3, Zenon DEF OutcomeIs
<1>2. CASE k # "nxopti"
  <2>1. Send(k, Row(k, res, seq, ind, -1))
    BY <1>2, Zenon DEF Outcome
  <2> QED
    BY <1>1, <2>1, Zenon
<1>3. CASE k = "nxopti"
  <2>1. \/ out' = out /\ rpc' = [rpc EXCEPT ![k] = "ask_b"]
        \/ \E n, e, s, i : Send(k, Row(k, e, s, i, n))
    BY <1>3 DEF Outcome
  <2>2. ASSUME NEW n, NEW e, NEW s, NEW i, Send(k, Row(k, e, s, i, n))
        PROVE  OutcomeIs(k, job[k], res, seq, ind)
    BY <1>1, <1>3, <2>2, Zenon
  <2> QED
    BY <1>3, <2>1, <2>2, Zenon DEF OutcomeIs
<1> QED
  BY <1>2, <1>3

\* The goroutine that has the outcome of a query tells the truth if the outcome does.
LEMMA OutcomeAnew ==
    ASSUME RowInv, MeasInv, Calm, NEW k \in Kinds, rpc[k] = "wait",
           behaviour' = behaviour, job' = job,
           NEW j, j = job[k], NEW b, b = behaviour[k],
           NEW res, NEW seq, NEW ind, OutcomeIs(k, j, res, seq, ind),
           k # "nxopti" /\ Clear(j.id) => Told(k, b, res, seq, ind)
    PROVE  Anew(k)' /\ (\A i \in Kinds \ {k} : Rests(i)) /\ rpc'[k] # "wait"
<1>1. /\ Cfg \in Configs /\ WellInv /\ Disturbs /\ DOMAIN out = Kinds
      /\ rpc \in [Kinds -> Stages] /\ b \in Behaviours
  BY CalmDisturbs DEF RowInv, Types, MeasInv, WellInv, BehavedTruly
<1>2. OwnJob(j, k, b)
  BY JobsOf
<1>3. OwnJob(j, k, b)'
  BY <1>1, <1>2, OwnStays
<1>4. CASE k = "nxopti" /\ out' = out /\ rpc' = [rpc EXCEPT ![k] = "ask_b"]
  <2>1. rpc'[k] = "ask_b" /\ ~Sent(k)' /\ \A i \in Kinds \ {k} : Rests(i)
    BY <1>1, <1>4 DEF Sent, Rests
  <2>2. job'[k] = j /\ behaviour'[k] = b
    OBVIOUS
  <2>3. rpc'[k] # "wait"
    BY <2>1
  <2>4. Anew(k)'
    BY <1>1, <1>3, <2>1, <2>2, <2>3, Zenon DEF Anew
  <2> QED
    BY <2>1, <2>3, <2>4
<1>5. ASSUME rpc' = [rpc EXCEPT ![k] = "send"], NEW row, out' = [out EXCEPT ![k] = row],
             row.kind = k, row.id = j.id,
             k # "nxopti" => row.res = res /\ row.seq = seq /\ row.ind = ind
      PROVE  Anew(k)' /\ (\A i \in Kinds \ {k} : Rests(i)) /\ rpc'[k] # "wait"
  <2>1. /\ rpc'[k] = "send" /\ out'[k] = row /\ behaviour'[k] = b
        /\ \A i \in Kinds \ {k} : Rests(i)
    BY <1>1, <1>5 DEF Rests
  <2>2. RowTrue(row, k, b)
    <3>1. CASE k = "nxopti"
      BY <1>5, <3>1 DEF RowTrue, Told
    <3>2. CASE k # "nxopti"
      BY <1>5, <3>2, Zenon DEF RowTrue
    <3> QED
      BY <3>1, <3>2
  <2>3. RowTrue(row, k, b)'
    BY <1>1, <2>2, RowStays
  <2>4. rpc'[k] # "wait" /\ ~Asking(k)'
    BY <2>1 DEF Asking
  <2>5. Anew(k)'
    BY <1>1, <2>1, <2>3, <2>4, Zenon DEF Anew
  <2> QED
    BY <2>1, <2>4, <2>5
<1> QED
  BY <1>4, <1>5 DEF OutcomeIs


-----------------------------------------------------------------------------
LEMMA TimeoutMeasures ==
    ASSUME RowInv, MeasInv, NEW k \in Kinds, Timeout(k)
    PROVE  MeasInv'
<1>1. PICK j, b, M : j = job[k] /\ b = behaviour[k] /\ M = {k}
  OBVIOUS
<1>2. /\ rpc[k] = "wait" /\ stray' = stray \cup {j} /\ job' = job /\ behaviour' = behaviour
      /\ Quiet /\ Calm
      /\ \/ rpc' = [rpc EXCEPT ![k] = "ask"] /\ out' = out
         \/ Outcome(k, "timeout", <<>>, <<>>)
  BY <1>1 DEF Timeout, Quiet, Calm, idVars
<1>3. /\ Cfg \in Configs /\ WellInv /\ Disturbs /\ DOMAIN out = Kinds /\ DOMAIN job = Kinds
      /\ rpc \in [Kinds -> Stages] /\ b \in Behaviours
  BY <1>1, <1>2, CalmDisturbs DEF RowInv, Types, MeasInv, WellInv, BehavedTruly, JobsWell
<1>4. OwnJob(j, k, b) /\ WellJob(j) /\ Measured(j)
  BY <1>1, <1>2, JobsOf
<1>5. /\ DrawnWell' /\ KeysWell' /\ ProbesTruly' /\ ProbesMeasured'
      /\ \A h : WellJob(h) /\ Measured(h) => WellJob(h)' /\ Measured(h)'
  BY <1>2, <1>3, QuietStays
<1>6. Anew(k)' /\ (\A i \in Kinds \ {k} : Rests(i)) /\ rpc'[k] # "wait"
  <2>1. CASE rpc' = [rpc EXCEPT ![k] = "ask"] /\ out' = out
    <3>1. /\ rpc'[k] = "ask" /\ ~Sent(k)' /\ job'[k] = j /\ behaviour'[k] = b
          /\ \A i \in Kinds \ {k} : Rests(i)
      BY <1>1, <1>2, <1>3, <2>1 DEF Sent, Rests
    <3>2. OwnJob(j, k, b)'
      BY <1>3, <1>4, OwnStays
    <3>3. rpc'[k] # "wait"
      BY <3>1
    <3>4. Anew(k)'
      BY <1>3, <3>1, <3>2, <3>3, Zenon DEF Anew
    <3> QED
      BY <3>1, <3>3, <3>4
  <2>2. CASE Outcome(k, "timeout", <<>>, <<>>)
    <3>1. PICK res, seq, ind : res = "timeout" /\ seq = <<>> /\ ind = <<>>
      OBVIOUS
    <3>2. OutcomeIs(k, j, res, seq, ind)
      BY <1>1, <2>2, <3>1, OutcomeMakes, Zenon
    <3>3. Told(k, b, res, seq, ind)
      BY <3>1 DEF Told
    <3> QED
      BY <1>1, <1>2, <3>2, <3>3, OutcomeAnew
  <2> QED
    BY <1>2, <2>1, <2>2
<1>7. \A s \in stray' : WellJob(s)' /\ Measured(s)'
  <2>1. \A s \in stray' : WellJob(s) /\ Measured(s)
    BY <1>2, <1>4, JobsOf
  <2> QED
    BY <1>5, <2>1
<1>8. \A i \in Kinds \ {k} : rpc[i] = "wait" => \A h \in {job[i]} : Measured(h)'
  BY <1>5, JobsOf
<1>9. Single'
  <2>0. j.id.kind = "qminmode" <=> k = "qminmode"
    BY <1>3, <1>4, OwnKind
  <2>1. ASSUME NEW s \in stray', s.id.kind = "qminmode", Clear(s.id)'
        PROVE  /\ rpc'["qminmode"] = "wait" => job'["qminmode"].id # s.id
               /\ \A t \in stray' : t.id = s.id => t = s
    <3>1. Clear(s.id)
      BY <1>2, <2>1, ClearSame
    <3>2. CASE s = j
      <4>1. k = "qminmode"
        BY <2>0, <2>1, <3>2
      <4>2. ASSUME NEW t \in stray, t.id = s.id PROVE FALSE
        <5>1. rpc["qminmode"] = "wait" => job["qminmode"].id # t.id
          BY <2>1, <3>1, <4>2 DEF MeasInv, Single
        <5> QED
          BY <1>1, <1>2, <3>2, <4>1, <4>2, <5>1
      <4>3. \A t \in stray' : t.id = s.id => t = s
        BY <1>2, <3>2, <4>2
      <4> QED
        BY <1>6, <4>1, <4>3
    <3>3. CASE s # j
      <4>1. s \in stray
        BY <1>2, <2>1, <3>3
      <4>2. /\ rpc["qminmode"] = "wait" => job["qminmode"].id # s.id
            /\ \A t \in stray : t.id = s.id => t = s
        BY <2>1, <3>1, <4>1 DEF MeasInv, Single
      <4>3. rpc'["qminmode"] = "wait" => rpc["qminmode"] = "wait"
        <5>1. "qminmode" \in Kinds
          BY DEF Kinds
        <5> QED
          BY <1>6, <5>1 DEF Rests
      <4>4. j.id # s.id
        <5>1. CASE k = "qminmode"
          BY <1>1, <1>2, <4>2, <5>1
        <5>2. CASE k # "qminmode"
          BY <2>0, <2>1, <5>2
        <5> QED
          BY <5>1, <5>2
      <4> QED
        BY <1>2, <4>2, <4>3, <4>4
    <3> QED
      BY <3>2, <3>3
  <2> QED
    BY <2>1, Zenon DEF Single
<1>10. DOMAIN job' = Kinds /\ (\A i \in M : Anew(i)') /\ (\A i \in Kinds \ M : Rests(i))
       /\ M \in SUBSET Kinds
  BY <1>1, <1>2, <1>3, <1>6
<1> QED
  BY <1>1, <1>3, <1>5, <1>7, <1>8, <1>9, <1>10, StepMeasures

\* A query of qminmode is not answered from a denial: its id was not asked for before.
LEMMA RememberedMeasures ==
    ASSUME RowInv, MeasInv, NEW k \in Kinds, Resolve_denied(k)
    PROVE  MeasInv'
<1>1. PICK j, b, M : j = job[k] /\ b = behaviour[k] /\ M = {k}
  OBVIOUS
<1>2. /\ rpc[k] = "wait" /\ stray' = stray /\ job' = job /\ behaviour' = behaviour
      /\ Quiet /\ Calm /\ Outcome(k, "nxdomain", <<>>, <<>>)
      /\ j.at = 0 /\ \E d \in denied : d[1] = j.id
  BY <1>1 DEF Resolve_denied, Quiet, Calm, idVars, resolverVars, Known_denied
<1>3. /\ Cfg \in Configs /\ WellInv /\ Disturbs /\ DOMAIN job = Kinds
  BY <1>2, CalmDisturbs DEF RowInv, Types, MeasInv, WellInv, JobsWell
<1>4. OwnJob(j, k, b) /\ WellJob(j) /\ Measured(j)
  BY <1>1, <1>2, JobsOf
<1>5. /\ DrawnWell' /\ KeysWell' /\ ProbesTruly' /\ ProbesMeasured'
      /\ \A h : WellJob(h) /\ Measured(h) => WellJob(h)' /\ Measured(h)'
  BY <1>2, <1>3, QuietStays
<1>6. Anew(k)' /\ (\A i \in Kinds \ {k} : Rests(i)) /\ rpc'[k] # "wait"
  <2>1. PICK res, seq, ind : res = "nxdomain" /\ seq = <<>> /\ ind = <<>>
    OBVIOUS
  <2>2. OutcomeIs(k, j, res, seq, ind)
    BY <1>1, <1>2, <2>1, OutcomeMakes, Zenon
  <2>3. ASSUME Clear(j.id) PROVE k # "qminmode"
    <3> SUFFICES ASSUME k = "qminmode" PROVE FALSE
      OBVIOUS
    <3>1. j.id.kind = "qminmode"
      BY <1>3, <1>4, OwnKind
    <3>2. DeniedOnce(j)
      BY <1>4, <2>3, <3>1 DEF Measured
    <3> QED
      BY <1>2, <3>1, <3>2 DEF DeniedOnce
  <2>4. Clear(j.id) => Told(k, b, res, seq, ind)
    BY <2>1, <2>3 DEF Told
  <2> QED
    BY <1>1, <1>2, <2>2, <2>4, OutcomeAnew
<1>7. \A s \in stray' : WellJob(s)' /\ Measured(s)'
  BY <1>2, <1>5, JobsOf
<1>8. \A i \in Kinds \ {k} : rpc[i] = "wait" => \A h \in {job[i]} : Measured(h)'
  BY <1>5, JobsOf
<1>9. Single'
  <2>1. ASSUME NEW s \in stray, s.id.kind = "qminmode", Clear(s.id)'
        PROVE  /\ rpc'["qminmode"] = "wait" => job'["qminmode"].id # s.id
               /\ \A t \in stray : t.id = s.id => t = s
    <3>1. Clear(s.id)
      BY <1>2, <2>1, ClearSame
    <3>2. /\ rpc["qminmode"] = "wait" => job["qminmode"].id # s.id
          /\ \A t \in stray : t.id = s.id => t = s
      BY <2>1, <3>1 DEF MeasInv, Single
    <3>3. rpc'["qminmode"] = "wait" => rpc["qminmode"] = "wait"
      <4>1. "qminmode" \in Kinds
        BY DEF Kinds
      <4> QED
        BY <1>6, <4>1 DEF Rests
    <3> QED
      BY <1>2, <3>2, <3>3
  <2> QED
    BY <1>2, <2>1, Zenon DEF Single
<1>10. DOMAIN job' = Kinds /\ (\A i \in M : Anew(i)') /\ (\A i \in Kinds \ M : Rests(i))
       /\ M \in SUBSET Kinds
  BY <1>1, <1>2, <1>3, <1>6
<1> QED
  BY <1>1, <1>3, <1>5, <1>7, <1>8, <1>9, <1>10, StepMeasures


-----------------------------------------------------------------------------
\* No other query asks for the same name of qminmode.
LEMMA NoTwin ==
    ASSUME Cfg \in Configs, MeasInv, NEW j, NEW k \in Kinds, rpc[k] = "wait", j = job[k]
    PROVE  /\ \A s \in stray : s.id.kind = "qminmode" /\ Clear(s.id) => s.id # j.id
           /\ \A i \in Kinds \ {k} : rpc[i] = "wait" =>
                 \A h \in {job[i]} : h.id.kind = "qminmode" => h.id # j.id
<1>1. WellInv
  BY DEF MeasInv
<1>2. PICK b : b = behaviour[k]
  OBVIOUS
<1>3. j.id.kind = "qminmode" <=> k = "qminmode"
  <2>1. OwnJob(j, k, b)
    BY <1>2, JobsOf
  <2> QED
    BY <1>1, <2>1, OwnKind
<1>4. ASSUME NEW s \in stray, s.id.kind = "qminmode", Clear(s.id) PROVE s.id # j.id
  <2>1. rpc["qminmode"] = "wait" => job["qminmode"].id # s.id
    BY <1>4 DEF MeasInv, Single
  <2>2. k = "qminmode" => job["qminmode"].id = j.id /\ rpc["qminmode"] = "wait"
    OBVIOUS
  <2> QED
    BY <1>3, <1>4, <2>1, <2>2
<1>5. ASSUME NEW i \in Kinds \ {k}, rpc[i] = "wait", NEW h \in {job[i]},
             h.id.kind = "qminmode"
      PROVE  h.id # j.id
  <2>1. PICK c : c = behaviour[i]
    OBVIOUS
  <2>2. OwnJob(h, i, c)
    BY <1>5, <2>1, JobsOf
  <2>3. i = "qminmode"
    BY <1>1, <1>5, <2>2, OwnKind
  <2> QED
    BY <1>3, <1>5, <2>3
<1> QED
  BY <1>4, <1>5

LEMMA ResolveMeasures ==
    ASSUME RowInv, MeasInv, NEW k \in Kinds, Resolve(k)
    PROVE  MeasInv'
<1>1. PICK j, q, r, b, M : /\ j = job[k] /\ b = behaviour[k] /\ M = {k}
                           /\ q = Next_query(j) /\ r = Reply(q)
  OBVIOUS
<1>2. /\ rpc[k] = "wait" /\ requestResponse(q) /\ denied' = Denied(j, q, r)
      /\ \/ Ends(j, q, r) /\ Outcome(k, Ending(r), r.seq, r.ind) /\ job' = job
         \/ /\ ~Ends(j, q, r) /\ job' = [job EXCEPT ![k] = Goes_on(j, q, r)]
            /\ rpc' = rpc /\ out' = out
      /\ stray' = stray /\ behaviour' = behaviour /\ Calm
  BY <1>1 DEF Resolve, Calm, idVars
<1>3. /\ Cfg \in Configs /\ WellInv /\ Disturbs /\ DOMAIN job = Kinds
      /\ DOMAIN out = Kinds /\ rpc \in [Kinds -> Stages] /\ b \in Behaviours
  BY <1>1, <1>2, CalmDisturbs DEF RowInv, Types, MeasInv, WellInv, JobsWell, BehavedTruly
<1>4. OwnJob(j, k, b) /\ WellJob(j) /\ Measured(j) /\ j.behaviour = b /\ Origin(j).kind = k
  BY <1>1, <1>2, JobsOf DEF OwnJob
<1>5. Request(j)
  BY <1>1, <1>2, <1>3, <1>4, Zenon DEF Request, MeasBase, MeasInv
<1>6. /\ DrawnWell' /\ KeysWell' /\ ProbesTruly' /\ ProbesMeasured'
  <2>1. DrawnWell'
    BY <1>2, <1>3, DrawnStays, CalmDisturbs DEF WellInv
  <2> QED
    BY <1>5, <2>1, ProbesStay
<1>7. \A s \in stray' : WellJob(s)' /\ Measured(s)'
  <2>1. ASSUME NEW s \in stray PROVE WellJob(s)' /\ Measured(s)'
    <3>1. WellJob(s) /\ Measured(s)
      BY JobsOf
    <3>2. s.id.kind = "qminmode" /\ Clear(s.id) => s.id # j.id
      BY <1>1, <1>2, <1>3, NoTwin
    <3>3. WellJob(s)'
      BY <1>3, <3>1, WellSame DEF Disturbs
    <3> QED
      BY <1>5, <3>1, <3>2, <3>3, OthersStay
  <2> QED
    BY <1>2, <2>1
<1>8. \A i \in Kinds \ {k} : rpc[i] = "wait" => \A h \in {job[i]} : Measured(h)'
  <2>1. ASSUME NEW i \in Kinds \ {k}, rpc[i] = "wait", NEW h \in {job[i]} PROVE Measured(h)'
    <3>1. WellJob(h) /\ Measured(h)
      BY <2>1, JobsOf
    <3>2. h.id.kind = "qminmode" /\ Clear(h.id) => h.id # j.id
      BY <1>1, <1>2, <1>3, <2>1, NoTwin
    <3> QED
      BY <1>5, <3>1, <3>2, OthersStay
  <2> QED
    BY <2>1
<1>9. CASE Ends(j, q, r) /\ Outcome(k, Ending(r), r.seq, r.ind) /\ job' = job
  <2>1. Anew(k)' /\ (\A i \in Kinds \ {k} : Rests(i)) /\ rpc'[k] # "wait"
    <3>1. PICK res, seq, ind : res = Ending(r) /\ seq = r.seq /\ ind = r.ind
      OBVIOUS
    <3>2. OutcomeIs(k, j, res, seq, ind)
      BY <1>1, <1>9, <3>1, OutcomeMakes, Zenon
    <3>3. k # "nxopti" /\ Clear(j.id) => Told(k, b, res, seq, ind)
      <4> SUFFICES ASSUME k # "nxopti", Clear(j.id) PROVE Told(k, b, res, seq, ind)
        OBVIOUS
      <4>1. j.id.kind # "nxopti"
        BY <1>3, <1>4, OwnKind
      <4>2. Told(Origin(j).kind, j.behaviour, Ending(r), r.seq, r.ind)
        BY <1>1, <1>5, <1>9, <4>1, Ended
      <4> QED
        BY <1>4, <3>1, <4>2
    <3> QED
      BY <1>1, <1>2, <1>9, <3>2, <3>3, OutcomeAnew
  <2>2. Single'
    <3>1. ASSUME NEW s \in stray, s.id.kind = "qminmode", Clear(s.id)'
          PROVE  /\ rpc'["qminmode"] = "wait" => job'["qminmode"].id # s.id
                 /\ \A t \in stray : t.id = s.id => t = s
      <4>1. Clear(s.id)
        BY <1>2, <3>1, ClearSame
      <4>2. /\ rpc["qminmode"] = "wait" => job["qminmode"].id # s.id
            /\ \A t \in stray : t.id = s.id => t = s
        BY <3>1, <4>1 DEF MeasInv, Single
      <4>3. rpc'["qminmode"] = "wait" => rpc["qminmode"] = "wait"
        <5>1. "qminmode" \in Kinds
          BY DEF Kinds
        <5> QED
          BY <2>1, <5>1 DEF Rests
      <4> QED
        BY <1>9, <4>2, <4>3
    <3> QED
      BY <1>2, <3>1, Zenon DEF Single
  <2>3. DOMAIN job' = Kinds /\ (\A i \in M : Anew(i)') /\ (\A i \in Kinds \ M : Rests(i))
        /\ M \in SUBSET Kinds
    BY <1>1, <1>2, <1>3, <1>9, <2>1
  <2> QED
    BY <1>1, <1>3, <1>6, <1>7, <1>8, <2>2, <2>3, StepMeasures
<1>10. CASE /\ ~Ends(j, q, r) /\ job' = [job EXCEPT ![k] = Goes_on(j, q, r)]
            /\ rpc' = rpc /\ out' = out
  <2>1. PICK g : g = Goes_on(j, q, r)
    OBVIOUS
  <2>2. WellOn(j, q, r, g) /\ WellJob(g)'
    BY <1>1, <1>5, <2>1, GoesOnWell, Zenon
  <2>3. Measured(g)'
    BY <1>1, <1>5, <1>10, <2>1, GoesOnMeasured, Zenon
  <2>4. /\ job'[k] = g /\ \A i \in Kinds \ {k} : Rests(i)
    BY <1>2, <1>3, <1>10, <2>1 DEF Rests
  <2>5. g.behaviour = b /\ Origin(g).kind = k
    BY <1>4, <2>2 DEF WellOn
  <2>6. OwnJob(g, k, b)'
    BY <2>2, <2>5 DEF OwnJob, Origin
  <2>7. Anew(k)'
    <3>1. rpc'[k] = "wait" /\ behaviour'[k] = b /\ ~Sent(k)'
      BY <1>1, <1>2, <1>10 DEF Sent
    <3> QED
      BY <1>3, <2>3, <2>4, <2>6, <3>1, Zenon DEF Anew
  <2>8. Single'
    <3>1. ASSUME NEW s \in stray, s.id.kind = "qminmode", Clear(s.id)'
          PROVE  /\ rpc'["qminmode"] = "wait" => job'["qminmode"].id # s.id
                 /\ \A t \in stray : t.id = s.id => t = s
      <4>1. Clear(s.id)
        BY <1>2, <3>1, ClearSame
      <4>2. /\ rpc["qminmode"] = "wait" => job["qminmode"].id # s.id
            /\ \A t \in stray : t.id = s.id => t = s
        BY <3>1, <4>1 DEF MeasInv, Single
      <4>3. s.id # j.id
        BY <1>1, <1>2, <1>3, <3>1, <4>1, NoTwin
      <4>4. g.id.kind = "plain" \/ g.id = j.id
        BY <2>2 DEF WellOn
      <4>5. g.id # s.id
        BY <3>1, <4>3, <4>4
      <4>6. CASE k = "qminmode"
        BY <2>4, <4>2, <4>5, <4>6
      <4>7. CASE k # "qminmode"
        <5>1. "qminmode" \in Kinds
          BY DEF Kinds
        <5>2. rpc'["qminmode"] = rpc["qminmode"] /\ job'["qminmode"] = job["qminmode"]
          BY <2>4, <4>7, <5>1 DEF Rests
        <5> QED
          BY <4>2, <5>2
      <4> QED
        BY <4>6, <4>7
    <3> QED
      BY <1>2, <3>1, Zenon DEF Single
  <2>9. DOMAIN job' = Kinds /\ (\A i \in M : Anew(i)') /\ (\A i \in Kinds \ M : Rests(i))
        /\ M \in SUBSET Kinds
    BY <1>1, <1>3, <1>10, <2>4, <2>7
  <2> QED
    BY <1>1, <1>3, <1>6, <1>7, <1>8, <2>8, <2>9, StepMeasures
<1> QED
  BY <1>2, <1>9, <1>10

LEMMA StrayMeasures ==
    ASSUME RowInv, MeasInv, NEW j \in stray, Resolve_stray(j)
    PROVE  MeasInv'
<1>1. PICK q, r, g, M : /\ q = Next_query(j) /\ r = Reply(q) /\ g = Goes_on(j, q, r)
                        /\ M = {i \in Kinds : FALSE}
  OBVIOUS
<1>2. /\ requestResponse(q) /\ denied' = Denied(j, q, r)
      /\ stray' = IF Ends(j, q, r) THEN stray \ {j} ELSE (stray \ {j}) \cup {g}
      /\ UNCHANGED <<rpc, job, out, behaviour>> /\ Calm
  BY <1>1 DEF Resolve_stray, Calm, idVars, routineVars
<1>3. /\ Cfg \in Configs /\ WellInv /\ Disturbs /\ DOMAIN job = Kinds
  BY <1>2, CalmDisturbs DEF RowInv, Types, MeasInv, WellInv, JobsWell
<1>4. WellJob(j) /\ Measured(j)
  BY JobsOf
<1>5. Request(j)
  BY <1>1, <1>2, <1>3, <1>4, Zenon DEF Request, MeasBase, MeasInv
<1>6. /\ DrawnWell' /\ KeysWell' /\ ProbesTruly' /\ ProbesMeasured'
  <2>1. DrawnWell'
    BY <1>2, <1>3, DrawnStays, CalmDisturbs DEF WellInv
  <2> QED
    BY <1>5, <2>1, ProbesStay
\* Nobody else asks for this name of qminmode.
<1>7. ASSUME j.id.kind = "qminmode", Clear(j.id)
      PROVE  /\ rpc["qminmode"] = "wait" => job["qminmode"].id # j.id
             /\ \A t \in stray : t.id = j.id => t = j
  BY <1>7 DEF MeasInv, Single
<1>8. ASSUME NEW s \in stray, s # j PROVE WellJob(s)' /\ Measured(s)'
  <2>1. WellJob(s) /\ Measured(s)
    BY JobsOf
  <2>2. s.id.kind = "qminmode" /\ Clear(s.id) => s.id # j.id
    BY <1>7, <1>8
  <2>3. WellJob(s)'
    BY <1>3, <2>1, WellSame DEF Disturbs
  <2> QED
    BY <1>5, <2>1, <2>2, <2>3, OthersStay
<1>9. ASSUME NEW i \in Kinds, rpc[i] = "wait", NEW h \in {job[i]} PROVE Measured(h)'
  <2>1. PICK c : c = behaviour[i]
    OBVIOUS
  <2>2. WellJob(h) /\ Measured(h) /\ OwnJob(h, i, c)
    BY <1>9, <2>1, JobsOf
  <2>3. h.id.kind = "qminmode" => i = "qminmode"
    BY <1>3, <2>2, OwnKind
  <2>4. h.id.kind = "qminmode" /\ Clear(h.id) => h.id # j.id
    BY <1>7, <1>9, <2>3
  <2> QED
    BY <1>5, <2>2, <2>4, OthersStay
<1>10. ~Ends(j, q, r) => /\ WellOn(j, q, r, g) /\ WellJob(g)' /\ Measured(g)'
                         /\ g.id.kind = "qminmode" => g.id = j.id
  <2> SUFFICES ASSUME ~Ends(j, q, r)
               PROVE  /\ WellOn(j, q, r, g) /\ WellJob(g)' /\ Measured(g)'
                      /\ g.id.kind = "qminmode" => g.id = j.id
    OBVIOUS
  <2>1. WellOn(j, q, r, g) /\ WellJob(g)'
    BY <1>1, <1>5, GoesOnWell, Zenon
  <2>2. Measured(g)'
    BY <1>1, <1>5, GoesOnMeasured, Zenon
  <2>3. g.id.kind = "qminmode" => g.id = j.id
    BY <2>1 DEF WellOn
  <2> QED
    BY <2>1, <2>2, <2>3
<1>11. \A s \in stray' : (s \in stray /\ s # j) \/ (s = g /\ ~Ends(j, q, r))
  BY <1>2
<1>12. \A s \in stray' : WellJob(s)' /\ Measured(s)'
  BY <1>8, <1>10, <1>11
<1>13. Single'
  <2>1. ASSUME NEW s \in stray', s.id.kind = "qminmode", Clear(s.id)'
        PROVE  /\ rpc'["qminmode"] = "wait" => job'["qminmode"].id # s.id
               /\ \A t \in stray' : t.id = s.id => t = s
    <3>1. Clear(s.id)
      BY <1>2, <2>1, ClearSame
    <3>2. CASE s \in stray /\ s # j
      <4>1. /\ rpc["qminmode"] = "wait" => job["qminmode"].id # s.id
            /\ \A t \in stray : t.id = s.id => t = s
        BY <2>1, <3>1, <3>2 DEF MeasInv, Single
      <4>2. ASSUME NEW t \in stray', t.id = s.id PROVE t = s
        <5>1. CASE t \in stray
          BY <4>1, <4>2, <5>1
        <5>2. CASE t = g /\ ~Ends(j, q, r)
          <6>1. s.id = j.id
            BY <1>10, <2>1, <4>2, <5>2
          <6> QED
            BY <3>2, <4>1, <6>1
        <5> QED
          BY <1>11, <5>1, <5>2
      <4> QED
        BY <1>2, <4>1, <4>2
    <3>3. CASE s = g /\ ~Ends(j, q, r)
      <4>1. s.id = j.id
        BY <1>10, <2>1, <3>3
      <4>2. /\ rpc["qminmode"] = "wait" => job["qminmode"].id # s.id
            /\ \A t \in stray : t.id = s.id => t = j
        BY <1>7, <2>1, <3>1, <4>1
      <4>3. \A t \in stray' : t.id = s.id => t = s
        BY <1>11, <3>3, <4>2
      <4> QED
        BY <1>2, <4>2, <4>3
    <3> QED
      BY <1>11, <3>2, <3>3
  <2> QED
    BY <2>1, Zenon DEF Single
<1>14. DOMAIN job' = Kinds /\ (\A i \in M : Anew(i)') /\ (\A i \in Kinds \ M : Rests(i))
       /\ M \in SUBSET Kinds
       /\ \A i \in Kinds \ M : rpc[i] = "wait" => \A h \in {job[i]} : Measured(h)'
  BY <1>1, <1>2, <1>3, <1>9 DEF Rests
<1> QED
  BY <1>3, <1>6, <1>12, <1>13, <1>14, StepMeasures


-----------------------------------------------------------------------------
LEMMA SingleStays ==
    ASSUME MeasInv, Disturbs, stray' = stray,
           rpc'["qminmode"] = "wait" =>
              rpc["qminmode"] = "wait" /\ job'["qminmode"] = job["qminmode"]
    PROVE  Single'
<1>1. ASSUME NEW s \in stray, s.id.kind = "qminmode", Clear(s.id)'
      PROVE  /\ rpc'["qminmode"] = "wait" => job'["qminmode"].id # s.id
             /\ \A t \in stray : t.id = s.id => t = s
  <2>1. PICK id : id = s.id
    OBVIOUS
  <2>2. Clear(id)
    BY <1>1, <2>1, ClearBefore
  <2>3. /\ rpc["qminmode"] = "wait" => job["qminmode"].id # s.id
        /\ \A t \in stray : t.id = s.id => t = s
    BY <1>1, <2>1, <2>2 DEF MeasInv, Single
  <2> QED
    BY <2>3
<1> QED
  BY <1>1, Zenon DEF Single

\* A step of goroutines that has nothing to do with the name server.
LEMMA QuietMeasures ==
    ASSUME RowInv, MeasInv, Quiet, stray' = stray, NEW M \in SUBSET Kinds,
           \A i \in Kinds \ M : Rests(i), \A i \in M : Anew(i)', DOMAIN job' = Kinds,
           rpc'["qminmode"] = "wait" => "qminmode" \notin M
    PROVE  MeasInv'
<1>1. Cfg \in Configs /\ Disturbs
  BY CalmDisturbs DEF RowInv, Types, Quiet
<1>2. /\ DrawnWell' /\ KeysWell' /\ ProbesTruly' /\ ProbesMeasured'
      /\ \A h : WellJob(h) /\ Measured(h) => WellJob(h)' /\ Measured(h)'
  BY <1>1, QuietStays
<1>3. Single'
  <2>1. "qminmode" \in Kinds
    BY DEF Kinds
  <2> QED
    BY <1>1, <2>1, SingleStays DEF Rests
<1>4. \A s \in stray' : WellJob(s)' /\ Measured(s)'
  BY <1>2, JobsOf
<1>5. \A i \in Kinds \ M : rpc[i] = "wait" => \A h \in {job[i]} : Measured(h)'
  BY <1>2, JobsOf
<1> QED
  BY <1>1, <1>2, <1>3, <1>4, <1>5, StepMeasures

\* A row is collected: it says what it said.
LEMMA CollectMeasures ==
    ASSUME RowInv, MeasInv, NEW k \in Kinds, Collect(k)
    PROVE  MeasInv'
<1>1. PICK row, b, M : row = out[k] /\ b = behaviour[k] /\ M = {k}
  OBVIOUS
<1>2. /\ rpc[k] = "send" /\ rpc' = [rpc EXCEPT ![k] = "done"] /\ out' = out
      /\ stray' = stray /\ job' = job /\ behaviour' = behaviour /\ Quiet /\ Calm
  BY DEF Collect, Quiet, Calm, resolverVars, idVars
<1>3. /\ Disturbs /\ rpc \in [Kinds -> Stages] /\ DOMAIN job = Kinds /\ b \in Behaviours
  BY <1>1, <1>2, CalmDisturbs
     DEF RowInv, Types, MeasInv, WellInv, JobsWell, BehavedTruly
<1>4. RowTrue(row, k, b)
  BY <1>1, <1>2 DEF MeasInv, RowsMeasured, Sent
<1>5. RowTrue(row, k, b)'
  BY <1>3, <1>4, RowStays
<1>6. /\ rpc'[k] = "done" /\ out'[k] = row /\ behaviour'[k] = b
      /\ \A i \in Kinds \ {k} : Rests(i)
  BY <1>1, <1>2, <1>3 DEF Rests
<1>7. rpc'[k] # "wait" /\ ~Asking(k)'
  BY <1>6 DEF Asking
<1>8. Anew(k)'
  BY <1>3, <1>5, <1>6, <1>7, Zenon DEF Anew
<1>9. /\ M \in SUBSET Kinds /\ (\A i \in Kinds \ M : Rests(i)) /\ (\A i \in M : Anew(i)')
      /\ DOMAIN job' = Kinds /\ (rpc'["qminmode"] = "wait" => "qminmode" \notin M)
  BY <1>1, <1>2, <1>3, <1>6, <1>7, <1>8
<1> QED
  BY <1>2, <1>9, QuietMeasures

\* A round begins without queries; what is left of the last is nobody's.
LEMMA RoundMeasures == ASSUME RowInv, MeasInv, Start_round PROVE MeasInv'
<1>1. /\ stray' = stray /\ job' = [k \in Kinds |-> NULL]
      /\ rpc' = [k \in Kinds |-> IF k \in Cfg.kinds THEN "ask" ELSE "off"]
      /\ behaviour' \in [Kinds -> Cfg.behaviours \cup {NULL}]
      /\ \A k \in Kinds : behaviour'[k] = NULL <=> k \notin Cfg.kinds
      /\ Quiet
  BY DEF Start_round, Quiet, Calm, idVars
<1>2. Cfg.behaviours \subseteq Behaviours
  BY ConfigAssumption DEF RowInv, Types
<1>3. ASSUME NEW k \in Kinds PROVE Anew(k)'
  <2>1. rpc'[k] # "wait" /\ ~Asking(k)' /\ ~Sent(k)'
    BY <1>1 DEF Asking, Sent
  <2>2. rpc'[k] # "off" => behaviour'[k] \in Behaviours
    BY <1>1, <1>2
  <2> QED
    BY <2>1, <2>2, Zenon DEF Anew
<1>4. rpc'["qminmode"] # "wait"
  <2>1. "qminmode" \in Kinds
    BY DEF Kinds
  <2> QED
    BY <1>1, <2>1
<1>5. PICK M : M = Kinds
  OBVIOUS
<1>6. /\ M \in SUBSET Kinds /\ (\A i \in Kinds \ M : Rests(i)) /\ (\A i \in M : Anew(i)')
      /\ DOMAIN job' = Kinds
  BY <1>1, <1>3, <1>5
<1> QED
  BY <1>1, <1>4, <1>6, QuietMeasures

\* nxopti asks on under its id.
LEMMA SameMeasures ==
    ASSUME RowInv, MeasInv, NEW k \in Kinds, Query_same(k)
    PROVE  MeasInv'
<1>1. PICK j, b, top, new, M :
         /\ j = job[k] /\ b = behaviour[k] /\ M = {k}
         /\ top = (IF rpc[k] = "ask_b" THEN "b" ELSE job[k].top)
         /\ new = [id |-> j.id, top |-> top, at |-> 0, target |-> FALSE,
                   full |-> FALSE, behaviour |-> b]
  OBVIOUS
<1>2. /\ k = "nxopti" /\ rpc[k] \in {"ask", "ask_b"} /\ j # NULL
      /\ job' = [job EXCEPT ![k] = new] /\ rpc' = [rpc EXCEPT ![k] = "wait"]
      /\ stray' = stray /\ out' = out /\ behaviour' = behaviour /\ Quiet
  <2>1. Query_at(k, job[k].id, IF rpc[k] = "ask_b" THEN "b" ELSE job[k].top)
    BY Zenon DEF Query_same
  <2>2. Query_at(k, j.id, top)
    BY <1>1, <2>1, Zenon
  <2>3. job' = [job EXCEPT ![k] = new]
    BY <1>1, <2>2, Zenon DEF Query_at
  <2>4. /\ k = "nxopti" /\ rpc[k] \in {"ask", "ask_b"} /\ job[k] # NULL
        /\ rpc' = [rpc EXCEPT ![k] = "wait"] /\ Quiet
        /\ stray' = stray /\ out' = out /\ behaviour' = behaviour
    BY DEF Query_same, Quiet, Calm, idVars
  <2> QED
    BY <1>1, <2>3, <2>4
<1>3. /\ Cfg \in Configs /\ WellInv /\ rpc \in [Kinds -> Stages] /\ DOMAIN job = Kinds
      /\ b \in Behaviours
  BY <1>1, <1>2 DEF RowInv, Types, MeasInv, WellInv, JobsWell, BehavedTruly
<1>4. OwnJob(j, k, b)
  <2>1. Asking(k)
    BY <1>1, <1>2 DEF Asking
  <2> QED
    BY <1>1, <1>3, <2>1 DEF WellInv, JobsWell
<1>5. /\ WellJob(j) /\ j.id.kind = "nxopti" /\ Origin(j) = j.id
      /\ j.behaviour = b /\ Origin(j).kind = k
  BY <1>2, <1>3, <1>4, OwnKind DEF OwnJob
<1>6. PICK kind, nonce, depth : j.id = [kind |-> kind, nonce |-> nonce, depth |-> depth]
  <2>1. PICK kind, nonce, depth, t, at, target, full, c :
           j = [id |-> [kind |-> kind, nonce |-> nonce, depth |-> depth], top |-> t,
                at |-> at, target |-> target, full |-> full, behaviour |-> c]
    BY <1>5, Zenon DEF WellJob, IsJob
  <2>2. j.id = [kind |-> kind, nonce |-> nonce, depth |-> depth]
    BY <2>1
  <2> QED
    BY <2>2
<1>7. /\ new.id = j.id /\ new.target = FALSE /\ new.behaviour = b /\ IsJob(new)
      /\ Origin(new) = j.id
  <2>1. new = [id |-> [kind |-> kind, nonce |-> nonce, depth |-> depth], top |-> top,
               at |-> 0, target |-> FALSE, full |-> FALSE, behaviour |-> b]
    BY <1>1, <1>6
  <2>2. IsJob(new)
    BY <2>1, Zenon DEF IsJob
  <2>3. new.target = FALSE /\ new.id = j.id /\ new.behaviour = b
    BY <1>1
  <2> QED
    BY <2>2, <2>3 DEF Origin
<1>8. OwnJob(new, k, b) /\ Measured(new)
  <2>1. <<Origin(new), new.behaviour>> \in drawn
    BY <1>5, <1>7 DEF WellJob
  <2>2. WellJob(new)
    BY <1>7, <2>1 DEF WellJob
  <2>3. OwnJob(new, k, b)
    BY <1>5, <1>7, <2>2 DEF OwnJob
  <2>4. Measured(new)
    BY <1>5, <1>7 DEF Measured
  <2> QED
    BY <2>3, <2>4
<1>9. OwnJob(new, k, b)' /\ Measured(new)'
  <2>1. Calm /\ Disturbs
    BY <1>2, CalmDisturbs DEF Quiet
  <2>2. OwnJob(new, k, b)'
    BY <1>8, <2>1, OwnStays
  <2>3. WellJob(new)
    BY <1>8 DEF OwnJob
  <2> QED
    BY <1>2, <1>3, <1>8, <2>2, <2>3, QuietStays
<1>10. /\ rpc'[k] = "wait" /\ ~Sent(k)' /\ job'[k] = new /\ behaviour'[k] = b
       /\ DOMAIN job' = Kinds /\ \A i \in Kinds \ {k} : Rests(i)
  BY <1>1, <1>2, <1>3 DEF Sent, Rests
<1>11. Anew(k)'
  BY <1>3, <1>9, <1>10, Zenon DEF Anew
<1>12. /\ M \in SUBSET Kinds /\ (\A i \in Kinds \ M : Rests(i)) /\ (\A i \in M : Anew(i)')
       /\ DOMAIN job' = Kinds /\ "qminmode" \notin M
  BY <1>1, <1>2, <1>10, <1>11
<1> QED
  BY <1>2, <1>12, QuietMeasures


-----------------------------------------------------------------------------
\* A probe is deleted: the queries that used it are disturbed.
LEMMA AgeMeasures == ASSUME RowInv, MeasInv, Age PROVE MeasInv'
<1>1. PICK old, M : /\ cleanProbes(old) /\ aged' = aged \cup old
                    /\ M = {i \in Kinds : FALSE}
  BY DEF Age
<1>2. /\ UNCHANGED <<Cfg, rpc, job, out, behaviour, stray, denied, drawn, repeated>>
      /\ Ids' = Ids
  BY DEF Age, routineVars, resolverVars, idVars, Ids
<1>3. /\ Cfg \in Configs /\ WellInv /\ Disturbs /\ DOMAIN job = Kinds /\ ProbesMeasured
      /\ KeysWell /\ ProbesTruly
  BY <1>1, <1>2 DEF RowInv, Types, MeasInv, WellInv, JobsWell, Disturbs
<1>4. /\ \A key \in DOMAIN probes' : key \in DOMAIN probes /\ probes'[key] = probes[key]
      /\ \A key \in DOMAIN probes : key \in DOMAIN probes' \/ key \in aged'
  BY <1>1 DEF cleanProbes
<1>5. DrawnWell'
  BY <1>2, <1>3, DrawnStays DEF WellInv
<1>6. KeysWell'
  <2>1. \A id : Rooted(id)' <=> Rooted(id)
    BY <1>2 DEF Rooted
  <2> QED
    BY <1>2, <1>3, <1>4, <2>1 DEF KeysWell, Rooted
<1>7. ProbesTruly'
  BY <1>1, <1>3, AgeKeeps
<1>8. ProbesMeasured'
  <2>1. ASSUME NEW key \in DOMAIN probes', Clear(key)' PROVE key \in Ids'
    <3>1. Clear(key)
      BY <1>3, <2>1, ClearBefore
    <3> QED
      BY <1>2, <1>3, <1>4, <2>1, <3>1 DEF ProbesMeasured
  <2>2. ASSUME NEW x \in drawn, x[1] \in DOMAIN probes', Clear(x[1])', x[1].kind # "nxopti"
        PROVE  Collects(probes[x[1]], x[1], x[2])'
    <3>1. PICK id, b, p : id = x[1] /\ b = x[2] /\ p = probes[id]
      OBVIOUS
    <3>2. Clear(id)
      BY <1>3, <2>2, <3>1, ClearBefore
    <3>3. id \in DOMAIN probes /\ probes'[id] = p
      BY <1>4, <2>2, <3>1
    <3>4. Collects(p, id, b)
      BY <1>3, <2>2, <3>1, <3>2, <3>3, Zenon DEF ProbesMeasured
    <3>5. Collects(p, id, b)'
      BY <1>2, <3>4, CollectsSame
    <3> QED
      BY <3>1, <3>3, <3>5, Zenon DEF Collects
  <2> QED
    BY <1>2, <2>1, <2>2, Zenon DEF ProbesMeasured
<1>9. ASSUME NEW h, WellJob(h), Measured(h) PROVE WellJob(h)' /\ Measured(h)'
  <2>1. WellJob(h)'
    BY <1>2, <1>9, WellSame
  <2>2. PICK key, id : key = Origin(h) /\ id = h.id
    OBVIOUS
  <2>3. h.behaviour \in Behaviours /\ key.nonce = id.nonce
    BY <1>3, <1>9, <2>2, JobIs DEF WellInv
  <2>4. Clear(id)' => Clear(id)
    BY <1>3, ClearBefore
  <2>5. Clear(id)' => key \notin aged'
    BY <2>3 DEF Clear, Disturbed
  <2>6. Clear(id)' /\ key \in DOMAIN probes =>
           key \in DOMAIN probes' /\ Further(probes'[key], probes[key])
    BY <1>4, <2>5 DEF Further
  <2>7. /\ h.id \notin DOMAIN probes => h.id \notin DOMAIN probes'
        /\ \A d \in denied' : d \in denied \/ d[1] # h.id
    BY <1>2, <1>4
  <2>8. Measured(h)'
    BY <1>2, <1>3, <1>9, <2>2, <2>3, <2>4, <2>6, <2>7, StillMeasured
  <2> QED
    BY <2>1, <2>8
<1>10. Single'
  BY <1>2, <1>3, SingleStays
<1>11. \A s \in stray' : WellJob(s)' /\ Measured(s)'
  BY <1>2, <1>9, JobsOf
<1>12. \A i \in Kinds \ M : rpc[i] = "wait" => \A h \in {job[i]} : Measured(h)'
  BY <1>9, JobsOf
<1>13. /\ M \in SUBSET Kinds /\ (\A i \in Kinds \ M : Rests(i)) /\ (\A i \in M : Anew(i)')
       /\ DOMAIN job' = Kinds
  BY <1>1, <1>2, <1>3 DEF Rests
<1> QED
  BY <1>3, <1>5, <1>6, <1>7, <1>8, <1>10, <1>11, <1>12, <1>13, StepMeasures

\* An id is drawn, for the server behind the address.
Draws(id, b) ==
    /\ UNCHANGED <<Cfg, aged, probes, denied>> /\ drawn' = drawn \cup {<<id, b>>}
    /\ repeated' = repeated \cup (Ids \cap {id})

LEMMA DrawsStays ==
    ASSUME Cfg \in Configs, MeasInv, NEW k \in Kinds, NEW n, NEW b \in Behaviours,
           NEW id, id = domainAssembly(k, n), Draws(id, b)
    PROVE  /\ Disturbs /\ DrawnWell' /\ KeysWell' /\ ProbesTruly' /\ ProbesMeasured'
           /\ \A h : WellJob(h) /\ Measured(h) => WellJob(h)' /\ Measured(h)'
<1>1. /\ WellInv /\ DrawnWell /\ KeysWell /\ ProbesTruly /\ ProbesMeasured
      /\ Cfg' = Cfg /\ probes' = probes /\ denied' = denied /\ drawn \subseteq drawn'
      /\ \A x \in drawn' : x \in drawn \/ x = <<id, b>>
  BY DEF MeasInv, WellInv, Draws
<1>2. Disturbs
  BY DEF Draws, Disturbs
<1>3. Ids \subseteq Ids'
  BY <1>1 DEF Ids
<1>4. DrawnWell'
  <2>1. ASSUME NEW x \in drawn'
        PROVE  \E kind \in Kinds, c \in Behaviours, nonce \in {x[1].nonce} :
                  x = <<domainAssembly(kind, nonce), c>>
    <3>1. CASE x \in drawn
      BY <1>1, <3>1 DEF DrawnWell
    <3>2. CASE x = <<id, b>>
      <4>1. x = <<domainAssembly(k, n), b>> /\ n = x[1].nonce
        BY <3>2 DEF domainAssembly
      <4> QED
        BY <4>1
    <3> QED
      BY <1>1, <3>1, <3>2
  <2>2. \A kind, nonce : domainAssembly(kind, nonce)' = domainAssembly(kind, nonce)
    BY <1>1 DEF domainAssembly
  <2> QED
    BY <2>1, <2>2, Zenon DEF DrawnWell
<1>5. KeysWell'
  <2>1. \A i : Rooted(i) => Rooted(i)'
    BY <1>3 DEF Rooted
  <2> QED
    BY <1>1, <2>1 DEF KeysWell, Rooted
<1>6. ProbesTruly'
  BY <1>1 DEF ProbesTruly, IsProbe
<1>7. ProbesMeasured'
  <2>1. ASSUME NEW key \in DOMAIN probes, Clear(key)' PROVE key \in Ids /\ key \in Ids'
    <3>1. Clear(key)
      BY <1>2, <2>1, ClearBefore
    <3> QED
      BY <1>1, <1>3, <2>1, <3>1 DEF ProbesMeasured
  <2>2. ASSUME NEW x \in drawn', x[1] \in DOMAIN probes, Clear(x[1])', x[1].kind # "nxopti"
        PROVE  Collects(probes[x[1]], x[1], x[2])'
    <3>1. PICK i, c, p : i = x[1] /\ c = x[2] /\ p = probes[i]
      OBVIOUS
    <3>2. Clear(i) /\ i \in Ids
      BY <1>2, <2>1, <2>2, <3>1, ClearBefore
    <3>3. PICK y \in drawn : y[1] = i
      BY <3>2 DEF Ids
    <3>4. y[2] = c
      <4>1. y \in drawn' /\ y[1] = x[1] /\ x[1].nonce = i.nonce
        BY <1>1, <3>1, <3>3
      <4>2. ~Two_servers(i)'
        BY <2>2, <3>1, Zenon DEF Clear, Disturbed
      <4> QED
        BY <3>1, <4>1, <4>2 DEF Two_servers
    <3>5. Collects(p, i, c)
      BY <1>1, <2>2, <3>1, <3>2, <3>3, <3>4, Zenon DEF ProbesMeasured
    <3>6. Collects(p, i, c)'
      BY <1>1, <3>5, CollectsSame
    <3> QED
      BY <1>1, <3>1, <3>6, Zenon DEF Collects
  <2> QED
    BY <1>1, <2>1, <2>2, Zenon DEF ProbesMeasured
<1>8. ASSUME NEW h, WellJob(h), Measured(h) PROVE WellJob(h)' /\ Measured(h)'
  <2>1. WellJob(h)'
    BY <1>1, <1>8, WellSame
  <2>2. PICK key, i : key = Origin(h) /\ i = h.id
    OBVIOUS
  <2>3. h.behaviour \in Behaviours
    BY <1>1, <1>8, JobIs
  <2>4. Clear(i)' => Clear(i)
    BY <1>2, ClearBefore
  <2>5. key \in DOMAIN probes => key \in DOMAIN probes' /\ Further(probes'[key], probes[key])
    BY <1>1 DEF Further
  <2>6. Measured(h)'
    BY <1>1, <1>8, <2>2, <2>3, <2>4, <2>5, StillMeasured
  <2> QED
    BY <2>1, <2>6
<1> QED
  BY <1>2, <1>4, <1>5, <1>6, <1>7, <1>8


-----------------------------------------------------------------------------
\* A query under an id that was not disturbed begins with a probe of its own.
LEMMA FirstMeasured ==
    ASSUME Cfg \in Configs, MeasInv, NEW k \in Kinds, NEW n, NEW b \in Behaviours,
           NEW id, id = domainAssembly(k, n), Draws(id, b),
           NEW new, new = [id |-> id, top |-> "a", at |-> 0, target |-> FALSE,
                           full |-> FALSE, behaviour |-> b]
    PROVE  OwnJob(new, k, b)' /\ Measured(new)' /\ new.id = id /\ id.kind = k
<1>1. /\ new.id = id /\ new.target = FALSE /\ new.at = 0 /\ new.full = FALSE
      /\ new.behaviour = b /\ id.kind = k
  BY DEF domainAssembly
<1>2. PICK depth : id = [kind |-> k, nonce |-> n, depth |-> depth]
  BY DEF domainAssembly
<1>3. IsJob(new)'
  <2>1. new = [id |-> [kind |-> k, nonce |-> n, depth |-> depth], top |-> "a",
               at |-> 0, target |-> FALSE, full |-> FALSE, behaviour |-> b]
    BY <1>2
  <2> QED
    BY <2>1, Zenon DEF IsJob
<1>4. Origin(new) = id /\ Origin(new)' = id
  BY <1>1 DEF Origin
<1>5. OwnJob(new, k, b)'
  <2>1. <<id, b>> \in drawn'
    BY DEF Draws
  <2> QED
    BY <1>1, <1>3, <1>4, <2>1 DEF OwnJob, WellJob
<1>6. ASSUME Clear(id)', k # "nxopti"
      PROVE  OnWay(new)' /\ Reached(new)' /\ DeniedOnce(new)'
  <2>1. PICK N, D : N = NamesOf(k, FALSE, b) /\ D = Cfg.depth
    OBVIOUS
  <2>2. NamesOf(k, FALSE, b)' = N /\ Cfg'.depth = D
    BY <2>1, NamesSame DEF Draws
  <2>3. Naming(D, N)
    BY <2>1, NamesOfNaming
  <2>4. D \in Nat /\ D > 0 /\ D \in N
    BY <2>3 DEF Naming
  <2>5. OnWay(new)'
    <3>1. \E m \in N : m > new.at
      BY <1>1, <2>4
    <3>2. new.at \in {0} \cup N /\ new.at <= D
      BY <1>1, <2>4
    <3>3. ~(new.at > 0)
      BY <1>1
    <3>4. NamesOf(new.id.kind, new.target, new.behaviour)' = N
      BY <1>1, <2>2, Zenon
    <3> QED
      BY <1>1, <2>2, <3>1, <3>2, <3>3, <3>4, Zenon DEF OnWay
  <2>6. Reached(new)'
    BY <1>1 DEF Reached
  <2>7. DeniedOnce(new)'
    <3>1. ASSUME k = "qminmode" PROVE id \notin DOMAIN probes /\ \A d \in denied : d[1] # id
      <4>1. id \notin repeated'
        BY <1>1, <1>6, <3>1 DEF Clear, Disturbed
      <4>2. id \notin Ids
        BY <4>1 DEF Draws
      <4>3. ~Rooted(id)
        BY <1>1, <3>1, <4>2 DEF Rooted
      <4> QED
        BY <4>3 DEF MeasInv, WellInv, KeysWell
    <3>2. probes' = probes /\ denied' = denied
      BY DEF Draws
    <3> QED
      BY <1>1, <3>1, <3>2 DEF DeniedOnce
  <2> QED
    BY <2>5, <2>6, <2>7
<1>7. Measured(new)'
  BY <1>1, <1>6 DEF Measured
<1> QED
  BY <1>1, <1>5, <1>7

LEMMA NewMeasures ==
    ASSUME RowInv, MeasInv, NEW k \in Kinds, Query_new(k)
    PROVE  MeasInv'
<1>1. PICK b, M : b = behaviour[k] /\ M = {k}
  OBVIOUS
<1>2. PICK n : /\ drawn' = drawn \cup {<<domainAssembly(k, n), behaviour[k]>>}
               /\ repeated' = repeated \cup (Ids \cap {domainAssembly(k, n)})
               /\ Query_at(k, domainAssembly(k, n), "a")
  BY Zenon DEF Query_new
<1>3. PICK id, new : /\ id = domainAssembly(k, n)
                     /\ new = [id |-> id, top |-> "a", at |-> 0, target |-> FALSE,
                               full |-> FALSE, behaviour |-> b]
  OBVIOUS
<1>4. /\ rpc[k] = "ask" /\ rpc' = [rpc EXCEPT ![k] = "wait"] /\ stray' = stray
      /\ out' = out /\ behaviour' = behaviour /\ UNCHANGED <<Cfg, aged, probes, denied>>
  BY DEF Query_new
<1>5. job' = [job EXCEPT ![k] = new]
  <2>1. Query_at(k, id, "a")
    BY <1>2, <1>3, Zenon
  <2> QED
    BY <1>1, <1>3, <2>1, Zenon DEF Query_at
<1>6. Draws(id, b)
  BY <1>1, <1>2, <1>3, <1>4, Zenon DEF Draws
<1>7. /\ Cfg \in Configs /\ WellInv /\ rpc \in [Kinds -> Stages] /\ DOMAIN job = Kinds
      /\ b \in Behaviours
  BY <1>1, <1>4 DEF RowInv, Types, MeasInv, WellInv, JobsWell, BehavedTruly
<1>8. /\ Disturbs /\ DrawnWell' /\ KeysWell' /\ ProbesTruly' /\ ProbesMeasured'
      /\ \A h : WellJob(h) /\ Measured(h) => WellJob(h)' /\ Measured(h)'
  BY <1>3, <1>6, <1>7, DrawsStays
<1>9. OwnJob(new, k, b)' /\ Measured(new)' /\ new.id = id /\ id.kind = k
  BY <1>3, <1>6, <1>7, FirstMeasured
<1>10. /\ rpc'[k] = "wait" /\ ~Sent(k)' /\ job'[k] = new /\ behaviour'[k] = b
       /\ DOMAIN job' = Kinds /\ \A i \in Kinds \ {k} : Rests(i)
  BY <1>1, <1>4, <1>5, <1>7 DEF Sent, Rests
<1>11. Anew(k)'
  BY <1>7, <1>9, <1>10, Zenon DEF Anew
<1>12. Single'
  <2>1. ASSUME NEW s \in stray, s.id.kind = "qminmode", Clear(s.id)'
        PROVE  /\ rpc'["qminmode"] = "wait" => job'["qminmode"].id # s.id
               /\ \A t \in stray : t.id = s.id => t = s
    <3>1. PICK sid : sid = s.id
      OBVIOUS
    <3>2. Clear(sid)
      BY <1>8, <2>1, <3>1, ClearBefore
    <3>3. /\ rpc["qminmode"] = "wait" => job["qminmode"].id # sid
          /\ \A t \in stray : t.id = sid => t = s
      BY <2>1, <3>1, <3>2 DEF MeasInv, Single
    <3>4. CASE k = "qminmode"
      <4>1. WellJob(s)
        BY JobsOf
      <4>2. sid \in Ids
        BY <1>7, <2>1, <3>1, <4>1, JobIs DEF WellInv
      <4>3. sid \notin repeated'
        BY <2>1, <3>1 DEF Clear, Disturbed
      <4>4. id # sid
        BY <1>6, <4>2, <4>3 DEF Draws
      <4> QED
        BY <1>9, <1>10, <3>1, <3>3, <3>4, <4>4
    <3>5. CASE k # "qminmode"
      <4>1. "qminmode" \in Kinds
        BY DEF Kinds
      <4>2. rpc'["qminmode"] = rpc["qminmode"] /\ job'["qminmode"] = job["qminmode"]
        BY <1>10, <3>5, <4>1 DEF Rests
      <4> QED
        BY <3>1, <3>3, <4>2
    <3> QED
      BY <3>4, <3>5
  <2> QED
    BY <1>4, <2>1, Zenon DEF Single
<1>13. \A s \in stray' : WellJob(s)' /\ Measured(s)'
  BY <1>4, <1>8, JobsOf
<1>14. \A i \in Kinds \ M : rpc[i] = "wait" => \A h \in {job[i]} : Measured(h)'
  BY <1>8, JobsOf
<1>15. /\ M \in SUBSET Kinds /\ (\A i \in Kinds \ M : Rests(i)) /\ (\A i \in M : Anew(i)')
       /\ DOMAIN job' = Kinds
  BY <1>1, <1>10, <1>11
<1> QED
  BY <1>8, <1>12, <1>13, <1>14, <1>15, StepMeasures

LEMMA MeasNext == RowInv /\ MeasInv /\ [Next]_vars => MeasInv'
<1> SUFFICES ASSUME RowInv, MeasInv, [Next]_vars PROVE MeasInv'
  OBVIOUS
<1>1. ASSUME NEW k \in Kinds, Query(k) PROVE MeasInv'
  BY <1>1, NewMeasures, SameMeasures DEF Query
<1>2. ASSUME NEW k \in Kinds, Answer(k) \/ Timeout(k) PROVE MeasInv'
  BY <1>2, ResolveMeasures, RememberedMeasures, TimeoutMeasures DEF Answer
<1>3. ASSUME NEW k \in Kinds, Collect(k) PROVE MeasInv'
  BY <1>3, CollectMeasures
<1>4. CASE Start_round
  BY <1>4, RoundMeasures
<1>5. ASSUME NEW j \in stray, Resolve_stray(j) PROVE MeasInv'
  BY <1>5, StrayMeasures
<1>6. CASE Age
  BY <1>6, AgeMeasures
<1>7. CASE Close_ch \/ Collected \/ Close_store \/ WriteOutputParquet \/ UNCHANGED vars
  <2>1. Quiet /\ UNCHANGED <<rpc, job, behaviour, out, stray>>
    BY <1>7 DEF Close_ch, Collected, Close_store, WriteOutputParquet, vars, routineVars,
                resolverVars, idVars, Quiet, Calm
  <2>2. PICK M : M = {i \in Kinds : FALSE}
    OBVIOUS
  <2>3. /\ M \in SUBSET Kinds /\ (\A i \in Kinds \ M : Rests(i)) /\ (\A i \in M : Anew(i)')
        /\ DOMAIN job' = Kinds /\ "qminmode" \notin M
    BY <2>1, <2>2 DEF Rests, MeasInv, WellInv, JobsWell
  <2> QED
    BY <2>1, <2>3, QuietMeasures
<1> QED
  BY <1>1, <1>2, <1>3, <1>4, <1>5, <1>6, <1>7 DEF Next, Start_scan, scanResolvers

LEMMA MeasInit == Init => MeasInv
<1> SUFFICES ASSUME Init PROVE MeasInv
  OBVIOUS
<1>1. /\ rpc = [k \in Kinds |-> "off"] /\ job = [k \in Kinds |-> NULL]
      /\ stray = {} /\ denied = {} /\ drawn = {} /\ probes = <<>>
  BY DEF Init
<1>2. \A k \in Kinds : rpc[k] = "off" /\ ~Asking(k) /\ ~Sent(k)
  BY <1>1 DEF Asking, Sent
<1>3. DOMAIN probes = {}
  BY <1>1
<1>4. DrawnWell /\ KeysWell /\ ProbesTruly /\ ProbesMeasured
  BY <1>1, <1>3 DEF DrawnWell, KeysWell, ProbesTruly, ProbesMeasured
<1>5. JobsWell /\ BehavedTruly /\ JobsMeasured /\ RowsMeasured
  BY <1>1, <1>2 DEF JobsWell, BehavedTruly, JobsMeasured, RowsMeasured
<1>6. Single
  BY <1>1 DEF Single
<1> QED
  BY <1>4, <1>5, <1>6 DEF MeasInv, WellInv


-----------------------------------------------------------------------------
(***************************************************************************)
(* What the analysis makes of a row that tells the truth.                   *)
(***************************************************************************)
Mode(row) ==
    IF row.kind # "qminmode" THEN ""
    ELSE IF row.res = "nxdomain" THEN "strict"
    ELSE IF row.res = "ok" /\ Several(row.seq) THEN "relaxed" ELSE ""

LEMMA RowIs ==
    ASSUME NEW row, row.kind \in Kinds
    PROVE  /\ evalRow(row).qmin = IF row.kind = "plain" /\ row.res = "ok"
                                  THEN Truth(Several(row.seq)) ELSE Nil
           /\ evalRow(row).induction = IF row.kind = "induction" /\ row.res = "ok"
                                       THEN Truth(Several(row.ind)) ELSE Nil
           /\ evalRow(row).mode = Mode(row)
<1>1. /\ \A m : [Unknown EXCEPT !.mode = m].qmin = Nil
      /\ \A m : [Unknown EXCEPT !.mode = m].induction = Nil
      /\ \A m : [Unknown EXCEPT !.mode = m].mode = m
      /\ \A x : [Unknown EXCEPT !.nx = x].qmin = Nil
      /\ \A x : [Unknown EXCEPT !.nx = x].induction = Nil
      /\ \A x : [Unknown EXCEPT !.nx = x].mode = ""
      /\ \A x : [Unknown EXCEPT !.induction = x].qmin = Nil
      /\ \A x : [Unknown EXCEPT !.induction = x].induction = x
      /\ \A x : [Unknown EXCEPT !.induction = x].mode = ""
      /\ \A x : [Unknown EXCEPT !.qmin = x].qmin = x
      /\ \A x : [Unknown EXCEPT !.qmin = x].induction = Nil
      /\ \A x : [Unknown EXCEPT !.qmin = x].mode = ""
      /\ \A e : [Unknown EXCEPT !.errors[e] = 1].qmin = Nil
      /\ \A e : [Unknown EXCEPT !.errors[e] = 1].induction = Nil
      /\ \A e : [Unknown EXCEPT !.errors[e] = 1].mode = ""
  BY DEF Unknown
<1> PICK r : r = evalRow(row)
  OBVIOUS
<1>2. CASE row.res # "ok"
  <2>1. CASE row.kind = "qminmode" /\ row.res = "nxdomain"
    <3>1. r = [Unknown EXCEPT !.mode = "strict"]
      BY <1>2, <2>1, Zenon DEF evalRow
    <3>2. r.qmin = Nil /\ r.induction = Nil /\ r.mode = "strict"
      BY <1>1, <3>1, Zenon
    <3>3. Mode(row) = "strict"
      BY <2>1 DEF Mode
    <3> QED
      BY <2>1, <3>2, <3>3
  <2>2. CASE row.kind = "nxopti"
    <3>1. ~(row.kind = "qminmode" /\ row.res = "nxdomain")
      BY <2>2
    <3>2. r = [Unknown EXCEPT !.nx = row.nxopti]
      BY <1>2, <2>2, <3>1, Zenon DEF evalRow
    <3>3. r.qmin = Nil /\ r.induction = Nil /\ r.mode = ""
      BY <1>1, <3>2, Zenon
    <3>4. Mode(row) = ""
      BY <2>2 DEF Mode
    <3> QED
      BY <2>2, <3>3, <3>4
  <2>3. CASE ~(row.kind = "qminmode" /\ row.res = "nxdomain") /\ row.kind # "nxopti"
    <3>1. PICK e : e = row.res /\ r = [Unknown EXCEPT !.errors[e] = 1]
      BY <1>2, <2>3, Zenon DEF evalRow
    <3>2. r.qmin = Nil /\ r.induction = Nil /\ r.mode = ""
      BY <3>1 DEF Unknown
    <3>3. Mode(row) = ""
      BY <1>2, <2>3 DEF Mode
    <3> QED
      BY <1>2, <3>2, <3>3
  <2> QED
    BY <2>1, <2>2, <2>3
<1>3. CASE row.res = "ok" /\ row.kind = "qminmode"
  <2>1. PICK m : m = IF Several(row.seq) THEN "relaxed" ELSE ""
    OBVIOUS
  <2>2. r = [Unknown EXCEPT !.mode = m]
    BY <1>3, <2>1, Zenon DEF evalRow
  <2>3. r.qmin = Nil /\ r.induction = Nil /\ r.mode = m
    BY <1>1, <2>2, Zenon
  <2>4. Mode(row) = m
    BY <1>3, <2>1 DEF Mode
  <2> QED
    BY <1>3, <2>3, <2>4
<1>4. CASE row.res = "ok" /\ row.kind = "nxopti"
  <2>1. row.kind # "qminmode"
    BY <1>4
  <2>2. r = [Unknown EXCEPT !.nx = row.nxopti]
    BY <1>4, <2>1, Zenon DEF evalRow
  <2>3. r.qmin = Nil /\ r.induction = Nil /\ r.mode = ""
    BY <1>1, <2>2, Zenon
  <2>4. Mode(row) = ""
    BY <1>4 DEF Mode
  <2> QED
    BY <1>4, <2>3, <2>4
<1>5. CASE row.res = "ok" /\ row.kind = "induction"
  <2>1. row.kind # "qminmode" /\ row.kind # "nxopti"
    BY <1>5
  <2>2. PICK x : x = Truth(Several(row.ind)) /\ r = [Unknown EXCEPT !.induction = x]
    BY <1>5, <2>1, Zenon DEF evalRow
  <2>3. r.qmin = Nil /\ r.induction = x /\ r.mode = ""
    BY <2>2 DEF Unknown
  <2>4. Mode(row) = ""
    BY <1>5 DEF Mode
  <2> QED
    BY <1>5, <2>2, <2>3, <2>4
<1>6. CASE row.res = "ok" /\ row.kind = "plain"
  <2>1. row.kind # "qminmode" /\ row.kind # "nxopti" /\ row.kind # "induction"
    BY <1>6
  <2>2. PICK x : x = Truth(Several(row.seq)) /\ r = [Unknown EXCEPT !.qmin = x]
    BY <1>6, <2>1, Zenon DEF evalRow
  <2>3. r.qmin = x /\ r.induction = Nil /\ r.mode = ""
    BY <2>2 DEF Unknown
  <2>4. Mode(row) = ""
    BY <1>6 DEF Mode
  <2> QED
    BY <1>6, <2>2, <2>3, <2>4
<1> QED
  BY <1>2, <1>3, <1>4, <1>5, <1>6 DEF Kinds

\* The names of a plain query: those on the way, the full name, and the full name
\* once more where it is asked for twice.
PlainAre(D, N, W, A, b) ==
    /\ D \in Nat /\ D > 0 /\ A = W \cup {D} /\ W \subseteq 1 .. D - 1 /\ A \subseteq 1 .. D
    /\ N = A \cup (IF b.type_a /\ W # {} THEN {D + 1} ELSE {})
    /\ Twice(b) = IF b.type_a /\ W # {} THEN 1 ELSE 0

LEMMA PlainNames ==
    ASSUME Cfg \in Configs, NEW b, b \in Behaviours,
           NEW D, D = Cfg.depth, NEW N, N = NamesOf("plain", FALSE, b),
           NEW W, W = Way(b.steps), NEW A, A = Asked(b)
    PROVE  PlainAre(D, N, W, A, b)
<1>1. PICK kind, target : kind = "plain" /\ target = FALSE
  OBVIOUS
<1>2. W = WayOf(target, b) /\ N = NamesOf(kind, target, b)
  BY <1>1, Zenon DEF WayOf
<1>3. Naming(D, N) /\ \A n \in W : n \in Nat /\ n > 0 /\ n < D
  BY <1>2, NamesOfIs
<1>4. D \in Nat /\ D > 0
  BY <1>3 DEF Naming
<1>5. A = W \cup {D}
  BY Zenon DEF Asked
<1>6. N = A \cup (IF b.type_a /\ W # {} THEN {D + 1} ELSE {})
  <2>1. N = W \cup {D} \cup (IF b.type_a /\ W # {} THEN {D + 1} ELSE {})
    BY <1>1, <1>2, Zenon DEF NamesOf
  <2> QED
    BY <1>5, <2>1, Zenon
<1>7. W \subseteq 1 .. D - 1 /\ A \subseteq 1 .. D
  BY <1>3, <1>4, <1>5
<1>8. Twice(b) = IF b.type_a /\ W # {} THEN 1 ELSE 0
  BY Zenon DEF Twice
<1> QED
  BY <1>4, <1>5, <1>6, <1>7, <1>8, Zenon DEF PlainAre

LEMMA BehaviourMeasured ==
    ASSUME Cfg \in Configs, MeasInv
    PROVE  BehaviourTruly
<1> SUFFICES ASSUME NEW k \in Kinds, Sent(k), Clear(out[k].id)
             PROVE  LET r == evalRow(out[k])
                        b == behaviour[k]
                    IN  /\ r.qmin \in {Nil, Truth(Way(b.steps) # {})}
                        /\ r.induction \in {Nil, Truth(Way(b.induced) # {})}
                        /\ r.mode \in {"", IF b.strict THEN "strict" ELSE "relaxed"}
                        /\ r.mode # "" => Way(b.steps) # {}
  BY Zenon DEF BehaviourTruly, Clear
<1>1. PICK row, b, r, W : /\ row = out[k] /\ b = behaviour[k] /\ r = evalRow(row)
                          /\ W = Way(b.steps)
  OBVIOUS
<1>2. row.kind = k /\ Told(k, b, row.res, row.seq, row.ind)
  BY <1>1 DEF MeasInv, RowsMeasured, RowTrue
<1>3. b \in Behaviours
  BY <1>1 DEF MeasInv, WellInv, BehavedTruly, Sent
<1>4. /\ r.qmin = IF k = "plain" /\ row.res = "ok" THEN Truth(Several(row.seq)) ELSE Nil
      /\ r.induction = IF k = "induction" /\ row.res = "ok"
                       THEN Truth(Several(row.ind)) ELSE Nil
      /\ r.mode = Mode(row)
  BY <1>1, <1>2, RowIs
<1>5. r.qmin \in {Nil, Truth(W # {})}
  <2>1. CASE k = "plain" /\ row.res = "ok"
    <3>1. PICK N, D, A, seq : /\ N = NamesOf("plain", FALSE, b) /\ D = Cfg.depth
                              /\ A = Asked(b) /\ seq = row.seq
      OBVIOUS
    <3>2. Spells(seq, N)
      BY <1>2, <2>1, <3>1 DEF Told
    <3>3. /\ D \in Nat /\ A = W \cup {D} /\ W \subseteq 1 .. D - 1
          /\ N = A \cup (IF b.type_a /\ W # {} THEN {D + 1} ELSE {})
      <4>1. /\ W = Way(b.steps) /\ N = NamesOf("plain", FALSE, b) /\ D = Cfg.depth
            /\ A = Asked(b) /\ b \in Behaviours
        BY <1>1, <1>3, <3>1, Zenon
      <4>2. PlainAre(D, N, W, A, b)
        BY <4>1, PlainNames, Zenon
      <4> QED
        BY <4>2, Zenon DEF PlainAre
    <3>4. D \in N /\ (N # {D} <=> W # {})
      BY <3>3
    <3>5. Several(seq) <=> W # {}
      BY <3>2, <3>4, SeveralNames
    <3>6. r.qmin = Truth(Several(seq))
      BY <1>4, <2>1, <3>1
    <3> QED
      BY <3>5, <3>6 DEF Truth
  <2>2. CASE ~(k = "plain" /\ row.res = "ok")
    BY <1>4, <2>2
  <2> QED
    BY <2>1, <2>2
<1>6. r.induction \in {Nil, Truth(Way(b.induced) # {})}
  <2>1. k = "induction" /\ row.res = "ok" => (Several(row.ind) <=> Way(b.induced) # {})
    BY <1>2 DEF Told
  <2> QED
    BY <1>4, <2>1 DEF Truth
<1>7. r.mode \in {"", IF b.strict THEN "strict" ELSE "relaxed"} /\ (r.mode # "" => W # {})
  <2>1. /\ k = "qminmode" /\ row.res = "nxdomain" => b.strict /\ W # {}
        /\ k = "qminmode" /\ row.res = "ok" /\ Several(row.seq) => ~b.strict /\ W # {}
    BY <1>1, <1>2 DEF Told
  <2> QED
    BY <1>2, <1>4, <2>1 DEF Mode
<1> QED
  BY <1>1, <1>5, <1>6, <1>7, Zenon

\* The names that grow by one label: one more than without the second question.
Counted(D, A, N, twice, singles, F) ==
    /\ Cardinality(N) = Cardinality(A) + IF twice THEN 1 ELSE 0
    /\ Cardinality(F) = Cardinality(singles) + IF twice /\ D \in singles THEN 1 ELSE 0

LEMMA SinglesCount ==
    ASSUME NEW D, D \in Nat, D > 0, NEW A, A \subseteq 1 .. D,
           NEW twice, twice \in BOOLEAN,
           NEW N, N = A \cup (IF twice THEN {D + 1} ELSE {}),
           NEW singles, singles = {n \in 1 .. D : 1 .. n \subseteq A},
           NEW F, \A m : m \in F <=> m \in Nat /\ m > 0 /\ 1 .. m \subseteq N
    PROVE  Counted(D, A, N, twice, singles, F)
<1>1. IsFiniteSet(1 .. D)
  BY FS_Interval
<1>2. IsFiniteSet(A) /\ IsFiniteSet(singles)
  BY <1>1, FS_Subset
<1>3. D + 1 \notin A /\ D + 1 \notin singles
  OBVIOUS
<1>4. Cardinality(A) \in Nat /\ Cardinality(singles) \in Nat
  BY <1>2, FS_CardinalityType
<1>5. Cardinality(N) = Cardinality(A) + IF twice THEN 1 ELSE 0
  <2>1. CASE twice
    BY <1>2, <1>3, <2>1, FS_AddElement
  <2>2. CASE ~twice
    BY <1>4, <2>2
  <2> QED
    BY <2>1, <2>2
<1>6. ASSUME NEW m \in Nat, m > 0, m <= D PROVE m \in F <=> m \in singles
  <2>1. \A i \in 1 .. m : i \in N <=> i \in A
    BY <1>6
  <2> QED
    BY <1>6, <2>1
<1>7. ASSUME NEW m \in F PROVE m \in Nat /\ m > 0 /\ m <= D + 1
  <2>1. m \in Nat /\ m > 0 /\ m \in N
    BY <1>7
  <2> QED
    BY <2>1
<1>8. D + 1 \in F <=> twice /\ D \in singles
  <2>1. D + 1 \in F => D + 1 \in N /\ 1 .. D \subseteq N
    OBVIOUS
  <2>2. D + 1 \in N <=> twice
    BY <1>3
  <2>3. 1 .. D \subseteq N <=> D \in singles
    BY <1>3
  <2>4. D + 1 \in N /\ 1 .. D \subseteq N => D + 1 \in F
    <3>1. 1 .. D + 1 = (1 .. D) \cup {D + 1}
      OBVIOUS
    <3> QED
      BY <3>1
  <2> QED
    BY <2>1, <2>2, <2>3, <2>4
<1>9. F = singles \cup (IF twice /\ D \in singles THEN {D + 1} ELSE {})
  <2>1. ASSUME NEW m \in F
        PROVE  m \in singles \cup (IF twice /\ D \in singles THEN {D + 1} ELSE {})
    <3>1. m \in Nat /\ m > 0 /\ (m <= D \/ m = D + 1)
      BY <1>7
    <3> QED
      BY <1>6, <1>8, <3>1
  <2>2. ASSUME NEW m \in singles PROVE m \in F
    BY <1>6
  <2> QED
    BY <1>8, <2>1, <2>2
<1>10. Cardinality(F) = Cardinality(singles) + IF twice /\ D \in singles THEN 1 ELSE 0
  <2>1. CASE twice /\ D \in singles
    <3>1. F = singles \cup {D + 1}
      BY <1>9, <2>1
    <3> QED
      BY <1>2, <1>3, <2>1, <3>1, FS_AddElement
  <2>2. CASE ~(twice /\ D \in singles)
    <3>1. F = singles
      BY <1>9, <2>2
    <3> QED
      BY <1>4, <2>2, <3>1
  <2> QED
    BY <2>1, <2>2
<1> QED
  BY <1>5, <1>10 DEF Counted


-----------------------------------------------------------------------------
\* The numbers that are read from a sequence that spells the names asked for.
PatternIs(seq, D, W, A, b, singles) ==
    /\ Maximum(seq) = Cardinality(A) + Twice(b)
    /\ Minimum(seq) = IF W = {} THEN 1
                      ELSE Cardinality(singles) + IF D \in singles THEN Twice(b) ELSE 0

LEMMA PatternRead ==
    ASSUME NEW D, NEW N, NEW W, NEW A, NEW b, PlainAre(D, N, W, A, b), D > 1,
           NEW seq, Spells(seq, N),
           NEW singles, singles = {n \in 1 .. D : 1 .. n \subseteq A}
    PROVE  PatternIs(seq, D, W, A, b, singles)
<1>1. PICK twice \in BOOLEAN : twice <=> b.type_a /\ W # {}
  <2>1. (b.type_a /\ W # {}) \in BOOLEAN
    OBVIOUS
  <2> QED
    BY <2>1
<1>2. /\ D \in Nat /\ D > 0 /\ A = W \cup {D} /\ W \subseteq 1 .. D - 1 /\ A \subseteq 1 .. D
      /\ N = A \cup (IF twice THEN {D + 1} ELSE {})
      /\ Twice(b) = IF twice THEN 1 ELSE 0
  BY <1>1, Zenon DEF PlainAre
<1>3. PICK L \in Nat : L = Len(seq)
  BY DEF Spells
<1>4. Cardinality(N) = L
  BY <1>3, SpellsSize
<1>5. PICK F : F = {m \in Nat \ {0} : 1 .. m \subseteq N}
  OBVIOUS
<1>6. \A m : m \in F <=> m \in Nat /\ m > 0 /\ 1 .. m \subseteq N
  BY <1>5
<1>7. /\ Cardinality(N) = Cardinality(A) + IF twice THEN 1 ELSE 0
      /\ Cardinality(F) = Cardinality(singles) + IF twice /\ D \in singles THEN 1 ELSE 0
  <2>1. Counted(D, A, N, twice, singles, F)
    BY <1>1, <1>2, <1>6, SinglesCount, Zenon
  <2> QED
    BY <2>1, Zenon DEF Counted
<1>8. D \in N /\ (N # {D} <=> W # {})
  BY <1>1, <1>2
<1>9. ASSUME NEW m \in Nat, m > 0
       PROVE  1 .. m \subseteq N
                 <=> m <= Len(seq) /\ \A k \in 0 .. m - 1 : seq[Len(seq) - k].labels = 1
  BY <1>9, SpellsFirst
<1>10. Several(seq) <=> W # {}
  BY <1>8, SeveralNames
<1>11. CASE W # {}
  <2>1. Maximum(seq) = L
    BY <1>3, <1>10, <1>11 DEF Maximum
  <2>2. ASSUME NEW m \in Nat, m > 0
        PROVE  m \in F <=> m <= L /\ \A k \in 0 .. m - 1 : seq[L - k].labels = 1
    BY <1>3, <1>6, <1>9, <2>2
  <2>3. F = {m \in 1 .. L : \A k \in 0 .. m - 1 : seq[L - k].labels = 1}
    <3>1. \A m \in F : m \in Nat /\ m > 0
      BY <1>6
    <3>2. PICK G : G = {m \in 1 .. L : \A k \in 0 .. m - 1 : seq[L - k].labels = 1}
      OBVIOUS
    <3>3. \A m \in F : m \in G
      BY <2>2, <3>1, <3>2
    <3>4. \A m \in G : m \in F
      BY <1>3, <2>2, <3>2
    <3> QED
      BY <3>2, <3>3, <3>4
  <2>4. Minimum(seq) = Cardinality(F)
    BY <1>3, <1>10, <1>11, <2>3, Zenon DEF Minimum
  <2> QED
    BY <1>2, <1>4, <1>7, <1>11, <2>1, <2>4 DEF PatternIs
<1>12. CASE W = {}
  <2>1. A = {D} /\ N = {D} /\ Cardinality(A) = 1 /\ Twice(b) = 0 /\ L = 1
    BY <1>1, <1>2, <1>4, <1>12, FS_Singleton
  <2>2. seq[1].labels # 1
    <3>1. ASSUME NEW m \in Nat, m > 0, m = 1, seq[1].labels = 1 PROVE FALSE
      <4>1. \A k \in 0 .. m - 1 : seq[Len(seq) - k].labels = 1
        BY <1>3, <2>1, <3>1
      <4>2. 1 .. m \subseteq N
        BY <1>3, <1>9, <2>1, <3>1, <4>1
      <4> QED
        BY <1>2, <2>1, <3>1, <4>2
    <3> QED
      BY <3>1
  <2>3. Alone(seq) = 1
    BY <2>2 DEF Alone
  <2>4. Maximum(seq) = 1 /\ Minimum(seq) = 1
    BY <1>10, <1>12, <2>3 DEF Maximum, Minimum
  <2> QED
    BY <1>12, <2>1, <2>4 DEF PatternIs
<1> QED
  BY <1>11, <1>12

LEMMA PatternMeasured ==
    ASSUME Cfg \in Configs, MeasInv
    PROVE  PatternTruly
<1> SUFFICES ASSUME Sent("plain"), out["plain"].res = "ok", Clear(out["plain"].id),
                    Cfg.depth > 1
             PROVE  LET b == behaviour["plain"]
                        singles == {n \in 1 .. Cfg.depth : 1 .. n \subseteq Asked(b)}
                    IN  /\ Maximum(out["plain"].seq) = Cardinality(Asked(b)) + Twice(b)
                        /\ Minimum(out["plain"].seq) =
                              IF Way(b.steps) = {} THEN 1
                              ELSE Cardinality(singles)
                                   + IF Cfg.depth \in singles THEN Twice(b) ELSE 0
  BY Zenon DEF PatternTruly, Clear
<1>1. PICK k, row, b, D, N, W, A :
         /\ k = "plain" /\ row = out[k] /\ b = behaviour[k] /\ D = Cfg.depth
         /\ N = NamesOf("plain", FALSE, b) /\ W = Way(b.steps) /\ A = Asked(b)
  OBVIOUS
<1>2. k \in Kinds /\ Sent(k)
  BY <1>1 DEF Kinds
<1>3. Told(k, b, row.res, row.seq, row.ind) /\ b \in Behaviours
  BY <1>1, <1>2 DEF MeasInv, RowsMeasured, RowTrue, WellInv, BehavedTruly, Sent
<1>4. PICK seq : seq = row.seq
  OBVIOUS
<1>5. Spells(seq, N)
  BY <1>1, <1>3, <1>4 DEF Told
<1>6. PlainAre(D, N, W, A, b)
  BY <1>1, <1>3, PlainNames, Zenon
<1>7. PICK singles : singles = {n \in 1 .. D : 1 .. n \subseteq A}
  OBVIOUS
<1>8. /\ Maximum(seq) = Cardinality(A) + Twice(b)
      /\ Minimum(seq) = IF W = {} THEN 1
                        ELSE Cardinality(singles) + IF D \in singles THEN Twice(b) ELSE 0
  <2>1. D > 1
    BY <1>1
  <2>2. PatternIs(seq, D, W, A, b, singles)
    BY <1>5, <1>6, <1>7, <2>1, PatternRead, Zenon
  <2> QED
    BY <2>2, Zenon DEF PatternIs
<1> QED
  BY <1>1, <1>4, <1>7, <1>8, Zenon

\* What the analysis reports of minimisation, of aliases, of denials on the way and of
\* the pattern of the names (dns_server.go 184-313, scanner.go 302-365,
\* postproc_scan_result.go 117-175 and 218-302) is true of every resolver whose ids
\* nothing disturbed, whatever is lost, late, asked again and deleted besides.
THEOREM MeasuredIsTrue == Spec => []MeasuredTruly
<1>1. Init => RowInv /\ MeasInv
  BY InitKeeps, MeasInit
<1>2. RowInv /\ MeasInv /\ [Next]_vars => (RowInv /\ MeasInv)'
  BY NextKeeps, MeasNext
<1>3. RowInv /\ MeasInv => MeasuredTruly
  BY BehaviourMeasured, PatternMeasured DEF MeasuredTruly, RowInv, Types
<1> QED
  BY <1>1, <1>2, <1>3, PTL DEF Spec
=============================================================================
