------------------------- MODULE DatasetSyncProofs -------------------------
(***************************************************************************)
(* Proofs about DatasetSync, for every set of datasets and ids, every      *)
(* chunk size and every bound.                                             *)
(***************************************************************************)
EXTENDS DatasetSyncInductive, FiniteSetTheorems, TLAPS

\* A chunk has a number of rows.
LEMMA RowsAreCounted == \A t : Cardinality(Rows(t)) \in Nat
<1> SUFFICES ASSUME NEW t PROVE Cardinality(Rows(t)) \in Nat
  OBVIOUS
<1>1. IsFiniteSet(Ids)
  BY ConstantsAssumption
<1>2. Rows(t) \subseteq Ids
  BY DEF Rows
<1>3. IsFiniteSet(Rows(t))
  BY <1>1, <1>2, FS_Subset
<1> QED
  BY <1>3, FS_CardinalityType

LEMMA EmptyTableType == EmptyTable \in Tables
  BY ConstantsAssumption DEF EmptyTable, Tables, Versions

LEMMA MergeType == \A s, t \in Tables : Merge(t, s) \in Tables
  BY DEF Merge, Tables

LEMMA StampType == \A v \in Versions : StampOf(v) \in Nat
<1> SUFFICES ASSUME NEW v \in Versions PROVE StampOf(v) \in Nat
  OBVIOUS
<1>1. CASE v = 0
  BY <1>1, StampAssumption
<1>2. CASE v # 0
  <2>1. v \in 1..MaxClock
    BY <1>2, ConstantsAssumption DEF Versions
  <2> QED
    BY <2>1, StampAssumption
<1> QED
  BY <1>1, <1>2

LEMMA StampsType ==
  Stamps \subseteq Nat /\ 0 \in Stamps /\ \A v \in Versions : StampOf(v) \in Stamps
<1>1. 0 \in Versions /\ StampOf(0) = 0
  BY ConstantsAssumption, StampAssumption DEF Versions
<1> QED
  BY <1>1, StampType DEF Stamps

-----------------------------------------------------------------------------
(* Type correctness *)

LEMMA TypeInit == Init => TypeOK
BY EmptyTableType, StampsType, ConstantsAssumption
DEF Init, TypeOK, IdleRun, Run, Pcs, Kinds, SyncState, ReloadNames, At,
    BeforeStream, AfterCopy, Recording, Copying, Versions

\* The part of TypeOK that speaks of the lock and the map of requests.
Locked ==
  /\ running = {d \in Datasets : ~At(d, "idle")}
  /\ cancelable = {d \in Datasets : run[d].pc \in Copying}

LEMMA IdleRunType == IdleRun \in Run /\ IdleRun.pc = "idle"
BY EmptyTableType, StampsType DEF IdleRun, Run, Pcs, Kinds

\* The locals of one run change, those of the others do not.
LEMMA BecomesType ==
  ASSUME TypeOK, NEW d \in Datasets, NEW r \in Run, Becomes(d, r)
  PROVE  /\ run' \in [Datasets -> Run]
         /\ run'[d] = r
         /\ \A e \in Datasets : e # d => run'[e] = run[e]
BY DEF TypeOK, Becomes

LEMMA GotoType ==
  ASSUME TypeOK, NEW d \in Datasets, NEW pc \in Pcs
  PROVE  /\ [run[d] EXCEPT !.pc = pc] \in Run
         /\ [run[d] EXCEPT !.pc = pc].pc = pc
<1>1. run[d] \in Run
  BY DEF TypeOK
<1> QED
  BY <1>1 DEF Run

\* A step that stays inside, or outside, the copy keeps the lock and the map.
LEMMA LockedStep ==
  ASSUME TypeOK, NEW d \in Datasets, NEW r \in Run, Becomes(d, r),
         run[d].pc # "idle", r.pc # "idle",
         r.pc \in Copying <=> run[d].pc \in Copying,
         UNCHANGED <<running, cancelable>>
  PROVE  run' \in [Datasets -> Run] /\ Locked'
<1>1. /\ run' \in [Datasets -> Run]
      /\ run'[d] = r
      /\ \A e \in Datasets : e # d => run'[e] = run[e]
  BY BecomesType
<1>2. Locked
  BY DEF TypeOK, Locked
<1> QED
  BY <1>1, <1>2 DEF Locked, At

LEMMA LockedGoto ==
  ASSUME TypeOK, NEW d \in Datasets, NEW pc \in Pcs, Goto(d, pc),
         run[d].pc # "idle", pc # "idle",
         pc \in Copying <=> run[d].pc \in Copying,
         UNCHANGED <<running, cancelable>>
  PROVE  run' \in [Datasets -> Run] /\ Locked'
<1>1. Becomes(d, [run[d] EXCEPT !.pc = pc])
  BY DEF Goto
<1> QED
  BY <1>1, GotoType, LockedStep

LEMMA LandType ==
  ASSUME TypeOK, NEW d \in Datasets, NEW kind \in Kinds, NEW rows \in Tables,
         CanLand(d, kind), Land(d, kind, rows)
  PROVE  /\ target' \in [Datasets -> Tables]
         /\ reload' \in [ReloadNames -> Tables \cup {NoTable}]
         /\ dirty' \subseteq Datasets
<1>1. ReloadName(d) \in ReloadNames
  BY DEF ReloadNames
<1>2. CASE kind = "truncate"
  <2>1. reload[ReloadName(d)] \in Tables
    BY <1>1, <1>2 DEF CanLand, TypeOK
  <2>2. Merge(reload[ReloadName(d)], rows) \in Tables
    BY <2>1, MergeType
  <2> QED
    BY <1>1, <1>2, <2>2 DEF Land, TypeOK
<1>3. CASE kind # "truncate"
  <2>1. Merge(target[d], rows) \in Tables
    BY MergeType DEF TypeOK
  <2> QED
    BY <1>3, <2>1 DEF Land, TypeOK
<1> QED
  BY <1>2, <1>3

LEMMA AbandonedType ==
  ASSUME TypeOK, NEW d \in Datasets
  PROVE  Abandoned(d) \in Run /\ Abandoned(d).pc = "unwinding"
<1>1. run[d] \in Run
  BY DEF TypeOK
<1> QED
  BY <1>1, EmptyTableType DEF Abandoned, Run, Pcs

LEMMA BufferedType ==
  ASSUME TypeOK, NEW d \in Datasets, NEW i \in Ids
  PROVE  Buffered(d, i) \in Run /\ Buffered(d, i).pc = run[d].pc
<1> DEFINE v == run[d].wire[i]
           filled == [run[d].buffer EXCEPT ![i] = v]
           full == Cardinality(Rows(filled)) >= ChunkRows
           newer == d \in Watermarked /\ StampOf(v) > run[d].maxwm
           wire == [run[d].wire EXCEPT ![i] = 0]
           maxwm == IF newer THEN StampOf(v) ELSE run[d].maxwm
           buffer == IF full THEN EmptyTable ELSE filled
           flight == IF full THEN filled ELSE EmptyTable
<1>1. run[d] \in Run /\ 0 \in Versions
  BY ConstantsAssumption DEF TypeOK, Versions
<1>2. v \in Versions
  BY <1>1 DEF Run, Tables
<1>3. filled \in Tables /\ wire \in Tables
  BY <1>1, <1>2 DEF Run, Tables
<1>4. StampOf(v) \in Stamps
  BY <1>2, StampsType
<1>5. /\ wire \in Tables
      /\ run[d].total + 1 \in Nat
      /\ maxwm \in Stamps
      /\ buffer \in Tables
      /\ flight \in Tables
  BY <1>1, <1>3, <1>4, EmptyTableType DEF Run
<1>6. Buffered(d, i) = [run[d] EXCEPT !.wire = wire, !.total = run[d].total + 1,
                          !.maxwm = maxwm, !.buffer = buffer, !.flight = flight]
  BY <1>1 DEF Buffered, Run
<1> HIDE DEF v, filled, full, newer, wire, maxwm, buffer, flight
<1> QED
  BY <1>1, <1>5, <1>6 DEF Run

\* The locals after a row was read.
Scanned(d, i) ==
  LET v == source[d][i]
      returned == Matches(d, v)
  IN  [run[d] EXCEPT
         !.scan = run[d].scan \ {i},
         !.wire[i] = IF returned THEN v ELSE 0,
         !.snap[i] = IF returned \/ i \notin missed[d] THEN v ELSE 0]

LEMMA ScannedType ==
  ASSUME TypeOK, NEW d \in Datasets, NEW i \in Ids
  PROVE  Scanned(d, i) \in Run /\ Scanned(d, i).pc = run[d].pc
<1> DEFINE v == source[d][i]
           returned == Matches(d, v)
           w == IF returned THEN v ELSE 0
           z == IF returned \/ i \notin missed[d] THEN v ELSE 0
           wire == [run[d].wire EXCEPT ![i] = w]
           snap == [run[d].snap EXCEPT ![i] = z]
           scan == run[d].scan \ {i}
<1>1. run[d] \in Run /\ 0 \in Versions /\ v \in Versions
  BY ConstantsAssumption DEF TypeOK, Versions, Tables
<1>2. w \in Versions /\ z \in Versions
  BY <1>1
<1>3. Scanned(d, i) = [run[d] EXCEPT !.scan = scan, !.wire = wire, !.snap = snap]
  BY <1>1 DEF Scanned, Run
<1> HIDE DEF v, returned, w, z
<1>4. wire \in Tables /\ snap \in Tables /\ scan \in SUBSET Ids
  BY <1>1, <1>2 DEF Run, Tables
<1> HIDE DEF wire, snap, scan
<1> QED
  BY <1>1, <1>3, <1>4 DEF Run

\* The steps that move on without touching a lock: the rest of TypeOK is what
\* each changes beside the locals of its run.
LEMMA TypeNext == TypeOK /\ [Next]_vars => TypeOK'
<1> SUFFICES ASSUME TypeOK, [Next]_vars PROVE TypeOK'
  OBVIOUS
<1> USE DEF Pcs, BeforeStream, AfterCopy, Recording
<1>a. ASSUME NEW d \in Datasets
      PROVE  /\ run[d] \in Run /\ state[d] \in SyncState
             /\ source[d] \in Tables /\ target[d] \in Tables
             /\ ReloadName(d) \in ReloadNames
  BY DEF TypeOK, ReloadNames
<1>b. Locked
  BY DEF TypeOK, Locked
<1>1. ASSUME NEW d \in Datasets, NEW i \in Ids, SourceWrite(d, i) PROVE TypeOK'
  <2>1. /\ clock' \in Versions /\ source' \in [Datasets -> Tables]
        /\ fresh' \in [Datasets -> SUBSET Ids]
        /\ missed' \in [Datasets -> SUBSET Ids]
    BY <1>1, ConstantsAssumption DEF SourceWrite, Tables, Versions, TypeOK
  <2> QED
    BY <1>1, <2>1 DEF SourceWrite, TypeOK, At
<1>2. ASSUME NEW d \in Datasets, NEW i \in Ids, SourceDelete(d, i) PROVE TypeOK'
  <2>1. /\ source' \in [Datasets -> Tables]
        /\ fresh' \in [Datasets -> SUBSET Ids]
        /\ missed' \in [Datasets -> SUBSET Ids]
    BY <1>2, ConstantsAssumption DEF SourceDelete, Tables, Versions, TypeOK
  <2> QED
    BY <1>2, <2>1 DEF SourceDelete, TypeOK, At
<1>3. ASSUME NEW d \in Datasets, NEW kind \in Kinds, StartRun(d, kind) PROVE TypeOK'
  <2> DEFINE r == [IdleRun EXCEPT !.pc = "preflight", !.kind = kind]
  <2>1. r \in Run /\ r.pc = "preflight"
    BY IdleRunType DEF Run
  <2>2. Becomes(d, r)
    BY <1>3 DEF StartRun
  <2> HIDE DEF r
  <2>3. /\ run' \in [Datasets -> Run]
        /\ run'[d].pc = "preflight"
        /\ \A e \in Datasets : e # d => run'[e] = run[e]
    BY <2>1, <2>2, BecomesType
  <2>4. run[d].pc = "idle"
    BY <1>3, <1>b DEF StartRun, Locked, At
  <2>5. Locked'
    BY <1>3, <1>b, <2>3, <2>4 DEF StartRun, Locked, At, Copying
  <2>6. history' \in [Datasets -> Seq({"ok", "error"})]
    BY <1>3 DEF StartRun, TypeOK
  <2> QED
    BY <1>3, <2>3, <2>5, <2>6 DEF StartRun, TypeOK, Locked
<1>4. ASSUME NEW d \in Datasets, NEW i \in Ids, DeliverRow(d, i) PROVE TypeOK'
  <2>1. Becomes(d, Buffered(d, i)) /\ run[d].pc = "streaming"
    BY <1>4 DEF DeliverRow, At
  <2>2. run' \in [Datasets -> Run] /\ Locked'
    BY <1>4, <2>1, BufferedType, LockedStep DEF DeliverRow
  <2> QED
    BY <1>4, <2>2 DEF DeliverRow, TypeOK, Locked
<1>5. ASSUME NEW d \in Datasets, NEW i \in Ids, ScanRow(d, i) PROVE TypeOK'
  <2>1. Becomes(d, Scanned(d, i)) /\ run[d].pc = "streaming"
    BY <1>5 DEF ScanRow, Scanned, At
  <2>2. run' \in [Datasets -> Run] /\ Locked'
    BY <1>5, <2>1, ScannedType, LockedStep DEF ScanRow
  <2>3. fresh' \in [Datasets -> SUBSET Ids]
    BY <1>5 DEF ScanRow, TypeOK
  <2> QED
    BY <1>5, <2>2, <2>3 DEF ScanRow, TypeOK, Locked
<1>6. ASSUME NEW d \in Datasets, RecordRunning(d) PROVE TypeOK'
  <2>1. run' \in [Datasets -> Run] /\ Locked'
    BY <1>6, LockedGoto DEF RecordRunning, At, Copying
  <2>2. [state[d] EXCEPT !.last_status = "running"] \in SyncState
    BY <1>a DEF SyncState
  <2> QED
    BY <1>6, <2>1, <2>2 DEF RecordRunning, SetState, TypeOK, Locked
<1>7. ASSUME NEW d \in Datasets, ReadWatermark(d) PROVE TypeOK'
  <2> DEFINE since == IF run[d].kind = "incremental"
                      THEN state[d].last_watermark ELSE 0
             pc == IF run[d].kind = "truncate" THEN "prepare" ELSE "open"
             r == [run[d] EXCEPT !.pc = pc, !.since = since, !.maxwm = since]
  <2>1. since \in Stamps
    BY <1>a, StampsType DEF SyncState
  <2>2. pc \in {"prepare", "open"}
    OBVIOUS
  <2>3. Becomes(d, r) /\ run[d].pc = "since"
    BY <1>7 DEF ReadWatermark, At
  <2> HIDE DEF since, pc
  <2>4. r \in Run /\ r.pc = pc
    BY <1>a, <2>1, <2>2 DEF Run
  <2> HIDE DEF r
  <2>5. run' \in [Datasets -> Run] /\ Locked'
    BY <1>7, <2>2, <2>3, <2>4, LockedStep DEF ReadWatermark, Copying
  <2> QED
    BY <1>7, <2>5 DEF ReadWatermark, TypeOK, Locked
<1>8. ASSUME NEW d \in Datasets, PrepareReload(d) PROVE TypeOK'
  <2>1. run' \in [Datasets -> Run] /\ Locked'
    BY <1>8, LockedGoto DEF PrepareReload, At, Copying
  <2>2. strayed' \subseteq Datasets
    BY <1>8 DEF PrepareReload, Sharing, TypeOK
  <2> QED
    BY <1>8, <2>1, <2>2, EmptyTableType DEF PrepareReload, TypeOK, Locked
<1>9. ASSUME NEW d \in Datasets, OpenStream(d) PROVE TypeOK'
  <2> DEFINE r == [run[d] EXCEPT !.pc = "streaming", !.snap = EmptyTable,
                                 !.scan = Ids, !.wire = EmptyTable]
  <2>1. Becomes(d, r) /\ run[d].pc = "open"
    BY <1>9 DEF OpenStream, At
  <2>2. r \in Run /\ r.pc = "streaming"
    BY <1>a, EmptyTableType DEF Run
  <2> HIDE DEF r
  <2>3. /\ run' \in [Datasets -> Run]
        /\ run'[d].pc = "streaming"
        /\ \A e \in Datasets : e # d => run'[e] = run[e]
    BY <2>1, <2>2, BecomesType
  <2>4. Locked'
    BY <1>9, <1>b, <2>1, <2>3 DEF OpenStream, Locked, At, Copying
  <2> QED
    BY <1>9, <2>3, <2>4 DEF OpenStream, TypeOK, Locked
<1>10. ASSUME NEW d \in Datasets, FlushCommit(d) PROVE TypeOK'
  <2> DEFINE n == run[d].committed + Cardinality(Rows(run[d].flight))
             r == [run[d] EXCEPT !.committed = n, !.flight = EmptyTable]
  <2>1. n \in Nat
    BY <1>a, RowsAreCounted DEF Run
  <2>2. Becomes(d, r) /\ run[d].pc = "streaming"
    BY <1>10 DEF FlushCommit, At
  <2> HIDE DEF n
  <2>3. r \in Run /\ r.pc = run[d].pc
    BY <1>a, <2>1, EmptyTableType DEF Run
  <2> HIDE DEF r
  <2>4. run' \in [Datasets -> Run] /\ Locked'
    BY <1>10, <2>2, <2>3, LockedStep DEF FlushCommit
  <2>5. run[d].kind \in Kinds /\ run[d].flight \in Tables
    BY <1>a DEF Run
  <2>6. /\ target' \in [Datasets -> Tables]
        /\ reload' \in [ReloadNames -> Tables \cup {NoTable}]
        /\ dirty' \subseteq Datasets
    BY <1>10, <2>5, LandType DEF FlushCommit
  <2> QED
    BY <1>10, <2>4, <2>6 DEF FlushCommit, TypeOK, Locked
<1>11. ASSUME NEW d \in Datasets, FlushFail(d) PROVE TypeOK'
  <2>1. run' \in [Datasets -> Run] /\ Locked'
    BY <1>11, AbandonedType, LockedStep DEF FlushFail, At, Copying
  <2> QED
    BY <1>11, <2>1 DEF FlushFail, TypeOK, Locked
<1>12. ASSUME NEW d \in Datasets, StreamError(d) PROVE TypeOK'
  <2>1. run' \in [Datasets -> Run] /\ Locked'
    BY <1>12, AbandonedType, LockedStep DEF StreamError, At, Copying
  <2>2. [ds |-> d, kind |-> run[d].kind, rows |-> run[d].flight] \in Stray
    BY <1>a DEF Run, Stray
  <2>3. stray' \subseteq Stray
    BY <1>12, <2>2 DEF StreamError, TypeOK
  <2> QED
    BY <1>12, <2>1, <2>3 DEF StreamError, TypeOK, Locked
<1>13. ASSUME NEW d \in Datasets, StreamDone(d) PROVE TypeOK'
  <2>1. run' \in [Datasets -> Run] /\ Locked'
    BY <1>13, LockedGoto DEF StreamDone, At, Copying
  <2> QED
    BY <1>13, <2>1 DEF StreamDone, TypeOK, Locked
<1>14. ASSUME NEW d \in Datasets, FinalFlush(d) PROVE TypeOK'
  <2> DEFINE n == run[d].committed + Cardinality(Rows(run[d].buffer))
             r == [run[d] EXCEPT !.pc = AfterPull(d), !.committed = n,
                                 !.buffer = EmptyTable]
  <2>1. n \in Nat /\ AfterPull(d) \in {"swapping", "closing"}
    BY <1>a, RowsAreCounted DEF Run, AfterPull
  <2>2. Becomes(d, r) /\ run[d].pc = "draining"
    BY <1>14 DEF FinalFlush, At
  <2> HIDE DEF n
  <2>3. r \in Run /\ r.pc = AfterPull(d)
    BY <1>a, <2>1, EmptyTableType DEF Run
  <2> HIDE DEF r
  <2>4. run' \in [Datasets -> Run] /\ Locked'
    BY <1>14, <2>1, <2>2, <2>3, LockedStep DEF FinalFlush, Copying
  <2>5. run[d].kind \in Kinds /\ run[d].buffer \in Tables
    BY <1>a DEF Run
  <2>6. /\ target' \in [Datasets -> Tables]
        /\ reload' \in [ReloadNames -> Tables \cup {NoTable}]
        /\ dirty' \subseteq Datasets
    <3>1. CASE UNCHANGED <<target, reload, dirty>>
      BY <3>1 DEF TypeOK
    <3>2. CASE CanLand(d, run[d].kind) /\ Land(d, run[d].kind, run[d].buffer)
      BY <3>2, <2>5, LandType
    <3> QED
      BY <1>14, <3>1, <3>2 DEF FinalFlush
  <2> QED
    BY <1>14, <2>4, <2>6 DEF FinalFlush, TypeOK, Locked
<1>15. ASSUME NEW d \in Datasets, FinalFlushFail(d) PROVE TypeOK'
  <2>1. run' \in [Datasets -> Run] /\ Locked'
    BY <1>15, AbandonedType, LockedStep DEF FinalFlushFail, At, Copying
  <2> QED
    BY <1>15, <2>1 DEF FinalFlushFail, TypeOK, Locked
<1>16. ASSUME NEW d \in Datasets, Swap(d) PROVE TypeOK'
  <2>1. run' \in [Datasets -> Run] /\ Locked'
    BY <1>16, LockedGoto DEF Swap, At, Copying
  <2>2. reload[ReloadName(d)] \in Tables
    BY <1>16, <1>a DEF Swap, TypeOK
  <2> QED
    BY <1>16, <2>1, <2>2 DEF Swap, TypeOK, Locked
<1>17. ASSUME NEW d \in Datasets, SwapAbandoned(d) PROVE TypeOK'
  <2>1. run' \in [Datasets -> Run] /\ Locked'
    BY <1>17, AbandonedType, LockedStep DEF SwapAbandoned, At, Copying
  <2> QED
    BY <1>17, <2>1 DEF SwapAbandoned, TypeOK, Locked
<1>18. ASSUME NEW d \in Datasets, Close(d) PROVE TypeOK'
  <2> DEFINE pc == IF At(d, "closing") THEN "advance" ELSE "failed"
             r == [run[d] EXCEPT !.pc = pc]
  <2>1. pc \in {"advance", "failed"}
    OBVIOUS
  <2>2. Becomes(d, r) /\ run[d].pc \in {"closing", "unwinding"}
    BY <1>18 DEF Close, Goto
  <2> HIDE DEF pc
  <2>3. r \in Run /\ r.pc = pc
    BY <2>1, GotoType
  <2> HIDE DEF r
  <2>4. /\ run' \in [Datasets -> Run]
        /\ run'[d].pc = pc
        /\ \A e \in Datasets : e # d => run'[e] = run[e]
    BY <2>2, <2>3, BecomesType
  <2>5. Locked'
    BY <1>18, <1>b, <2>1, <2>2, <2>4 DEF Close, Locked, At, Copying
  <2> QED
    BY <1>18, <2>4, <2>5 DEF Close, TypeOK, Locked
<1>19. ASSUME NEW d \in Datasets, AdvanceWatermark(d) PROVE TypeOK'
  <2>1. run' \in [Datasets -> Run] /\ Locked'
    BY <1>19, LockedGoto DEF AdvanceWatermark, At, Copying
  <2>2. [state[d] EXCEPT !.last_watermark = run[d].maxwm] \in SyncState
    BY <1>a DEF SyncState, Run
  <2>3. state' \in [Datasets -> SyncState]
    BY <1>19, <2>2 DEF AdvanceWatermark, SetState, TypeOK
  <2>4. missed' \in [Datasets -> SUBSET Ids]
    BY <1>19 DEF AdvanceWatermark, TypeOK
  <2> QED
    BY <1>19, <2>1, <2>3, <2>4 DEF AdvanceWatermark, TypeOK, Locked
<1>20. ASSUME NEW d \in Datasets, RecordOk(d) PROVE TypeOK'
  <2>1. run' \in [Datasets -> Run] /\ Locked'
    BY <1>20, LockedGoto DEF RecordOk, At, Copying
  <2>2. [state[d] EXCEPT !.last_status = "ok", !.rows_synced = run[d].total]
          \in SyncState
    BY <1>a DEF SyncState, Run
  <2> QED
    BY <1>20, <2>1, <2>2 DEF RecordOk, SetState, TypeOK, Locked
<1>21. ASSUME NEW d \in Datasets, AppendOk(d) PROVE TypeOK'
  <2>1. run' \in [Datasets -> Run] /\ Locked'
    BY <1>21, LockedGoto DEF AppendOk, At, Copying
  <2>2. Append(history[d], "ok") \in Seq({"ok", "error"})
    BY DEF TypeOK
  <2> QED
    BY <1>21, <2>1, <2>2 DEF AppendOk, TypeOK, Locked
<1>22. ASSUME NEW d \in Datasets, RefreshDerived(d) PROVE TypeOK'
  <2>1. run' \in [Datasets -> Run] /\ Locked'
    BY <1>22, LockedGoto DEF RefreshDerived, At, Copying
  <2> QED
    BY <1>22, <2>1 DEF RefreshDerived, TypeOK, Locked
<1>23. ASSUME NEW d \in Datasets, StepFails(d) PROVE TypeOK'
  <2> DEFINE r == [run[d] EXCEPT !.pc = "failed", !.saved = 0]
  <2>1. r \in Run /\ r.pc = "failed"
    BY <1>a DEF Run
  <2>2. Becomes(d, r)
    BY <1>23 DEF StepFails
  <2> HIDE DEF r
  <2>3. run' \in [Datasets -> Run] /\ Locked'
    BY <1>23, <2>1, <2>2, LockedStep DEF StepFails, Copying
  <2> QED
    BY <1>23, <2>3 DEF StepFails, TypeOK, Locked
<1>24. ASSUME NEW d \in Datasets, RecordError(d) PROVE TypeOK'
  <2>1. run' \in [Datasets -> Run] /\ Locked'
    BY <1>24, LockedGoto DEF RecordError, At, Copying
  <2>2. [state[d] EXCEPT !.last_status = "error", !.rows_synced = run[d].saved]
          \in SyncState
    BY <1>a DEF SyncState, Run
  <2> QED
    BY <1>24, <2>1, <2>2 DEF RecordError, SetState, TypeOK, Locked
<1>25. ASSUME NEW d \in Datasets, AppendError(d) PROVE TypeOK'
  <2>1. run' \in [Datasets -> Run] /\ Locked'
    BY <1>25, LockedGoto DEF AppendError, At, Copying
  <2>2. Append(history[d], "error") \in Seq({"ok", "error"})
    BY DEF TypeOK
  <2> QED
    BY <1>25, <2>1, <2>2 DEF AppendError, TypeOK, Locked
<1>26. ASSUME NEW d \in Datasets, RecordingFails(d) PROVE TypeOK'
  <2>1. run' \in [Datasets -> Run] /\ Locked'
    BY <1>26, LockedGoto DEF RecordingFails, Copying
  <2> QED
    BY <1>26, <2>1 DEF RecordingFails, TypeOK, Locked
<1>27. ASSUME NEW d \in Datasets, Release(d) PROVE TypeOK'
  <2>1. /\ run' \in [Datasets -> Run]
        /\ run'[d].pc = "idle"
        /\ \A e \in Datasets : e # d => run'[e] = run[e]
    BY <1>27, IdleRunType, BecomesType DEF Release
  <2>2. Locked'
    BY <1>27, <1>b, <2>1 DEF Release, Locked, At, Copying
  <2> QED
    BY <1>27, <2>1, <2>2 DEF Release, TypeOK, Locked
<1>28. ASSUME NEW d \in Datasets, CancelSync(d) PROVE TypeOK'
  <2> DEFINE r == [run[d] EXCEPT !.cancelled = TRUE]
  <2>1. r \in Run /\ r.pc = run[d].pc
    BY <1>a DEF Run
  <2>2. Becomes(d, r) /\ run[d].pc = "streaming"
    BY <1>28 DEF CancelSync, At
  <2> HIDE DEF r
  <2>3. run' \in [Datasets -> Run] /\ Locked'
    BY <1>28, <2>1, <2>2, LockedStep DEF CancelSync
  <2> QED
    BY <1>28, <2>3 DEF CancelSync, TypeOK, Locked
<1>29. ASSUME NEW s \in stray, StrayCommit(s) PROVE TypeOK'
  <2>1. s.ds \in Datasets /\ s.kind \in Kinds /\ s.rows \in Tables
    BY DEF TypeOK, Stray
  <2>2. /\ target' \in [Datasets -> Tables]
        /\ reload' \in [ReloadNames -> Tables \cup {NoTable}]
        /\ dirty' \subseteq Datasets
    BY <1>29, <2>1, LandType DEF StrayCommit
  <2>3. strayed' \subseteq Datasets
    BY <1>29, <2>1 DEF StrayCommit, TypeOK
  <2> QED
    BY <1>29, <2>1, <2>2, <2>3 DEF StrayCommit, TypeOK, At
<1>30. ASSUME NEW s \in stray, StrayFail(s) PROVE TypeOK'
  BY <1>30 DEF StrayFail, TypeOK, At
<1>31. ASSUME Crash PROVE TypeOK'
  <2>1. /\ run' \in [Datasets -> Run]
        /\ \A e \in Datasets : run'[e].pc = "idle"
    BY <1>31, IdleRunType DEF Crash
  <2> QED
    BY <1>31, <2>1 DEF Crash, TypeOK, At, Copying
<1>32. ASSUME UNCHANGED vars PROVE TypeOK'
  BY <1>32 DEF vars, TypeOK, At
<1> QED
  BY <1>1, <1>2, <1>3, <1>4, <1>5, <1>6, <1>7, <1>8, <1>9, <1>10, <1>11,
     <1>12, <1>13, <1>14, <1>15, <1>16, <1>17, <1>18, <1>19, <1>20, <1>21,
     <1>22, <1>23, <1>24, <1>25, <1>26, <1>27, <1>28, <1>29, <1>30, <1>31,
     <1>32
  DEF Next, RunStep, Pull

\* Every variable keeps its type, and the lock and the map of requests agree
\* with what is under way.
THEOREM TypeCorrect == Spec => []TypeOK
BY TypeInit, TypeNext, PTL DEF Spec

-----------------------------------------------------------------------------
(* Soundness: the inductive invariant *)

\* The locals of a run have their types, and EXCEPT changes what it names.
LEMMA LocalsType ==
  ASSUME TypeOK, NEW d \in Datasets
  PROVE  /\ run[d] \in Run /\ source[d] \in Tables /\ target[d] \in Tables
         /\ Watermark(d) \in Nat /\ Watermark(d) \in Stamps
         /\ run[d].since \in Nat /\ run[d].maxwm \in Nat
         /\ clock \in Versions
         /\ ReloadName(d) \in ReloadNames
         /\ ReloadOf(d) \in Tables \cup {NoTable}
         /\ fresh[d] \subseteq Ids /\ missed[d] \subseteq Ids
<1>1. run[d] \in Run /\ state[d] \in SyncState
  BY DEF TypeOK
<1>2. run[d].since \in Nat /\ run[d].maxwm \in Nat
  BY <1>1, StampsType DEF Run
<1>3. Watermark(d) \in Nat /\ Watermark(d) \in Stamps
  BY <1>1, StampsType DEF Watermark, SyncState
<1> QED
  BY <1>1, <1>2, <1>3 DEF TypeOK, ReloadOf, ReloadNames

\* Versions are numbers, wherever they are held.
LEMMA NumbersType ==
  ASSUME TypeOK, NEW d \in Datasets, NEW i \in Ids
  PROVE  /\ source[d][i] \in Nat /\ target[d][i] \in Nat
         /\ source[d][i] \in Versions
         /\ run[d].snap[i] \in Nat /\ run[d].snap[i] \in Versions
         /\ clock \in Nat /\ clock \in Versions
         /\ StampOf(source[d][i]) \in Nat /\ StampOf(clock) \in Nat
BY LocalsType, StampType DEF Run, Tables, Versions

LEMMA GotoPc ==
  ASSUME TypeOK, NEW d \in Datasets, NEW pc \in Pcs, Goto(d, pc)
  PROVE  run'[d] = [run[d] EXCEPT !.pc = pc] /\ run'[d].pc = pc
<1> DEFINE r == [run[d] EXCEPT !.pc = pc]
<1>1. Becomes(d, r)
  BY DEF Goto
<1>2. r \in Run /\ r.pc = pc
  BY GotoType
<1>3. run'[d] = r
  <2> HIDE DEF r
  <2> QED
    BY <1>1, <1>2, BecomesType
<1>4. run'[d].pc = pc
  <2> HIDE DEF r
  <2> QED
    BY <1>2, <1>3
<1> QED
  BY <1>3, <1>4

LEMMA SetStateKeeps ==
  ASSUME TypeOK, NEW d \in Datasets, NEW s, SetState(d, s),
         s.last_watermark = state[d].last_watermark
  PROVE  Watermark(d)' = Watermark(d)
BY DEF SetState, Watermark, TypeOK

\* What is said of the tables and the watermark alone.
Settled(d) == Behind(d) /\ CoveredAt(d) /\ FreshIsMissed(d)

\* What a step that changes nothing Settled(d) speaks of leaves unchanged.
Unsettled(d) ==
  /\ source'[d] = source[d] /\ clock' = clock /\ target'[d] = target[d]
  /\ Watermark(d)' = Watermark(d)
  /\ fresh'[d] = fresh[d] /\ missed'[d] = missed[d]

LEMMA SettledKept ==
  ASSUME NEW d \in Datasets, Settled(d), Unsettled(d)
  PROVE  Settled(d)'
BY DEF Settled, Unsettled, Behind, CoveredAt, FreshIsMissed, Passed

LEMMA SoundSettled ==
  ASSUME NEW d \in Datasets, Sound(d)
  PROVE  Settled(d)
BY DEF Sound, Settled

LEMMA SoundInit == Init => AllSound
<1> SUFFICES ASSUME Init, NEW d \in Datasets PROVE Sound(d)
  BY DEF AllSound
<1>1. /\ run[d] = IdleRun /\ source[d] = EmptyTable /\ target[d] = EmptyTable
      /\ clock = 0 /\ Watermark(d) = 0 /\ fresh[d] = {}
  BY DEF Init, Watermark
<1>2. run[d].pc = "idle"
  BY <1>1, IdleRunType
<1>3. Behind(d)
  BY <1>1, StampsType, StampAssumption DEF Behind, EmptyTable
<1>4. CoveredAt(d) /\ FreshIsMissed(d)
  BY <1>1 DEF CoveredAt, FreshIsMissed, Passed, EmptyTable
<1> QED
  BY <1>2, <1>3, <1>4
  DEF Sound, Prepared, ReadsAge, NothingLost, ReloadIsPart, Emptied, Alone,
      Reloading, CompleteAt, BeforeStream, AfterCopy, Following, Pulling

\* What a step that changes nothing Sound(d) speaks of leaves unchanged.
Untouched(d) ==
  /\ Unsettled(d)
  /\ run'[d] = run[d]
  /\ Reloading(d) => ReloadOf(d)' = ReloadOf(d)

LEMMA SoundUntouched ==
  ASSUME NEW d \in Datasets, Sound(d), Untouched(d), Alone(d)'
  PROVE  Sound(d)'
<1> USE DEF Untouched, Unsettled
<1>1. Settled(d)'
  BY SoundSettled, SettledKept
<1>2. Prepared(d)'
  BY DEF Sound, Prepared, Reloading
<1>3. ReadsAge(d)'
  BY DEF Sound, ReadsAge
<1>4. run[d].pc \in Pulling => Landed(d)' = Landed(d)
  BY DEF Landed, Pulling, Reloading
<1>5. NothingLost(d)'
  BY <1>4 DEF Sound, NothingLost
<1>6. ReloadIsPart(d)' /\ Emptied(d)' /\ CompleteAt(d)'
  BY DEF Sound, ReloadIsPart, Emptied, CompleteAt, Reloading, Pulling
<1> QED
  BY <1>1, <1>2, <1>3, <1>5, <1>6 DEF Sound, Settled

\* A run that has given up, or is over, has nothing to answer for but the
\* table and the watermark.
Quiet == {"idle", "unwinding", "failed", "historyErr", "release"}

LEMMA SoundQuiet ==
  ASSUME NEW d \in Datasets, Sound(d), run'[d].pc \in Quiet, Unsettled(d),
         Alone(d)'
  PROVE  Sound(d)'
<1>1. Settled(d)'
  BY SoundSettled, SettledKept
<1> QED
  BY <1>1
  DEF Sound, Settled, Quiet, Prepared, ReadsAge, NothingLost, ReloadIsPart,
      Emptied, CompleteAt, BeforeStream, AfterCopy, Following, Pulling

\* No step of one pipe changes the rows or the run of another.
LEMMA OthersKept ==
  ASSUME TypeOK, NEW d \in Datasets, NEW e \in Datasets, e # d,
         \/ \E kind \in Kinds : StartRun(d, kind)
         \/ RunStep(d) \/ CancelSync(d)
  PROVE  Unsettled(e) /\ run'[e] = run[e]
<1>a. ASSUME NEW r, Becomes(d, r) PROVE run'[e] = run[e]
  BY <1>a DEF Becomes, TypeOK
<1>b. ASSUME NEW pc, Goto(d, pc) PROVE run'[e] = run[e]
  BY <1>a, <1>b DEF Goto
<1>c. ASSUME NEW kind, NEW rows, Land(d, kind, rows)
      PROVE  target'[e] = target[e]
  BY <1>c DEF Land, TypeOK
<1> USE <1>a, <1>b DEF Unsettled, Watermark, TypeOK
<1>2. CASE \E kind \in Kinds : StartRun(d, kind)
  BY <1>2 DEF StartRun
<1>3. CASE CancelSync(d)
  BY <1>3 DEF CancelSync
<1>4. CASE Pull(d)
  <2>1. CASE FlushCommit(d)
    BY <2>1, <1>c DEF FlushCommit
  <2>2. CASE ~FlushCommit(d)
    BY <1>4, <2>2 DEF Pull, DeliverRow, ScanRow, FlushFail, StreamError,
         StreamDone
  <2> QED
    BY <2>1, <2>2
<1>5. CASE FinalFlush(d)
  <2>1. target'[e] = target[e]
    BY <1>5, <1>c DEF FinalFlush
  <2> QED
    BY <1>5, <2>1 DEF FinalFlush
<1>6. CASE FinalFlushFail(d) \/ SwapAbandoned(d)
  BY <1>6 DEF FinalFlushFail, SwapAbandoned
<1>7. CASE Swap(d)
  BY <1>7 DEF Swap
<1>8. CASE Close(d)
  BY <1>8 DEF Close
<1>9. CASE RecordRunning(d)
  BY <1>9 DEF RecordRunning, SetState
<1>10. CASE ReadWatermark(d) \/ OpenStream(d) \/ PrepareReload(d)
  BY <1>10 DEF ReadWatermark, OpenStream, PrepareReload
<1>11. CASE AdvanceWatermark(d)
  BY <1>11 DEF AdvanceWatermark, SetState
<1>12. CASE RecordOk(d) \/ RecordError(d)
  BY <1>12 DEF RecordOk, RecordError, SetState
<1>13. CASE AppendOk(d) \/ AppendError(d)
  BY <1>13 DEF AppendOk, AppendError
<1>14. CASE RefreshDerived(d) \/ RecordingFails(d)
  BY <1>14 DEF RefreshDerived, RecordingFails
<1>15. CASE StepFails(d) \/ Release(d)
  BY <1>15 DEF StepFails, Release
<1> QED
  BY <1>2, <1>3, <1>4, <1>5, <1>6, <1>7, <1>8, <1>9, <1>10, <1>11, <1>12,
     <1>13, <1>14, <1>15
  DEF RunStep

\* A run gets a reload table only by preparing it.
LEMMA ReloadingStep ==
  ASSUME TypeOK, NEW d \in Datasets, RunStep(d) \/ CancelSync(d),
         Reloading(d)'
  PROVE  Reloading(d) \/ PrepareReload(d)
<1> SUFFICES ASSUME ~PrepareReload(d) PROVE Reloading(d)
  OBVIOUS
<1>a. run[d] \in Run
  BY DEF TypeOK
<1>b. ASSUME NEW r \in Run, Becomes(d, r) PROVE run'[d] = r
  BY <1>b, BecomesType
<1> USE DEF Reloading, At
<1>1. CASE (\E i \in Ids : DeliverRow(d, i) \/ ScanRow(d, i)) \/ FlushCommit(d)
  <2>1. run[d].pc = "streaming" /\ run'[d].kind = run[d].kind
    <3>1. CASE \E i \in Ids : DeliverRow(d, i)
      <4>1. PICK i \in Ids : DeliverRow(d, i)
        BY <3>1
      <4>2. Buffered(d, i).kind = run[d].kind
        BY <1>a DEF Buffered, Run
      <4> QED
        BY <4>1, <4>2, <1>b, BufferedType DEF DeliverRow
    <3>2. CASE \E i \in Ids : ScanRow(d, i)
      <4>1. PICK i \in Ids : ScanRow(d, i)
        BY <3>2
      <4>2. Scanned(d, i).kind = run[d].kind
        BY <1>a DEF Scanned, Run
      <4>3. Becomes(d, Scanned(d, i))
        BY <4>1 DEF ScanRow, Scanned
      <4> QED
        BY <4>1, <4>2, <4>3, <1>b, ScannedType DEF ScanRow
    <3>3. CASE FlushCommit(d)
      <4>1. run'[d].kind = run[d].kind
        BY <3>3, <1>a DEF FlushCommit, Becomes, Run, TypeOK
      <4> QED
        BY <3>3, <4>1 DEF FlushCommit
    <3> QED
      BY <1>1, <3>1, <3>2, <3>3
  <2> QED
    BY <2>1
<1>2. CASE FlushFail(d) \/ StreamError(d) \/ FinalFlushFail(d) \/ SwapAbandoned(d)
  <2>1. run'[d] = Abandoned(d)
    BY <1>2, <1>b, AbandonedType
    DEF FlushFail, StreamError, FinalFlushFail, SwapAbandoned
  <2>2. Abandoned(d).kind = run[d].kind
    BY <1>a DEF Abandoned, Run
  <2> QED
    BY <1>2, <2>1, <2>2
    DEF FlushFail, StreamError, FinalFlushFail, SwapAbandoned
<1>3. CASE OpenStream(d) \/ FinalFlush(d) \/ CancelSync(d)
  <2>1. run'[d].kind = run[d].kind
    <3>1. CASE OpenStream(d)
      BY <3>1, <1>a DEF OpenStream, Becomes, Run, TypeOK
    <3>2. CASE FinalFlush(d)
      BY <3>2, <1>a DEF FinalFlush, Becomes, Run, TypeOK
    <3>3. CASE CancelSync(d)
      BY <3>3, <1>a DEF CancelSync, Becomes, Run, TypeOK
    <3> QED
      BY <1>3, <3>1, <3>2, <3>3
  <2> QED
    BY <1>3, <2>1 DEF OpenStream, FinalFlush, CancelSync
<1>4. CASE StreamDone(d) \/ Swap(d) \/ Close(d)
  <2>1. run'[d].kind = run[d].kind
    BY <1>4, <1>a DEF StreamDone, Swap, Close, Goto, Becomes, Run, TypeOK
  <2> QED
    BY <1>4, <2>1 DEF StreamDone, Swap, Close
<1>5. CASE ReadWatermark(d)
  <2>1. /\ run'[d].kind = run[d].kind
        /\ run'[d].pc = IF run[d].kind = "truncate" THEN "prepare" ELSE "open"
    BY <1>5, <1>a DEF ReadWatermark, Becomes, Run, TypeOK
  <2> QED
    BY <2>1
<1>6. CASE \/ RecordRunning(d) \/ AdvanceWatermark(d) \/ RecordOk(d)
           \/ AppendOk(d) \/ RefreshDerived(d) \/ StepFails(d) \/ RecordError(d)
           \/ AppendError(d) \/ RecordingFails(d) \/ Release(d)
  <2>1. run'[d].pc \in {"since", "recordOk", "historyOk", "refresh", "release",
                        "failed", "historyErr", "idle"}
    <3>1. CASE RecordRunning(d) \/ RecordError(d)
      BY <3>1, GotoPc DEF RecordRunning, RecordError, Pcs, BeforeStream, Recording
    <3>2. CASE AdvanceWatermark(d) \/ RecordOk(d) \/ AppendOk(d)
      BY <3>2, GotoPc DEF AdvanceWatermark, RecordOk, AppendOk, Pcs, AfterCopy
    <3>3. CASE RefreshDerived(d) \/ AppendError(d) \/ RecordingFails(d)
      BY <3>3, GotoPc DEF RefreshDerived, AppendError, RecordingFails, Pcs
    <3>4. CASE StepFails(d)
      BY <3>4, <1>a DEF StepFails, Becomes, Run, TypeOK
    <3>5. CASE Release(d)
      BY <3>5, <1>b, IdleRunType DEF Release
    <3> QED
      BY <1>6, <3>1, <3>2, <3>3, <3>4, <3>5
  <2> QED
    BY <2>1
<1> QED
  BY <1>1, <1>2, <1>3, <1>4, <1>5, <1>6 DEF RunStep, Pull

\* A pipe stays alone with its reload table until another run has touched it.
LEMMA AloneStep ==
  ASSUME TypeOK, [Next]_vars, NEW d \in Datasets, d \notin strayed', Alone(d)
  PROVE  Alone(d)'
<1> SUFFICES ASSUME Reloading(d)', NEW e \in Datasets \ {d},
                    ReloadName(e) = ReloadName(d), Reloading(e)'
             PROVE  FALSE
  BY DEF Alone, Sharing
<1>1. CASE run' = run
  BY <1>1 DEF Alone, Sharing, Reloading
<1>2. ASSUME NEW f \in Datasets,
             \/ \E kind \in Kinds : StartRun(f, kind)
             \/ RunStep(f) \/ CancelSync(f)
      PROVE  FALSE
  <2>1. ASSUME NEW g \in Datasets, g # f PROVE Reloading(g)' <=> Reloading(g)
    BY <1>2, <2>1, OthersKept DEF Reloading
  <2>2. CASE \E kind \in Kinds : StartRun(f, kind)
    <3>1. run'[f].pc = "preflight"
      BY <2>2, IdleRunType DEF StartRun, Becomes, TypeOK, Run
    <3>2. f # d /\ f # e
      BY <3>1 DEF Reloading
    <3> QED
      BY <2>1, <3>2 DEF Alone, Sharing
  <2>3. CASE RunStep(f) \/ CancelSync(f)
    <3>1. Reloading(f)' => Reloading(f) \/ PrepareReload(f)
      BY <2>3, ReloadingStep
    <3>2. CASE f = d
      <4>1. Reloading(e)
        BY <2>1, <3>2
      <4>2. PrepareReload(d)
        BY <3>1, <3>2, <4>1 DEF Alone, Sharing
      <4> QED
        BY <4>1, <4>2 DEF PrepareReload, Sharing
    <3>3. CASE f = e
      <4>1. Reloading(d)
        BY <2>1, <3>3
      <4>2. PrepareReload(e)
        BY <3>1, <3>3, <4>1 DEF Alone, Sharing
      <4> QED
        BY <4>1, <4>2 DEF PrepareReload, Sharing
    <3>4. CASE f # d /\ f # e
      BY <2>1, <3>4 DEF Alone, Sharing
    <3> QED
      BY <3>2, <3>3, <3>4
  <2> QED
    BY <1>2, <2>2, <2>3
<1>3. CASE Crash
  <2>1. run'[d].pc = "idle"
    BY <1>3, IdleRunType DEF Crash
  <2> QED
    BY <2>1 DEF Reloading
<1>4. CASE \/ \E f \in Datasets, i \in Ids : SourceWrite(f, i) \/ SourceDelete(f, i)
           \/ \E s \in stray : StrayCommit(s) \/ StrayFail(s)
           \/ UNCHANGED vars
  BY <1>1, <1>4 DEF SourceWrite, SourceDelete, StrayCommit, StrayFail, vars
<1> QED
  BY <1>2, <1>3, <1>4 DEF Next

\* No step of another pipe touches one that is alone.
LEMMA OthersUntouched ==
  ASSUME TypeOK, NEW d \in Datasets, NEW e \in Datasets, e # d,
         \/ \E kind \in Kinds : StartRun(d, kind)
         \/ RunStep(d) \/ CancelSync(d),
         e \notin strayed', Alone(e)
  PROVE  Untouched(e)
<1>1. Unsettled(e) /\ run'[e] = run[e]
  BY OthersKept
<1> SUFFICES ASSUME Reloading(e) PROVE ReloadOf(e)' = ReloadOf(e)
  BY <1>1 DEF Untouched
<1>2. /\ reload \in [ReloadNames -> Tables \cup {NoTable}]
      /\ ReloadName(d) \in ReloadNames /\ ReloadName(e) \in ReloadNames
  BY DEF TypeOK, ReloadNames
<1>3. Reloading(d) => ReloadName(e) # ReloadName(d)
  BY DEF Alone, Sharing
<1>4. ASSUME NEW rows, Land(d, run[d].kind, rows),
             run[d].pc \in {"streaming", "draining"}
      PROVE  ReloadOf(e)' = ReloadOf(e)
  BY <1>2, <1>3, <1>4 DEF Land, ReloadOf, Reloading
<1>5. CASE UNCHANGED reload
  BY <1>5 DEF ReloadOf
<1>6. CASE FlushCommit(d)
  BY <1>4, <1>6 DEF FlushCommit, At
<1>7. CASE FinalFlush(d)
  BY <1>4, <1>5, <1>7 DEF FinalFlush, At
<1>8. CASE Close(d)
  BY <1>2, <1>3, <1>5, <1>8 DEF Close, ReloadOf, Reloading
<1>9. CASE PrepareReload(d)
  <2>1. ReloadName(e) # ReloadName(d)
    BY <1>9 DEF PrepareReload, Sharing
  <2> QED
    BY <1>2, <1>9, <2>1 DEF PrepareReload, ReloadOf
<1>10. CASE /\ ~FlushCommit(d) /\ ~FinalFlush(d) /\ ~Close(d)
            /\ ~PrepareReload(d)
  <2>1. UNCHANGED reload
    BY <1>10
    DEF StartRun, CancelSync, RunStep, Pull, RecordRunning, ReadWatermark,
        OpenStream, DeliverRow, ScanRow, FlushFail, StreamError, StreamDone,
        FinalFlushFail, Swap, SwapAbandoned, AdvanceWatermark, RecordOk,
        AppendOk, RefreshDerived, StepFails, RecordError, AppendError,
        RecordingFails, Release
  <2> QED
    BY <1>5, <2>1
<1> QED
  BY <1>6, <1>7, <1>8, <1>9, <1>10

\* The steps that end, or give up, a run.
LEMMA QuietSteps ==
  ASSUME TypeOK, NEW d \in Datasets, Sound(d), Alone(d)',
         \/ FlushFail(d) \/ StreamError(d) \/ FinalFlushFail(d)
         \/ SwapAbandoned(d) \/ StepFails(d) \/ RefreshDerived(d)
         \/ RecordError(d) \/ AppendError(d) \/ RecordingFails(d) \/ Release(d)
  PROVE  Sound(d)'
<1> USE DEF Quiet, Unsettled
<1>a. run[d] \in Run /\ state[d] \in SyncState
  BY LocalsType DEF TypeOK
<1>1. CASE FlushFail(d) \/ StreamError(d) \/ FinalFlushFail(d) \/ SwapAbandoned(d)
  <2>1. Becomes(d, Abandoned(d))
    BY <1>1 DEF FlushFail, StreamError, FinalFlushFail, SwapAbandoned
  <2>2. run'[d].pc = "unwinding"
    BY <2>1, AbandonedType, BecomesType
  <2> QED
    BY <1>1, <2>2, SoundQuiet
    DEF FlushFail, StreamError, FinalFlushFail, SwapAbandoned, Watermark
<1>2. CASE StepFails(d)
  <2> DEFINE r == [run[d] EXCEPT !.pc = "failed", !.saved = 0]
  <2>1. r \in Run /\ r.pc = "failed"
    BY <1>a DEF Run, Pcs, Recording
  <2>2. Becomes(d, r)
    BY <1>2 DEF StepFails
  <2> HIDE DEF r
  <2>3. run'[d].pc = "failed"
    BY <2>1, <2>2, BecomesType
  <2> QED
    BY <1>2, <2>3, SoundQuiet DEF StepFails, Watermark
<1>3. CASE RefreshDerived(d) \/ AppendError(d) \/ RecordingFails(d)
  <2>1. Goto(d, "release")
    BY <1>3 DEF RefreshDerived, AppendError, RecordingFails
  <2>2. run'[d].pc = "release"
    BY <2>1, GotoPc DEF Pcs
  <2> QED
    BY <1>3, <2>2, SoundQuiet
    DEF RefreshDerived, AppendError, RecordingFails, Watermark
<1>4. CASE RecordError(d)
  <2>1. run'[d].pc = "historyErr"
    BY <1>4, GotoPc DEF RecordError, Pcs, Recording
  <2>2. Watermark(d)' = Watermark(d)
    BY <1>4, <1>a, SetStateKeeps DEF RecordError, SyncState
  <2> QED
    BY <1>4, <2>1, <2>2, SoundQuiet DEF RecordError
<1>5. CASE Release(d)
  <2>1. run'[d].pc = "idle"
    BY <1>5, IdleRunType, BecomesType DEF Release
  <2> QED
    BY <1>5, <2>1, SoundQuiet DEF Release, Watermark
<1> QED
  BY <1>1, <1>2, <1>3, <1>4, <1>5

\* A source row is written, and newer than all that a run or a table holds, or
\* deleted: it is fresh, and missed if the watermark has reached its stamp.
LEMMA SoundSourceStep ==
  ASSUME TypeOK, NEW e \in Datasets, NEW i \in Ids,
         SourceWrite(e, i) \/ SourceDelete(e, i),
         NEW d \in Datasets, Sound(d), Alone(d)'
  PROVE  Sound(d)'
<1>1. /\ clock \in Nat /\ clock \in Versions /\ clock' \in Versions
      /\ clock' \in Nat /\ clock <= clock'
      /\ SourceWrite(e, i) => clock' = clock + 1
  BY ConstantsAssumption DEF SourceWrite, SourceDelete, TypeOK, Versions
<1>2. /\ StampOf(clock) \in Nat /\ StampOf(clock') \in Nat
      /\ StampOf(clock) <= StampOf(clock')
  BY <1>1, StampType, StampAssumption
<1>3. /\ UNCHANGED <<target, reload, state, run>>
      /\ Watermark(d)' = Watermark(d) /\ ReloadOf(d)' = ReloadOf(d)
  BY DEF SourceWrite, SourceDelete, Watermark, ReloadOf
<1>4. \A j \in Ids :
        \/ /\ source'[d][j] = source[d][j]
           /\ j \in fresh'[d] <=> j \in fresh[d]
           /\ j \in missed'[d] <=> j \in missed[d]
        \/ /\ j \in fresh'[d]
           /\ source'[d][j] = 0 \/ (source'[d][j] = clock + 1 /\ clock' = clock + 1)
           /\ source'[d][j] # 0 /\ StampOf(source'[d][j]) <= Watermark(d)
                => j \in missed'[d]
  <2> SUFFICES ASSUME NEW j \in Ids
               PROVE  \/ /\ source'[d][j] = source[d][j]
                         /\ j \in fresh'[d] <=> j \in fresh[d]
                         /\ j \in missed'[d] <=> j \in missed[d]
                      \/ /\ j \in fresh'[d]
                         /\ \/ source'[d][j] = 0
                            \/ source'[d][j] = clock + 1 /\ clock' = clock + 1
                         /\ source'[d][j] # 0
                            /\ StampOf(source'[d][j]) <= Watermark(d)
                              => j \in missed'[d]
    OBVIOUS
  <2> USE DEF TypeOK, Tables
  <2>1. CASE d # e
    BY <2>1 DEF SourceWrite, SourceDelete
  <2>2. CASE d = e /\ SourceWrite(e, i)
    BY <2>2 DEF SourceWrite, Watermark
  <2>3. CASE d = e /\ SourceDelete(e, i)
    BY <2>3 DEF SourceDelete
  <2> QED
    BY <2>1, <2>2, <2>3
<1>5. \A j \in Ids : /\ target[d][j] \in Nat /\ source[d][j] \in Nat
                     /\ run[d].snap[j] \in Nat
  BY NumbersType
<1>6. Watermark(d) \in Nat /\ run[d].maxwm \in Nat
  BY LocalsType
<1>7. Behind(d)'
  BY <1>1, <1>2, <1>3, <1>4, <1>5, <1>6 DEF Sound, Behind
<1>8. CoveredAt(d)'
  BY <1>3, <1>4 DEF Sound, CoveredAt, Passed
<1>9. FreshIsMissed(d)'
  <2>1. fresh'[d] \subseteq Ids
    <3>1. fresh' = [fresh EXCEPT ![e] = @ \cup {i}]
      BY DEF SourceWrite, SourceDelete
    <3> QED
      BY <3>1 DEF TypeOK
  <2> QED
    BY <1>3, <1>4, <2>1 DEF Sound, FreshIsMissed, Passed
<1>10. ReadsAge(d)'
  <2> SUFFICES ASSUME run[d].pc \in Following PROVE ReadsAge(d)'
    BY <1>3 DEF ReadsAge
  <2>1. /\ run[d].maxwm <= StampOf(clock)
        /\ \A j \in Ids :
             /\ run[d].snap[j] <= clock
             /\ source[d][j] # 0 => run[d].snap[j] <= source[d][j]
             /\ run[d].snap[j] # 0 => target[d][j] <= run[d].snap[j]
        /\ \A j \in Ids \ (run[d].scan \cup fresh[d]) :
             \/ run[d].snap[j] = source[d][j]
             \/ j \in missed[d] /\ run[d].snap[j] = 0 /\ run[d].kind # "truncate"
    BY DEF Sound, ReadsAge
  <2>2. run[d].maxwm <= StampOf(clock')
    BY <1>2, <1>6, <2>1
  <2>3. \A j \in Ids :
          /\ run[d].snap[j] <= clock'
          /\ source'[d][j] # 0 => run[d].snap[j] <= source'[d][j]
    BY <1>1, <1>4, <1>5, <2>1
  <2>4. \A j \in Ids \ (run[d].scan \cup fresh'[d]) :
             \/ run[d].snap[j] = source'[d][j]
             \/ j \in missed'[d] /\ run[d].snap[j] = 0 /\ run[d].kind # "truncate"
    BY <1>4, <2>1
  <2> QED
    BY <1>3, <2>1, <2>2, <2>3, <2>4 DEF ReadsAge
<1>11. Prepared(d)'
  BY <1>3 DEF Sound, Prepared
<1>12. NothingLost(d)' /\ ReloadIsPart(d)' /\ Emptied(d)' /\ CompleteAt(d)'
  BY <1>3 DEF Sound, NothingLost, ReloadIsPart, Emptied, CompleteAt, Landed
<1> QED
  BY <1>7, <1>8, <1>9, <1>10, <1>11, <1>12 DEF Sound

-----------------------------------------------------------------------------
(* The steps of syncDataset up to the source query *)

LEMMA SoundStart ==
  ASSUME TypeOK, NEW d \in Datasets, Sound(d), Alone(d)',
         (\E kind \in Kinds : StartRun(d, kind)) \/ RecordRunning(d)
  PROVE  Sound(d)'
<1>a. run[d] \in Run /\ state[d] \in SyncState
  BY LocalsType DEF TypeOK
<1>1. /\ run'[d].pc \in {"preflight", "since"}
      /\ run'[d].buffer = EmptyTable /\ run'[d].flight = EmptyTable
  <2>1. CASE \E kind \in Kinds : StartRun(d, kind)
    <3>1. PICK kind \in Kinds : StartRun(d, kind)
      BY <2>1
    <3> DEFINE r == [IdleRun EXCEPT !.pc = "preflight", !.kind = kind]
    <3>2. /\ r \in Run /\ r.pc = "preflight"
          /\ r.buffer = EmptyTable /\ r.flight = EmptyTable
      BY IdleRunType DEF Run, IdleRun, Pcs, BeforeStream
    <3>3. Becomes(d, r)
      BY <3>1 DEF StartRun
    <3> HIDE DEF r
    <3> QED
      BY <3>2, <3>3, BecomesType
  <2>2. CASE RecordRunning(d)
    <3> DEFINE r == [run[d] EXCEPT !.pc = "since"]
    <3>1. Becomes(d, r) /\ run[d].pc = "preflight"
      BY <2>2 DEF RecordRunning, Goto, At
    <3>2. r \in Run /\ r.pc = "since" /\ r.buffer = run[d].buffer
          /\ r.flight = run[d].flight
      BY <1>a DEF Run, Pcs, BeforeStream
    <3> HIDE DEF r
    <3> QED
      BY <3>1, <3>2, BecomesType DEF Sound, Prepared, BeforeStream
  <2> QED
    BY <2>1, <2>2
<1>2. Unsettled(d)
  BY <1>a, SetStateKeeps
  DEF StartRun, RecordRunning, Watermark, SyncState, Unsettled
<1>3. Settled(d)'
  BY <1>2, SoundSettled, SettledKept
<1> QED
  BY <1>1, <1>3
  DEF Sound, Settled, Prepared, ReadsAge, NothingLost, ReloadIsPart, Emptied,
      CompleteAt, BeforeStream, AfterCopy, Following, Pulling

LEMMA SoundReadWatermark ==
  ASSUME TypeOK, NEW d \in Datasets, Sound(d), Alone(d)', ReadWatermark(d)
  PROVE  Sound(d)'
<1> DEFINE since == IF run[d].kind = "incremental"
                    THEN state[d].last_watermark ELSE 0
           pc == IF run[d].kind = "truncate" THEN "prepare" ELSE "open"
           r == [run[d] EXCEPT !.pc = pc, !.since = since, !.maxwm = since]
<1>a. run[d] \in Run /\ Watermark(d) \in Nat /\ Watermark(d) \in Stamps
  BY LocalsType
<1>1. since \in Stamps /\ since <= Watermark(d)
  BY <1>a, StampsType DEF Watermark
<1>2. /\ pc \in {"prepare", "open"}
      /\ pc = "prepare" <=> run[d].kind = "truncate"
      /\ run[d].kind = "truncate" => since = 0
  OBVIOUS
<1>3. Becomes(d, r) /\ run[d].pc = "since"
  BY DEF ReadWatermark, At
<1> HIDE DEF since, pc
<1>4. /\ r \in Run /\ r.pc = pc /\ r.since = since /\ r.maxwm = since
      /\ r.kind = run[d].kind /\ r.buffer = run[d].buffer
      /\ r.flight = run[d].flight
  BY <1>a, <1>1, <1>2 DEF Run, Pcs, BeforeStream
<1> HIDE DEF r
<1>5. run'[d] = r
  BY <1>3, <1>4, BecomesType
<1>6. Unsettled(d)
  BY DEF ReadWatermark, Unsettled, Watermark
<1>7. Settled(d)'
  BY <1>6, SoundSettled, SettledKept
<1>8. Prepared(d)'
  BY <1>1, <1>2, <1>3, <1>4, <1>5, <1>6
  DEF Sound, Prepared, Unsettled, BeforeStream
<1> QED
  BY <1>2, <1>4, <1>5, <1>7, <1>8
  DEF Sound, Settled, ReadsAge, NothingLost, ReloadIsPart, Emptied,
      CompleteAt, AfterCopy, Following, Pulling

LEMMA SoundPrepareReload ==
  ASSUME TypeOK, NEW d \in Datasets, Sound(d), Alone(d)', PrepareReload(d)
  PROVE  Sound(d)'
<1> DEFINE r == [run[d] EXCEPT !.pc = "open"]
<1>a. run[d] \in Run /\ ReloadName(d) \in ReloadNames
  BY LocalsType
<1>1. Becomes(d, r) /\ run[d].pc = "prepare"
  BY DEF PrepareReload, Goto, At
<1>2. /\ r \in Run /\ r.pc = "open" /\ r.since = run[d].since
      /\ r.maxwm = run[d].maxwm /\ r.kind = run[d].kind
      /\ r.buffer = run[d].buffer /\ r.flight = run[d].flight
  BY <1>a DEF Run, Pcs, BeforeStream
<1> HIDE DEF r
<1>3. run'[d] = r
  BY <1>1, <1>2, BecomesType
<1>4. Unsettled(d) /\ ReloadOf(d)' = EmptyTable
  BY <1>a DEF PrepareReload, ReloadOf, TypeOK, Unsettled, Watermark
<1>5. Settled(d)'
  BY <1>4, SoundSettled, SettledKept
<1>6. Prepared(d)'
  BY <1>1, <1>2, <1>3, <1>4 DEF Sound, Prepared, Unsettled, BeforeStream
<1> QED
  BY <1>2, <1>3, <1>5, <1>6
  DEF Sound, Settled, ReadsAge, NothingLost, ReloadIsPart, Emptied,
      CompleteAt, AfterCopy, Following, Pulling

LEMMA SoundOpenStream ==
  ASSUME TypeOK, NEW d \in Datasets, Sound(d), Alone(d)', OpenStream(d)
  PROVE  Sound(d)'
<1> DEFINE r == [run[d] EXCEPT !.pc = "streaming", !.snap = EmptyTable,
                               !.scan = Ids, !.wire = EmptyTable]
<1>a. run[d] \in Run /\ source[d] \in Tables /\ target[d] \in Tables
  BY LocalsType
<1>1. Becomes(d, r) /\ run[d].pc = "open"
  BY DEF OpenStream, At
<1>2. /\ r \in Run /\ r.pc = "streaming" /\ r.snap = EmptyTable /\ r.scan = Ids
      /\ r.wire = EmptyTable /\ r.since = run[d].since
      /\ r.maxwm = run[d].maxwm /\ r.kind = run[d].kind
      /\ r.buffer = run[d].buffer /\ r.flight = run[d].flight
  BY <1>a, EmptyTableType DEF Run, Pcs
<1> HIDE DEF r
<1>3. run'[d] = r
  BY <1>1, <1>2, BecomesType
<1>4. Unsettled(d) /\ ReloadOf(d)' = ReloadOf(d)
  BY DEF OpenStream, Unsettled, Watermark, ReloadOf
<1>5. /\ run[d].buffer = EmptyTable /\ run[d].flight = EmptyTable
      /\ run[d].since <= Watermark(d) /\ run[d].maxwm = run[d].since
      /\ run[d].kind = "truncate" =>
           run[d].since = 0 /\ ReloadOf(d) = EmptyTable
  BY <1>1 DEF Sound, Prepared, BeforeStream
<1>6. Settled(d)'
  BY <1>4, SoundSettled, SettledKept
<1>7. \A i \in Ids : EmptyTable[i] = 0
  BY DEF EmptyTable
<1>8. ReadsAge(d)'
  <2>1. /\ Watermark(d) <= StampOf(clock) /\ run[d].since \in Nat
        /\ Watermark(d) \in Nat /\ StampOf(clock) \in Nat /\ clock \in Nat
    BY LocalsType, StampType, ConstantsAssumption DEF Sound, Behind, Versions
  <2>2. run[d].maxwm <= StampOf(clock)
    BY <1>5, <2>1
  <2>3. \A i \in Ids : source[d][i] \in Nat
    BY NumbersType
  <2> QED
    BY <1>2, <1>3, <1>4, <1>7, <2>1, <2>2, <2>3 DEF ReadsAge, Unsettled
<1>9. NothingLost(d)'
  BY <1>2, <1>3, <1>5, <1>7 DEF NothingLost
<1>10. ReloadIsPart(d)'
  BY <1>2, <1>3, <1>4, <1>5, <1>7, EmptyTableType, ConstantsAssumption
  DEF ReloadIsPart
<1>11. Prepared(d)'
  BY <1>2, <1>3, <1>4, <1>5 DEF Prepared, BeforeStream, Unsettled
<1> QED
  BY <1>2, <1>3, <1>6, <1>8, <1>9, <1>10, <1>11
  DEF Sound, Settled, Emptied, CompleteAt, AfterCopy


-----------------------------------------------------------------------------
(* The pull and the end of copy() *)

\* While a run follows its query, rows of the table may become rows it has read:
\* those the watermark has passed are what the table has, or have changed since.
LEMMA TowardSnapshot ==
  ASSUME TypeOK, NEW d \in Datasets, Sound(d), run[d].pc \in Following,
         source'[d] = source[d], clock' = clock, Watermark(d)' = Watermark(d),
         fresh'[d] = fresh[d], missed'[d] = missed[d],
         run'[d].snap = run[d].snap, run'[d].maxwm = run[d].maxwm,
         run'[d].scan = run[d].scan, run'[d].kind = run[d].kind,
         \A i \in Ids :
           \/ target'[d][i] = target[d][i]
           \/ i \notin run[d].scan /\ target'[d][i] = run[d].snap[i]
  PROVE  Settled(d)' /\ ReadsAge(d)'
<1>1. \A i \in Ids : /\ target[d][i] \in Nat /\ source[d][i] \in Nat
                     /\ run[d].snap[i] \in Nat
  BY NumbersType
<1>2. clock \in Nat /\ Watermark(d) <= StampOf(clock)
  BY ConstantsAssumption DEF TypeOK, Versions, Sound, Behind
<1>3. /\ run[d].maxwm <= StampOf(clock)
      /\ \A i \in Ids :
           /\ run[d].snap[i] <= clock
           /\ source[d][i] # 0 => run[d].snap[i] <= source[d][i]
           /\ run[d].snap[i] # 0 => target[d][i] <= run[d].snap[i]
      /\ \A i \in Ids \ (run[d].scan \cup fresh[d]) :
           \/ run[d].snap[i] = source[d][i]
           \/ i \in missed[d] /\ run[d].snap[i] = 0 /\ run[d].kind # "truncate"
  BY DEF Sound, ReadsAge
<1>4. \A i \in Ids :
        /\ source[d][i] <= clock
        /\ target[d][i] <= clock
        /\ source[d][i] # 0 => target[d][i] <= source[d][i]
  BY DEF Sound, Behind
<1>5. Behind(d)'
  BY <1>1, <1>2, <1>3, <1>4 DEF Behind
<1>6. CoveredAt(d)'
  <2> SUFFICES ASSUME NEW i \in Ids \ missed[d], Passed(d, i, Watermark(d))
               PROVE  target'[d][i] = source[d][i]
    BY DEF CoveredAt, Passed
  <2>1. target[d][i] = source[d][i]
    BY DEF Sound, CoveredAt
  <2>2. i \notin fresh[d]
    BY DEF Sound, FreshIsMissed
  <2> QED
    BY <1>3, <2>1, <2>2
<1>7. FreshIsMissed(d)'
  BY DEF Sound, FreshIsMissed, Passed
<1>8. ReadsAge(d)'
  BY <1>1, <1>3 DEF ReadsAge
<1> QED
  BY <1>5, <1>6, <1>7, <1>8 DEF Settled

\* A row is read: as the source has it, and newer than the table's unless the
\* watermark has passed it.
LEMMA SoundScanRow ==
  ASSUME TypeOK, NEW d \in Datasets, Sound(d), Alone(d)',
         NEW i \in Ids, ScanRow(d, i)
  PROVE  Sound(d)'
<1> DEFINE v == source[d][i]
           returned == Matches(d, v)
           w == IF returned THEN v ELSE 0
           z == IF returned \/ i \notin missed[d] THEN v ELSE 0
           r == Scanned(d, i)
<1>a. run[d] \in Run
  BY LocalsType
<1>b. /\ run[d].pc = "streaming" /\ i \in run[d].scan
      /\ UNCHANGED <<source, clock, target, reload, state, missed>>
      /\ fresh'[d] = fresh[d] \ {i}
  BY DEF ScanRow, At, TypeOK
<1>1. /\ r.pc = run[d].pc /\ r.kind = run[d].kind /\ r.since = run[d].since
      /\ r.maxwm = run[d].maxwm /\ r.scan = run[d].scan \ {i}
      /\ r.buffer = run[d].buffer /\ r.flight = run[d].flight
      /\ r.wire = [run[d].wire EXCEPT ![i] = w]
      /\ r.snap = [run[d].snap EXCEPT ![i] = z]
  BY <1>a DEF Scanned, Run
<1>2. run'[d] = r
  BY ScannedType, BecomesType DEF ScanRow, Scanned
<1>3. \A j \in Ids :
        /\ r.wire[j] = IF j = i THEN w ELSE run[d].wire[j]
        /\ r.snap[j] = IF j = i THEN z ELSE run[d].snap[j]
  BY <1>1, <1>a DEF Run, Tables
<1>4. \A j \in Ids :
        /\ run[d].wire[j] \in {0, run[d].snap[j]}
        /\ run[d].buffer[j] \in {0, run[d].snap[j]}
        /\ run[d].flight[j] \in {0, run[d].snap[j]}
        /\ j \in run[d].scan => run[d].snap[j] = 0
        /\ \/ run[d].snap[j] = 0
           \/ run[d].wire[j] = run[d].snap[j]
           \/ run[d].buffer[j] = run[d].snap[j]
           \/ run[d].flight[j] = run[d].snap[j]
           \/ Landed(d)[j] = run[d].snap[j]
  BY <1>b DEF Sound, NothingLost, Pulling
<1>5. /\ run[d].since <= Watermark(d)
      /\ run[d].kind = "truncate" => run[d].since = 0
  BY <1>b DEF Sound, Prepared, Pulling
<1>6. v \in Nat /\ StampOf(v) \in Nat /\ run[d].since \in Nat /\ Watermark(d) \in Nat
  BY NumbersType, LocalsType
<1>7. ~returned /\ v # 0 =>
        run[d].kind # "truncate" /\ Passed(d, i, Watermark(d))
  BY <1>5, <1>6 DEF Matches, Passed
<1>8. ~returned /\ v # 0 /\ i \notin missed[d] => target[d][i] = v
  BY <1>7 DEF Sound, CoveredAt
<1>9. Settled(d)'
  BY <1>b DEF Sound, Settled, Behind, CoveredAt, FreshIsMissed, Passed, Watermark
<1>10. Prepared(d)'
  BY <1>1, <1>2, <1>5, <1>b DEF Prepared, BeforeStream, Watermark
<1>11. ReadsAge(d)'
  <2>1. /\ run[d].maxwm <= StampOf(clock)
        /\ \A j \in Ids :
             /\ run[d].snap[j] <= clock
             /\ source[d][j] # 0 => run[d].snap[j] <= source[d][j]
             /\ run[d].snap[j] # 0 => target[d][j] <= run[d].snap[j]
        /\ \A j \in Ids \ (run[d].scan \cup fresh[d]) :
             \/ run[d].snap[j] = source[d][j]
             \/ j \in missed[d] /\ run[d].snap[j] = 0 /\ run[d].kind # "truncate"
    BY <1>b DEF Sound, ReadsAge, Following
  <2>2. /\ v <= clock /\ 0 <= clock
        /\ v # 0 => target[d][i] <= v
    BY <1>6, NumbersType DEF Sound, Behind
  <2>3. z \in {0, v} /\ (z # v => i \in missed[d] /\ run[d].kind # "truncate")
    BY <1>7
  <2> HIDE DEF v, returned, w, z, r
  <2>4. \A j \in Ids :
          /\ r.snap[j] <= clock
          /\ source[d][j] # 0 => r.snap[j] <= source[d][j]
          /\ r.snap[j] # 0 => target[d][j] <= r.snap[j]
    BY <1>3, <1>6, <2>1, <2>2, <2>3 DEF v
  <2>5. \A j \in Ids \ (r.scan \cup fresh'[d]) :
          \/ r.snap[j] = source[d][j]
          \/ j \in missed[d] /\ r.snap[j] = 0 /\ r.kind # "truncate"
    BY <1>1, <1>3, <1>b, <2>1, <2>3 DEF v
  <2> QED
    BY <1>1, <1>2, <1>b, <2>1, <2>4, <2>5 DEF ReadsAge
<1>12. NothingLost(d)'
  <2>1. Landed(d)' = Landed(d)
    BY <1>1, <1>2, <1>b DEF Landed, ReloadOf
  <2>2. /\ w \in {0, z}
        /\ run[d].buffer[i] = 0 /\ run[d].flight[i] = 0
        /\ z = 0 \/ w = z \/ Landed(d)[i] = z
    BY <1>4, <1>7, <1>8, <1>b DEF Landed
  <2> HIDE DEF v, returned, w, z, r
  <2>3. \A j \in Ids :
          /\ r.wire[j] \in {0, r.snap[j]}
          /\ run[d].buffer[j] \in {0, r.snap[j]}
          /\ run[d].flight[j] \in {0, r.snap[j]}
          /\ j \in r.scan => r.snap[j] = 0
    BY <1>1, <1>3, <1>4, <2>2
  <2>4. \A j \in Ids : \/ r.snap[j] = 0
                       \/ r.wire[j] = r.snap[j]
                       \/ run[d].buffer[j] = r.snap[j]
                       \/ run[d].flight[j] = r.snap[j]
                       \/ Landed(d)[j] = r.snap[j]
    BY <1>3, <1>4, <2>2
  <2>5. r.buffer = run[d].buffer /\ r.flight = run[d].flight
    BY <1>1
  <2> QED
    BY <1>2, <2>1, <2>3, <2>4, <2>5 DEF NothingLost
<1>13. ReloadIsPart(d)'
  <2>1. run[d].kind = "truncate" =>
          /\ ReloadOf(d) # NoTable
          /\ \A j \in Ids : ReloadOf(d)[j] \in {0, run[d].snap[j]}
    BY <1>b DEF Sound, ReloadIsPart, Pulling
  <2>2. run[d].snap[i] = 0
    BY <1>4, <1>b
  <2>3. ReloadOf(d)' = ReloadOf(d)
    BY <1>b DEF ReloadOf
  <2> HIDE DEF v, returned, w, z, r
  <2> QED
    BY <1>1, <1>2, <1>3, <2>1, <2>2, <2>3 DEF ReloadIsPart
<1> HIDE DEF v, returned, w, z, r
<1> QED
  BY <1>1, <1>2, <1>b, <1>9, <1>10, <1>11, <1>12, <1>13
  DEF Sound, Settled, Emptied, CompleteAt, AfterCopy

LEMMA SoundDeliverRow ==
  ASSUME TypeOK, NEW d \in Datasets, Sound(d), Alone(d)',
         NEW i \in Ids, DeliverRow(d, i)
  PROVE  Sound(d)'
<1> DEFINE v == run[d].wire[i]
           filled == [run[d].buffer EXCEPT ![i] = v]
           full == Cardinality(Rows(filled)) >= ChunkRows
           newer == d \in Watermarked /\ StampOf(v) > run[d].maxwm
           maxwm == IF newer THEN StampOf(v) ELSE run[d].maxwm
           r == Buffered(d, i)
<1>a. run[d] \in Run /\ clock \in Versions /\ clock \in Nat
  BY LocalsType, ConstantsAssumption DEF Versions
<1>b. /\ run[d].pc = "streaming" /\ run[d].flight = EmptyTable /\ v # 0
      /\ UNCHANGED <<source, clock, target, reload, state, fresh, missed>>
  BY DEF DeliverRow, At, Paused
<1>1. /\ r.pc = run[d].pc /\ r.kind = run[d].kind /\ r.since = run[d].since
      /\ r.snap = run[d].snap /\ r.scan = run[d].scan
      /\ r.wire = [run[d].wire EXCEPT ![i] = 0]
      /\ r.maxwm = maxwm
      /\ r.buffer = IF full THEN EmptyTable ELSE filled
      /\ r.flight = IF full THEN filled ELSE EmptyTable
  BY <1>a DEF Buffered, Run
<1>2. run'[d] = r
  BY BufferedType, BecomesType DEF DeliverRow
<1>3. \A j \in Ids :
        /\ filled[j] = IF j = i THEN v ELSE run[d].buffer[j]
        /\ r.wire[j] = IF j = i THEN 0 ELSE run[d].wire[j]
  BY <1>1, <1>a DEF Run, Tables
<1>4. \A j \in Ids : EmptyTable[j] = 0
  BY DEF EmptyTable
<1>5. \A j \in Ids :
        /\ run[d].wire[j] \in {0, run[d].snap[j]}
        /\ run[d].buffer[j] \in {0, run[d].snap[j]}
        /\ run[d].flight[j] \in {0, run[d].snap[j]}
        /\ j \in run[d].scan => run[d].snap[j] = 0
        /\ \/ run[d].snap[j] = 0
           \/ run[d].wire[j] = run[d].snap[j]
           \/ run[d].buffer[j] = run[d].snap[j]
           \/ run[d].flight[j] = run[d].snap[j]
           \/ Landed(d)[j] = run[d].snap[j]
  BY <1>b DEF Sound, NothingLost, Pulling
<1>6. v = run[d].snap[i] /\ v \in Versions /\ StampOf(v) \in Nat /\ run[d].maxwm \in Nat
  BY <1>5, <1>b, NumbersType, LocalsType, StampType
<1> HIDE DEF v, filled, full, newer, r
<1>7. maxwm \in Nat /\ (maxwm = run[d].maxwm \/ maxwm = StampOf(v))
  BY <1>6
<1> HIDE DEF maxwm
<1>8. NothingLost(d)'
  <2>1. Landed(d)' = Landed(d)
    BY <1>1, <1>2, <1>b DEF Landed, ReloadOf
  <2>2. \A j \in Ids : filled[j] \in {0, run[d].snap[j]}
    BY <1>3, <1>5, <1>6
  <2>3. \A j \in Ids : /\ r.wire[j] \in {0, r.snap[j]}
                       /\ r.buffer[j] \in {0, r.snap[j]}
                       /\ r.flight[j] \in {0, r.snap[j]}
                       /\ j \in r.scan => r.snap[j] = 0
    BY <1>1, <1>3, <1>4, <1>5, <2>2
  <2>4. \A j \in Ids : \/ r.snap[j] = 0
                       \/ r.wire[j] = r.snap[j]
                       \/ filled[j] = r.snap[j]
                       \/ EmptyTable[j] = r.snap[j]
                       \/ Landed(d)[j] = r.snap[j]
    BY <1>1, <1>3, <1>5, <1>6, <1>b
  <2>5. \A j \in Ids : \/ r.snap[j] = 0
                       \/ r.wire[j] = r.snap[j]
                       \/ r.buffer[j] = r.snap[j]
                       \/ r.flight[j] = r.snap[j]
                       \/ Landed(d)[j] = r.snap[j]
    BY <1>1, <2>4
  <2> QED
    BY <1>2, <2>1, <2>3, <2>5 DEF NothingLost
<1>9. Settled(d)'
  BY <1>b, SoundSettled, SettledKept DEF Unsettled, Watermark
<1>10. ReadsAge(d)'
  <2>1. /\ run[d].maxwm <= StampOf(clock)
        /\ \A j \in Ids : run[d].snap[j] <= clock
    BY <1>b DEF Sound, ReadsAge, Following
  <2>2. StampOf(v) <= StampOf(clock)
    BY <1>a, <1>6, <2>1, StampAssumption
  <2>3. maxwm <= StampOf(clock)
    BY <1>7, <2>1, <2>2
  <2> QED
    BY <1>1, <1>2, <1>b, <2>3 DEF Sound, ReadsAge, Following
<1>11. ReloadIsPart(d)'
  BY <1>1, <1>2, <1>b DEF Sound, ReloadIsPart, ReloadOf
<1>12. Prepared(d)'
  BY <1>1, <1>2, <1>b DEF Sound, Prepared, BeforeStream, Pulling, Watermark
<1> QED
  BY <1>1, <1>2, <1>b, <1>8, <1>9, <1>10, <1>11, <1>12
  DEF Sound, Settled, Emptied, CompleteAt, AfterCopy

LEMMA SoundCancelSync ==
  ASSUME TypeOK, NEW d \in Datasets, Sound(d), Alone(d)', CancelSync(d)
  PROVE  Sound(d)'
<1> DEFINE r == [run[d] EXCEPT !.cancelled = TRUE]
<1>1. run[d] \in Run
  BY LocalsType
<1>2. /\ r \in Run /\ r.pc = run[d].pc /\ r.kind = run[d].kind
      /\ r.since = run[d].since /\ r.maxwm = run[d].maxwm
      /\ r.snap = run[d].snap /\ r.scan = run[d].scan /\ r.wire = run[d].wire
      /\ r.buffer = run[d].buffer /\ r.flight = run[d].flight
  BY <1>1 DEF Run
<1>3. /\ Becomes(d, r)
      /\ UNCHANGED <<source, clock, target, reload, state, fresh, missed>>
  BY DEF CancelSync
<1> HIDE DEF r
<1>4. run'[d] = r
  BY <1>2, <1>3, BecomesType
<1>5. Settled(d)'
  BY <1>3, SoundSettled, SettledKept DEF Unsettled, Watermark
<1>6. Prepared(d)'
  BY <1>2, <1>3, <1>4 DEF Sound, Prepared, Watermark, ReloadOf
<1>7. ReadsAge(d)'
  BY <1>2, <1>3, <1>4 DEF Sound, ReadsAge
<1>8. NothingLost(d)'
  BY <1>2, <1>3, <1>4 DEF Sound, NothingLost, Landed, ReloadOf
<1>9. ReloadIsPart(d)' /\ Emptied(d)' /\ CompleteAt(d)'
  BY <1>2, <1>3, <1>4 DEF Sound, ReloadIsPart, Emptied, CompleteAt, ReloadOf
<1> QED
  BY <1>5, <1>6, <1>7, <1>8, <1>9 DEF Sound, Settled

\* What a chunk of the rows read does where it lands.
LEMMA LandSound ==
  ASSUME TypeOK, NEW d \in Datasets, Sound(d), run[d].pc \in Pulling,
         NEW rows \in Tables, \A i \in Ids : rows[i] \in {0, run[d].snap[i]},
         CanLand(d, run[d].kind), Land(d, run[d].kind, rows)
  PROVE  /\ \A i \in Ids :
              \/ target'[d][i] = target[d][i]
              \/ i \notin run[d].scan /\ target'[d][i] = run[d].snap[i]
         /\ run[d].kind = "truncate" =>
              /\ target' = target
              /\ ReloadOf(d)' \in Tables
              /\ \A i \in Ids : ReloadOf(d)'[i] \in {0, run[d].snap[i]}
              /\ \A i \in Ids : ReloadOf(d)'[i] =
                   IF rows[i] # 0 THEN rows[i] ELSE ReloadOf(d)[i]
         /\ run[d].kind # "truncate" =>
              /\ reload' = reload
              /\ \A i \in Ids : target'[d][i] =
                   IF rows[i] # 0 THEN rows[i] ELSE target[d][i]
<1>1. ReloadName(d) \in ReloadNames /\ target[d] \in Tables
  BY LocalsType
<1>2. CASE run[d].kind = "truncate"
  <2>1. ReloadOf(d)' = Merge(ReloadOf(d), rows) /\ target' = target
    BY <1>1, <1>2 DEF Land, ReloadOf, TypeOK
  <2>2. ReloadOf(d) \in Tables
    BY <1>1, <1>2 DEF CanLand, ReloadOf, TypeOK
  <2>3. \A i \in Ids : ReloadOf(d)[i] \in {0, run[d].snap[i]}
    BY <1>2 DEF Sound, ReloadIsPart
  <2>4. \A i \in Ids : Merge(ReloadOf(d), rows)[i] =
          IF rows[i] # 0 THEN rows[i] ELSE ReloadOf(d)[i]
    BY DEF Merge
  <2> QED
    BY <1>2, <2>1, <2>2, <2>3, <2>4, MergeType
<1>3. CASE run[d].kind # "truncate"
  <2>1. target'[d] = Merge(target[d], rows) /\ reload' = reload
    BY <1>3 DEF Land, TypeOK
  <2>2. \A i \in Ids : Merge(target[d], rows)[i] =
          IF rows[i] # 0 THEN rows[i] ELSE target[d][i]
    BY DEF Merge
  <2>3. \A i \in Ids : i \in run[d].scan => run[d].snap[i] = 0
    BY DEF Sound, NothingLost
  <2> QED
    BY <1>3, <2>1, <2>2, <2>3
<1> QED
  BY <1>2, <1>3

LEMMA SoundFlushCommit ==
  ASSUME TypeOK, NEW d \in Datasets, Sound(d), Alone(d)', FlushCommit(d)
  PROVE  Sound(d)'
<1> DEFINE n == run[d].committed + Cardinality(Rows(run[d].flight))
           r == [run[d] EXCEPT !.committed = n, !.flight = EmptyTable]
<1>a. run[d] \in Run /\ n \in Nat
  BY LocalsType, RowsAreCounted DEF Run
<1> HIDE DEF n
<1>1. /\ r \in Run /\ r.pc = run[d].pc /\ r.kind = run[d].kind
      /\ r.since = run[d].since /\ r.maxwm = run[d].maxwm
      /\ r.snap = run[d].snap /\ r.scan = run[d].scan /\ r.wire = run[d].wire
      /\ r.buffer = run[d].buffer /\ r.flight = EmptyTable
  BY <1>a, EmptyTableType DEF Run
<1>2. Becomes(d, r) /\ UNCHANGED <<source, clock, state, fresh, missed>>
  BY DEF FlushCommit, n
<1> HIDE DEF r
<1>3. run'[d] = r
  BY <1>1, <1>2, BecomesType
<1>4. run[d].pc = "streaming"
  BY DEF FlushCommit, At
<1>5. run[d].flight \in Tables /\ \A i \in Ids : run[d].flight[i] \in {0, run[d].snap[i]}
  BY <1>a, <1>4 DEF Run, Sound, NothingLost, Pulling
<1>6. /\ \A i \in Ids :
           \/ target'[d][i] = target[d][i]
           \/ i \notin run[d].scan /\ target'[d][i] = run[d].snap[i]
      /\ run[d].kind = "truncate" =>
           /\ ReloadOf(d)' \in Tables
           /\ \A i \in Ids : ReloadOf(d)'[i] \in {0, run[d].snap[i]}
           /\ \A i \in Ids : ReloadOf(d)'[i] =
                IF run[d].flight[i] # 0 THEN run[d].flight[i] ELSE ReloadOf(d)[i]
      /\ run[d].kind # "truncate" =>
           \A i \in Ids : target'[d][i] =
             IF run[d].flight[i] # 0 THEN run[d].flight[i] ELSE target[d][i]
  BY <1>4, <1>5, LandSound DEF FlushCommit, Pulling
<1>7. Settled(d)' /\ ReadsAge(d)'
  BY <1>1, <1>2, <1>3, <1>4, <1>6, TowardSnapshot DEF Watermark, Following
<1>8. NothingLost(d)'
  <2>1. \A i \in Ids :
          /\ run[d].wire[i] \in {0, run[d].snap[i]}
          /\ run[d].buffer[i] \in {0, run[d].snap[i]}
          /\ i \in run[d].scan => run[d].snap[i] = 0
          /\ \/ run[d].snap[i] = 0
             \/ run[d].wire[i] = run[d].snap[i]
             \/ run[d].buffer[i] = run[d].snap[i]
             \/ run[d].flight[i] = run[d].snap[i]
             \/ Landed(d)[i] = run[d].snap[i]
    BY <1>4 DEF Sound, NothingLost, Pulling
  <2>2. \A i \in Ids : Landed(d)'[i] =
          IF run[d].flight[i] # 0 THEN run[d].flight[i] ELSE Landed(d)[i]
    BY <1>1, <1>3, <1>6 DEF Landed, ReloadOf
  <2>3. \A i \in Ids : EmptyTable[i] = 0
    BY DEF EmptyTable
  <2>4. \A i \in Ids : \/ run[d].snap[i] = 0
                       \/ run[d].wire[i] = run[d].snap[i]
                       \/ run[d].buffer[i] = run[d].snap[i]
                       \/ Landed(d)'[i] = run[d].snap[i]
    BY <1>5, <2>1, <2>2
  <2> QED
    BY <1>1, <1>3, <2>1, <2>3, <2>4 DEF NothingLost
<1>9. ReloadIsPart(d)'
  BY <1>1, <1>3, <1>6, ConstantsAssumption DEF ReloadIsPart
<1>10. Prepared(d)'
  BY <1>1, <1>2, <1>3, <1>4 DEF Sound, Prepared, BeforeStream, Pulling, Watermark
<1> QED
  BY <1>1, <1>3, <1>4, <1>7, <1>8, <1>9, <1>10
  DEF Sound, Settled, Emptied, CompleteAt, AfterCopy

LEMMA SoundStreamDone ==
  ASSUME TypeOK, NEW d \in Datasets, Sound(d), Alone(d)', StreamDone(d)
  PROVE  Sound(d)'
<1> DEFINE r == [run[d] EXCEPT !.pc = "draining"]
<1>1. run[d] \in Run
  BY LocalsType
<1>2. /\ r.pc = "draining" /\ r.kind = run[d].kind
      /\ r.since = run[d].since /\ r.maxwm = run[d].maxwm
      /\ r.snap = run[d].snap /\ r.scan = run[d].scan /\ r.wire = run[d].wire
      /\ r.buffer = run[d].buffer /\ r.flight = run[d].flight
  BY <1>1 DEF Run
<1>3. run'[d] = r
  BY GotoPc DEF StreamDone, Pcs
<1> HIDE DEF r
<1>4. /\ UNCHANGED <<source, clock, target, reload, state, fresh, missed>>
      /\ run[d].pc = "streaming" /\ run[d].scan = {}
      /\ run[d].wire = EmptyTable /\ run[d].flight = EmptyTable
  BY DEF StreamDone, At, Paused
<1>5. Settled(d)'
  BY <1>4, SoundSettled, SettledKept DEF Unsettled, Watermark
<1>6. ReadsAge(d)'
  BY <1>2, <1>3, <1>4 DEF Sound, ReadsAge, Following
<1>7. NothingLost(d)'
  BY <1>2, <1>3, <1>4 DEF Sound, NothingLost, Landed, ReloadOf, Pulling
<1>8. ReloadIsPart(d)'
  BY <1>2, <1>3, <1>4 DEF Sound, ReloadIsPart, Pulling, ReloadOf
<1>9. Prepared(d)'
  BY <1>2, <1>3, <1>4 DEF Sound, Prepared, BeforeStream, Pulling, Watermark
<1> QED
  BY <1>2, <1>3, <1>4, <1>5, <1>6, <1>7, <1>8, <1>9
  DEF Sound, Settled, Emptied, CompleteAt, AfterCopy

LEMMA SoundFinalFlush ==
  ASSUME TypeOK, NEW d \in Datasets, Sound(d), Alone(d)', FinalFlush(d)
  PROVE  Sound(d)'
<1> DEFINE n == run[d].committed + Cardinality(Rows(run[d].buffer))
           r == [run[d] EXCEPT !.pc = AfterPull(d), !.committed = n,
                               !.buffer = EmptyTable]
<1>a. run[d] \in Run /\ n \in Nat
  BY LocalsType, RowsAreCounted DEF Run
<1>b. AfterPull(d) = IF run[d].kind = "truncate" THEN "swapping" ELSE "closing"
  BY DEF AfterPull
<1> HIDE DEF n
<1>1. /\ r \in Run /\ r.pc = AfterPull(d) /\ r.kind = run[d].kind
      /\ r.since = run[d].since /\ r.maxwm = run[d].maxwm
      /\ r.snap = run[d].snap /\ r.scan = run[d].scan /\ r.wire = run[d].wire
      /\ r.buffer = EmptyTable /\ r.flight = run[d].flight
  BY <1>a, <1>b, EmptyTableType DEF Run, Pcs
<1>2. Becomes(d, r) /\ UNCHANGED <<source, clock, state, fresh, missed>>
  BY DEF FinalFlush, n
<1> HIDE DEF r
<1>3. run'[d] = r
  BY <1>1, <1>2, BecomesType
<1>4. /\ run[d].pc = "draining" /\ run[d].scan = {}
      /\ run[d].wire = EmptyTable /\ run[d].flight = EmptyTable
  BY DEF FinalFlush, At, Sound, Emptied
<1>5. \A i \in Ids : EmptyTable[i] = 0
  BY DEF EmptyTable
<1>6. /\ run[d].buffer \in Tables
      /\ \A i \in Ids :
           /\ run[d].buffer[i] \in {0, run[d].snap[i]}
           /\ \/ run[d].buffer[i] = run[d].snap[i]
              \/ run[d].snap[i] = 0
              \/ Landed(d)[i] = run[d].snap[i]
  BY <1>a, <1>4, <1>5 DEF Run, Sound, NothingLost, Pulling
<1>7. /\ \A i \in Ids :
           \/ target'[d][i] = target[d][i]
           \/ i \notin run[d].scan /\ target'[d][i] = run[d].snap[i]
      /\ run[d].kind = "truncate" =>
           /\ ReloadOf(d)' # NoTable
           /\ \A i \in Ids : ReloadOf(d)'[i] \in {0, run[d].snap[i]}
           /\ \A i \in Ids : ReloadOf(d)'[i] =
                IF run[d].buffer[i] # 0 THEN run[d].buffer[i] ELSE ReloadOf(d)[i]
      /\ run[d].kind # "truncate" =>
           \A i \in Ids : target'[d][i] =
             IF run[d].buffer[i] # 0 THEN run[d].buffer[i] ELSE target[d][i]
  <2>1. CASE run[d].buffer = EmptyTable /\ UNCHANGED <<target, reload, dirty>>
    BY <2>1, <1>4, <1>5 DEF ReloadOf, Sound, ReloadIsPart, Pulling
  <2>2. CASE CanLand(d, run[d].kind) /\ Land(d, run[d].kind, run[d].buffer)
    BY <2>2, <1>4, <1>6, LandSound, ConstantsAssumption DEF Pulling
  <2> QED
    BY <2>1, <2>2 DEF FinalFlush
<1>8. Settled(d)' /\ ReadsAge(d)'
  BY <1>1, <1>2, <1>3, <1>4, <1>7, TowardSnapshot DEF Watermark, Following
<1>9. CASE run[d].kind = "truncate"
  <2>1. \A i \in Ids : \/ run[d].snap[i] = 0
                       \/ ReloadOf(d)'[i] = run[d].snap[i]
    BY <1>6, <1>7, <1>9 DEF Landed
  <2>2. NothingLost(d)'
    BY <1>1, <1>3, <1>4, <1>5, <1>9, <2>1 DEF NothingLost, Landed
  <2>3. ReloadIsPart(d)'
    BY <1>1, <1>3, <1>7, <1>9 DEF ReloadIsPart
  <2>4. Prepared(d)'
    BY <1>1, <1>2, <1>3, <1>4, <1>9, <1>b
    DEF Sound, Prepared, BeforeStream, Pulling, Watermark
  <2> QED
    BY <1>1, <1>3, <1>4, <1>8, <1>9, <1>b, <2>2, <2>3, <2>4
    DEF Sound, Settled, Emptied, CompleteAt, AfterCopy
<1>10. CASE run[d].kind # "truncate"
  <2>1. \A i \in Ids : run[d].snap[i] # 0 => target'[d][i] = run[d].snap[i]
    BY <1>6, <1>7, <1>10 DEF Landed
  <2>2. CompleteAt(d)'
    BY <1>1, <1>3, <1>4, <2>1 DEF CompleteAt, Rows
  <2> QED
    BY <1>1, <1>3, <1>8, <1>10, <1>b, <2>2
    DEF Sound, Settled, Prepared, Emptied, NothingLost, ReloadIsPart,
        BeforeStream, Pulling
<1> QED
  BY <1>9, <1>10

\* The swap puts all that the query read into the table, and nothing else.
LEMMA SwapIsSnapshot ==
  ASSUME TypeOK, NEW d \in Datasets, Sound(d), Swap(d)
  PROVE  target'[d] = run[d].snap /\ run[d].scan = {} /\ run[d].kind = "truncate"
<1>1. /\ run[d] \in Run /\ ReloadName(d) \in ReloadNames
      /\ ReloadOf(d) \in Tables \cup {NoTable}
  BY LocalsType
<1>2. run[d].pc = "swapping"
  BY DEF Swap, At
<1>3. /\ run[d].kind = "truncate" /\ run[d].scan = {} /\ run[d].wire = EmptyTable
      /\ run[d].flight = EmptyTable /\ run[d].buffer = EmptyTable
  BY <1>2 DEF Sound, Emptied
<1>4. /\ ReloadOf(d) \in Tables
      /\ \A i \in Ids : ReloadOf(d)[i] \in {0, run[d].snap[i]}
  BY <1>1, <1>2, <1>3 DEF Sound, ReloadIsPart, Pulling
<1>5. \A i \in Ids : \/ run[d].snap[i] = 0 \/ EmptyTable[i] = run[d].snap[i]
                     \/ ReloadOf(d)[i] = run[d].snap[i]
  BY <1>2, <1>3 DEF Sound, NothingLost, Pulling, Landed
<1>6. \A i \in Ids : ReloadOf(d)[i] = run[d].snap[i]
  BY <1>4, <1>5 DEF EmptyTable
<1>7. ReloadOf(d) = run[d].snap
  BY <1>1, <1>4, <1>6 DEF Run, Tables
<1> QED
  BY <1>3, <1>7 DEF Swap, ReloadOf, TypeOK

LEMMA SoundSwap ==
  ASSUME TypeOK, NEW d \in Datasets, Sound(d), Alone(d)', Swap(d)
  PROVE  Sound(d)'
<1> DEFINE r == [run[d] EXCEPT !.pc = "closing"]
<1>1. run[d] \in Run
  BY LocalsType
<1>2. /\ r.pc = "closing" /\ r.snap = run[d].snap /\ r.maxwm = run[d].maxwm
      /\ r.scan = run[d].scan /\ r.kind = run[d].kind
  BY <1>1 DEF Run
<1>3. run'[d] = r
  BY GotoPc DEF Swap, Pcs
<1> HIDE DEF r
<1>4. target'[d] = run[d].snap /\ run[d].scan = {}
  BY SwapIsSnapshot
<1>5. UNCHANGED <<source, clock, state, fresh, missed>> /\ run[d].pc = "swapping"
  BY DEF Swap, At
<1>6. Settled(d)' /\ ReadsAge(d)'
  BY <1>2, <1>3, <1>4, <1>5, TowardSnapshot DEF Watermark, Following
<1>7. CompleteAt(d)'
  BY <1>2, <1>3, <1>4 DEF CompleteAt
<1> QED
  BY <1>2, <1>3, <1>6, <1>7
  DEF Sound, Settled, Prepared, Emptied, NothingLost, ReloadIsPart,
      BeforeStream, Pulling

LEMMA SoundClose ==
  ASSUME TypeOK, NEW d \in Datasets, Sound(d), Alone(d)', Close(d)
  PROVE  Sound(d)'
<1>1. run[d] \in Run
  BY LocalsType
<1>2. UNCHANGED <<source, clock, target, state, fresh, missed>>
  BY DEF Close
<1>3. CASE run[d].pc = "closing"
  <2> DEFINE r == [run[d] EXCEPT !.pc = "advance"]
  <2>1. /\ r.pc = "advance" /\ r.snap = run[d].snap /\ r.maxwm = run[d].maxwm
        /\ r.scan = run[d].scan /\ r.kind = run[d].kind
    BY <1>1 DEF Run
  <2>2. run'[d] = r
    BY <1>3, GotoPc DEF Close, At, Pcs, AfterCopy
  <2> HIDE DEF r
  <2>3. Settled(d)'
    BY <1>2, SoundSettled, SettledKept DEF Unsettled, Watermark
  <2>4. ReadsAge(d)'
    BY <1>2, <1>3, <2>1, <2>2 DEF Sound, ReadsAge, Following
  <2>5. CompleteAt(d)'
    BY <1>2, <1>3, <2>1, <2>2 DEF Sound, CompleteAt
  <2> QED
    BY <2>1, <2>2, <2>3, <2>4, <2>5
    DEF Sound, Settled, Prepared, Emptied, NothingLost, ReloadIsPart,
        BeforeStream, Pulling
<1>4. CASE run[d].pc = "unwinding"
  <2>1. run'[d].pc = "failed"
    BY <1>4, GotoPc DEF Close, At, Pcs, Recording
  <2> QED
    BY <1>2, <2>1, SoundQuiet DEF Quiet, Unsettled, Watermark
<1> QED
  BY <1>3, <1>4 DEF Close

\* What the run vouches for: a source row at or below its watermark is one it
\* has read, which the table has, or one it has to count as missed.
LEMMA SoundAdvanceWatermark ==
  ASSUME TypeOK, NEW d \in Datasets, Sound(d), Alone(d)', AdvanceWatermark(d)
  PROVE  Sound(d)'
<1> DEFINE r == [run[d] EXCEPT !.pc = "recordOk"]
<1>1. run[d] \in Run /\ state[d] \in SyncState
  BY LocalsType DEF TypeOK
<1>2. r.pc = "recordOk" /\ r.snap = run[d].snap /\ r.scan = run[d].scan
  BY <1>1 DEF Run
<1>3. run'[d] = r
  BY GotoPc DEF AdvanceWatermark, Pcs, AfterCopy
<1> HIDE DEF r
<1>4. UNCHANGED <<source, clock, target, fresh>> /\ run[d].pc = "advance"
  BY DEF AdvanceWatermark, At
<1>5. /\ run[d].scan = {}
      /\ \A i \in Ids : run[d].snap[i] # 0 => target[d][i] = run[d].snap[i]
  BY <1>4 DEF Sound, CompleteAt, AfterCopy, Rows
<1>6. /\ run[d].maxwm <= StampOf(clock)
      /\ \A i \in Ids \ fresh[d] :
           \/ run[d].snap[i] = source[d][i]
           \/ i \in missed[d] /\ run[d].snap[i] = 0
  <2>1. ReadsAge(d) /\ run[d].pc \in Following
    BY <1>4 DEF Sound, Following
  <2>2. \A i \in Ids \ fresh[d] : i \in Ids \ (run[d].scan \cup fresh[d])
    BY <1>5
  <2> QED
    BY <2>1, <2>2 DEF ReadsAge
<1>7. Settled(d)'
  <2>1. CASE run[d].maxwm = 0
    <3>1. UNCHANGED <<state, missed>>
      BY <2>1 DEF AdvanceWatermark
    <3> QED
      BY <1>4, <3>1, SoundSettled, SettledKept DEF Unsettled, Watermark
  <2>2. CASE run[d].maxwm # 0
    <3>1. /\ Watermark(d)' = run[d].maxwm
          /\ missed'[d] = {i \in fresh[d] : Passed(d, i, run[d].maxwm)} \cup
                          {i \in missed[d] : run[d].snap[i] # source[d][i]}
      BY <2>2, <1>1 DEF AdvanceWatermark, SetState, Watermark, TypeOK, SyncState
    <3>2. Behind(d)'
      BY <1>4, <1>6, <3>1 DEF Sound, Behind
    <3>3. FreshIsMissed(d)'
      BY <1>4, <3>1 DEF FreshIsMissed, Passed
    <3>4. CoveredAt(d)'
      <4> SUFFICES ASSUME NEW i \in Ids \ missed'[d], Passed(d, i, run[d].maxwm)
                   PROVE  target[d][i] = source[d][i]
        BY <1>4, <3>1 DEF CoveredAt, Passed
      <4>1. i \notin fresh[d] /\ source[d][i] # 0
        BY <3>1 DEF Passed
      <4>2. run[d].snap[i] = source[d][i]
        BY <1>6, <3>1, <4>1
      <4> QED
        BY <1>5, <4>1, <4>2
    <3> QED
      BY <3>2, <3>3, <3>4 DEF Settled
  <2> QED
    BY <2>1, <2>2
<1>8. CompleteAt(d)'
  BY <1>2, <1>3, <1>4, <1>5 DEF CompleteAt, Rows
<1> QED
  BY <1>2, <1>3, <1>7, <1>8
  DEF Sound, Settled, Prepared, ReadsAge, NothingLost, ReloadIsPart, Emptied,
      BeforeStream, Following, Pulling

LEMMA SoundRecordOk ==
  ASSUME TypeOK, NEW d \in Datasets, Sound(d), Alone(d)', RecordOk(d) \/ AppendOk(d)
  PROVE  Sound(d)'
<1>1. run[d] \in Run /\ state[d] \in SyncState
  BY LocalsType DEF TypeOK
<1>2. UNCHANGED <<source, clock, target, fresh, missed>>
  BY DEF RecordOk, AppendOk
<1>3. Watermark(d)' = Watermark(d)
  BY <1>1, SetStateKeeps DEF RecordOk, AppendOk, Watermark, SyncState
<1>4. PICK pc \in {"historyOk", "refresh", "release"} : Goto(d, pc)
  BY DEF RecordOk, AppendOk
<1>5. /\ run'[d].pc = pc /\ run'[d].snap = run[d].snap
      /\ run'[d].scan = run[d].scan
  <2>1. run'[d] = [run[d] EXCEPT !.pc = pc]
    BY <1>4, GotoPc DEF Pcs, AfterCopy
  <2> QED
    BY <1>1, <2>1 DEF Run
<1>6. run[d].pc \in AfterCopy
  BY DEF RecordOk, AppendOk, At, AfterCopy
<1>7. Settled(d)'
  BY <1>2, <1>3, SoundSettled, SettledKept DEF Unsettled
<1>8. CompleteAt(d)'
  BY <1>2, <1>5, <1>6 DEF Sound, CompleteAt
<1> QED
  BY <1>4, <1>5, <1>7, <1>8
  DEF Sound, Settled, Prepared, ReadsAge, NothingLost, ReloadIsPart, Emptied,
      BeforeStream, Following, Pulling

-----------------------------------------------------------------------------
(* The invariant and what follows from it *)

\* A step of d's own call keeps d sound.
LEMMA SoundRunStep ==
  ASSUME TypeOK, NEW d \in Datasets, Sound(d), Alone(d)', RunStep(d)
  PROVE  Sound(d)'
<1>1. CASE Pull(d)
  BY <1>1, SoundScanRow, SoundDeliverRow, SoundFlushCommit, SoundStreamDone,
     QuietSteps
  DEF Pull
<1>2. CASE ~Pull(d)
  BY <1>2, SoundStart, SoundReadWatermark, SoundPrepareReload, SoundOpenStream,
     SoundFinalFlush, SoundSwap, SoundClose, SoundAdvanceWatermark,
     SoundRecordOk, QuietSteps
  DEF RunStep
<1> QED
  BY <1>1, <1>2

LEMMA StrayedGrows ==
  ASSUME [Next]_vars
  PROVE  strayed \subseteq strayed'
<1>1. CASE \E d \in Datasets, i \in Ids : SourceWrite(d, i) \/ SourceDelete(d, i)
  BY <1>1 DEF SourceWrite, SourceDelete
<1>2. CASE \E d \in Datasets : (\E kind \in Kinds : StartRun(d, kind)) \/ CancelSync(d)
  BY <1>2 DEF StartRun, CancelSync
<1>3. ASSUME NEW d \in Datasets, RunStep(d)
      PROVE  strayed \subseteq strayed'
  <2>1. CASE PrepareReload(d)
    BY <2>1 DEF PrepareReload
  <2>2. CASE ~PrepareReload(d)
    BY <1>3, <2>2
    DEF RunStep, Pull, RecordRunning, ReadWatermark, OpenStream, DeliverRow,
        ScanRow, FlushCommit, FlushFail, StreamError, StreamDone, FinalFlush,
        FinalFlushFail, Swap, SwapAbandoned, Close, AdvanceWatermark, RecordOk,
        AppendOk, RefreshDerived, StepFails, RecordError, AppendError,
        RecordingFails, Release
  <2> QED
    BY <2>1, <2>2
<1>4. CASE \E s \in stray : StrayCommit(s) \/ StrayFail(s)
  BY <1>4 DEF StrayCommit, StrayFail
<1>5. CASE Crash \/ UNCHANGED vars
  BY <1>5 DEF Crash, vars
<1> QED
  BY <1>1, <1>2, <1>3, <1>4, <1>5 DEF Next

LEMMA SoundNext ==
  ASSUME TypeOK, AllSound, [Next]_vars
  PROVE  AllSound'
<1> SUFFICES ASSUME NEW d \in Datasets, d \notin strayed' PROVE Sound(d)'
  BY DEF AllSound
<1>1. d \notin strayed
  BY StrayedGrows
<1>2. Sound(d)
  BY <1>1 DEF AllSound
<1>a. Alone(d)'
  BY <1>2, AloneStep DEF Sound
<1>3. CASE \E e \in Datasets, i \in Ids : SourceWrite(e, i) \/ SourceDelete(e, i)
  BY <1>2, <1>3, <1>a, SoundSourceStep
<1>4. ASSUME NEW e \in Datasets,
             \/ \E kind \in Kinds : StartRun(e, kind)
             \/ RunStep(e) \/ CancelSync(e)
      PROVE  Sound(d)'
  <2>1. CASE e = d
    BY <1>2, <1>4, <1>a, <2>1, SoundStart, SoundRunStep, SoundCancelSync
  <2>2. CASE e # d
    <3>1. Untouched(d)
      BY <1>2, <1>4, <2>2, OthersUntouched DEF Sound
    <3> QED
      BY <1>2, <1>a, <3>1, SoundUntouched
  <2> QED
    BY <2>1, <2>2
<1>5. ASSUME NEW s \in stray, StrayCommit(s) PROVE Sound(d)'
  <2>1. s.ds \in Datasets
    BY DEF TypeOK, Stray
  <2>2. target'[d] = target[d]
    BY <1>5, <2>1 DEF StrayCommit, Land, TypeOK
  <2>3. Reloading(d) => ReloadOf(d)' = ReloadOf(d)
    <3>1. CASE s.kind = "truncate"
      <4>1. Reloading(d) => ReloadName(d) # ReloadName(s.ds)
        BY <1>5, <3>1 DEF StrayCommit
      <4>2. /\ reload \in [ReloadNames -> Tables \cup {NoTable}]
            /\ ReloadName(d) \in ReloadNames /\ ReloadName(s.ds) \in ReloadNames
        BY <2>1 DEF TypeOK, ReloadNames
      <4> QED
        BY <1>5, <3>1, <4>1, <4>2 DEF StrayCommit, Land, ReloadOf
    <3>2. CASE s.kind # "truncate"
      BY <1>5, <3>2 DEF StrayCommit, Land, ReloadOf
    <3> QED
      BY <3>1, <3>2
  <2>4. Untouched(d)
    BY <1>5, <2>2, <2>3 DEF StrayCommit, Untouched, Unsettled, Watermark
  <2> QED
    BY <1>2, <1>a, <2>4, SoundUntouched
<1>6. ASSUME NEW s \in stray, StrayFail(s) PROVE Sound(d)'
  BY <1>2, <1>6, <1>a, SoundUntouched
  DEF StrayFail, Untouched, Unsettled, Watermark, ReloadOf
<1>7. CASE Crash
  <2>1. run'[d].pc = "idle"
    BY <1>7, IdleRunType DEF Crash
  <2> QED
    BY <1>2, <1>7, <1>a, <2>1, SoundQuiet DEF Crash, Quiet, Unsettled, Watermark
<1>8. CASE UNCHANGED vars
  BY <1>2, <1>8, <1>a, SoundUntouched
  DEF vars, Untouched, Unsettled, Watermark, ReloadOf
<1> QED
  BY <1>3, <1>4, <1>5, <1>6, <1>7, <1>8 DEF Next

\* Every pipe is sound at each of its steps, until another run writes to it.
THEOREM PipesAreSound == Spec => []AllSound
<1>1. Init => AllSound
  BY SoundInit
<1>2. TypeOK /\ AllSound /\ [Next]_vars => AllSound'
  BY SoundNext
<1> QED
  BY <1>1, <1>2, TypeCorrect, PTL DEF Spec

\* A source row the watermark has passed is in the table as it is at the source,
\* or is one of those named as missed: an incremental sync, which skips it,
\* misses nothing else.
THEOREM WatermarkIsKept == Spec => []Covered
<1>1. AllSound => Covered
  BY DEF AllSound, Sound, CoveredAt, Covered, Watermark
<1> QED
  BY <1>1, PipesAreSound, PTL

\* A run that reports ok has put all that its query read into the table.
THEOREM OkIsComplete == Spec => []OkMeansComplete
<1>1. AllSound => OkMeansComplete
  BY DEF AllSound, Sound, CompleteAt, OkMeansComplete
<1> QED
  BY <1>1, PipesAreSound, PTL

-----------------------------------------------------------------------------
(* What a step may do to a table *)

LEMMA TargetStep ==
  ASSUME TypeOK, [Next]_vars, NEW d \in Datasets, d \notin strayed',
         target'[d] # target[d]
  PROVE  FlushCommit(d) \/ FinalFlush(d) \/ Swap(d)
<1>1. CASE \E e \in Datasets, i \in Ids : SourceWrite(e, i) \/ SourceDelete(e, i)
  BY <1>1 DEF SourceWrite, SourceDelete
<1>2. ASSUME NEW e \in Datasets,
             \/ \E kind \in Kinds : StartRun(e, kind)
             \/ RunStep(e) \/ CancelSync(e)
      PROVE  FlushCommit(d) \/ FinalFlush(d) \/ Swap(d)
  <2>1. e = d
    BY <1>2, OthersKept DEF Unsettled
  <2> QED
    BY <1>2, <2>1
    DEF StartRun, CancelSync, RunStep, Pull, RecordRunning, ReadWatermark,
        PrepareReload, OpenStream, DeliverRow, ScanRow, FlushFail, StreamError,
        StreamDone, FinalFlushFail, SwapAbandoned, Close, AdvanceWatermark,
        RecordOk, AppendOk, RefreshDerived, StepFails, RecordError, AppendError,
        RecordingFails, Release
<1>3. ASSUME NEW s \in stray, StrayCommit(s) PROVE FALSE
  BY <1>3 DEF StrayCommit, Land, TypeOK
<1>4. ASSUME NEW s \in stray, StrayFail(s) PROVE FALSE
  BY <1>4 DEF StrayFail
<1>5. CASE Crash \/ UNCHANGED vars
  BY <1>5 DEF Crash, vars
<1> QED
  BY <1>1, <1>2, <1>3, <1>4, <1>5 DEF Next

\* The rows a chunk brings are those the query read, or there are none.
LEMMA ChunkStep ==
  ASSUME TypeOK, NEW d \in Datasets, Sound(d), FlushCommit(d) \/ FinalFlush(d),
         target'[d] # target[d]
  PROVE  /\ run[d].kind # "truncate"
         /\ run[d].pc \in Following
         /\ \A i \in Ids : target'[d][i] = target[d][i]
                           \/ (run[d].snap[i] # 0 /\ target'[d][i] = run[d].snap[i])
<1>1. PICK rows \in {run[d].flight, run[d].buffer} :
        CanLand(d, run[d].kind) /\ Land(d, run[d].kind, rows)
  BY DEF FlushCommit, FinalFlush
<1>2. run[d].pc \in {"streaming", "draining"}
  BY DEF FlushCommit, FinalFlush, At
<1>3. rows \in Tables /\ \A i \in Ids : rows[i] \in {0, run[d].snap[i]}
  BY <1>1, <1>2, LocalsType DEF Run, Sound, NothingLost, Pulling
<1>4. run[d].kind # "truncate"
  BY <1>1 DEF Land
<1>5. \A i \in Ids : target'[d][i] = IF rows[i] # 0 THEN rows[i] ELSE target[d][i]
  BY <1>1, <1>2, <1>3, <1>4, LandSound DEF Pulling
<1> QED
  BY <1>2, <1>3, <1>4, <1>5 DEF Following

\* A Truncate & Sync changes the table once, into all that its query read.
THEOREM TruncateSwapsWhole == Spec => TruncateIsAtomic
<1> DEFINE Atomic ==
      \A d \in Datasets \ strayed' :
        run[d].kind = "truncate" /\ target'[d] # target[d]
          => target'[d] = run[d].snap /\ run[d].scan = {}
<1>1. TypeOK /\ AllSound /\ [Next]_vars => [Atomic]_vars
  <2> SUFFICES ASSUME TypeOK, AllSound, [Next]_vars,
                      NEW d \in Datasets, d \notin strayed',
                      run[d].kind = "truncate", target'[d] # target[d]
               PROVE  target'[d] = run[d].snap /\ run[d].scan = {}
    OBVIOUS
  <2>1. FlushCommit(d) \/ FinalFlush(d) \/ Swap(d)
    BY TargetStep
  <2>2. Sound(d)
    BY StrayedGrows DEF AllSound
  <2> QED
    BY <2>1, <2>2, ChunkStep, SwapIsSnapshot
<1> QED
  BY <1>1, TypeCorrect, PipesAreSound, PTL DEF Spec, TruncateIsAtomic

\* A row of a table never goes back to an earlier version, and only the swap of
\* a Truncate & Sync removes one.
THEOREM RowsOnlyAdvance == Spec => NoRegression
<1> DEFINE Advances ==
      \A d \in Datasets \ strayed', i \in Ids :
        \/ target'[d][i] >= target[d][i]
        \/ target'[d][i] = 0 /\ At(d, "swapping")
<1>1. TypeOK /\ AllSound /\ [Next]_vars => [Advances]_vars
  <2> SUFFICES ASSUME TypeOK, AllSound, [Next]_vars,
                      NEW d \in Datasets, d \notin strayed', NEW i \in Ids
               PROVE  \/ target'[d][i] >= target[d][i]
                      \/ target'[d][i] = 0 /\ At(d, "swapping")
    OBVIOUS
  <2>1. target[d][i] \in Nat
    BY NumbersType
  <2>2. CASE target'[d] = target[d]
    BY <2>1, <2>2
  <2>3. CASE target'[d] # target[d]
    <3>1. FlushCommit(d) \/ FinalFlush(d) \/ Swap(d)
      BY <2>3, TargetStep
    <3>2. Sound(d)
      BY StrayedGrows DEF AllSound
    <3>3. run[d].pc \in Following
      BY <3>1 DEF FlushCommit, FinalFlush, Swap, At, Following
    <3>4. run[d].snap[i] # 0 => target[d][i] <= run[d].snap[i]
      BY <3>2, <3>3 DEF Sound, ReadsAge
    <3>5. run[d].snap[i] \in Nat
      BY NumbersType
    <3>6. CASE FlushCommit(d) \/ FinalFlush(d)
      BY <2>1, <2>3, <3>2, <3>4, <3>5, <3>6, ChunkStep
    <3>7. CASE Swap(d)
      <4>1. target'[d][i] = run[d].snap[i]
        BY <3>2, <3>7, SwapIsSnapshot
      <4> QED
        BY <2>1, <3>4, <3>5, <3>7, <4>1 DEF Swap
    <3> QED
      BY <3>1, <3>6, <3>7
  <2> QED
    BY <2>2, <2>3
<1> QED
  BY <1>1, TypeCorrect, PipesAreSound, PTL DEF Spec, NoRegression

(***************************************************************************)
(* DatasetSync implements PipeContract: each step of a pipe is a step the  *)
(* contract allows, or one it does not see.                                *)
(***************************************************************************)
Saved == [d \in Datasets |-> state[d].last_watermark]

LEMMA ContractInit == Init => Contract!Init
<1> SUFFICES ASSUME Init PROVE Contract!Init
  OBVIOUS
<1>1. Saved = [d \in Datasets |-> 0]
  BY DEF Init, Saved
<1> QED
  BY <1>1 DEF Init, Contract!Init, EmptyTable, Saved

\* The contract sees the sources, the tables, the watermarks, the rows changed
\* or missed, and the strays.
LEMMA Unseen ==
  ASSUME UNCHANGED <<source, clock, target, fresh, missed, strayed>>,
         \A d \in Datasets : Watermark(d)' = Watermark(d)
  PROVE  UNCHANGED Contract!vars
<1>1. Saved' = Saved
  BY DEF Watermark, Saved
<1> QED
  BY <1>1 DEF Contract!vars, Saved

\* Of the steps of a run, only some touch what the contract sees.
LEMMA SeenSteps ==
  ASSUME TypeOK, NEW d \in Datasets, RunStep(d)
  PROVE  /\ UNCHANGED <<source, clock>>
         /\ \/ FlushCommit(d) \/ FinalFlush(d) \/ Swap(d)
            \/ UNCHANGED target
         /\ (\E i \in Ids : ScanRow(d, i)) \/ UNCHANGED fresh
         /\ PrepareReload(d) \/ UNCHANGED strayed
         /\ AdvanceWatermark(d) \/ (UNCHANGED missed /\ Watermark(d)' = Watermark(d))
         /\ \A e \in Datasets : e # d => Watermark(e)' = Watermark(e)
<1> USE DEF RunStep, Pull
<1>1. UNCHANGED <<source, clock>>
  BY DEF RecordRunning, ReadWatermark, PrepareReload, OpenStream,
     DeliverRow, ScanRow, FlushCommit, FlushFail, StreamError, StreamDone,
     FinalFlush, FinalFlushFail, Swap, SwapAbandoned, Close, AdvanceWatermark,
     RecordOk, AppendOk, RefreshDerived, StepFails, RecordError, AppendError,
     RecordingFails, Release
<1>2. FlushCommit(d) \/ FinalFlush(d) \/ Swap(d) \/ UNCHANGED target
  BY DEF RecordRunning, ReadWatermark, PrepareReload, OpenStream,
     DeliverRow, ScanRow, FlushFail, StreamError, StreamDone, FinalFlushFail,
     SwapAbandoned, Close, AdvanceWatermark, RecordOk, AppendOk, RefreshDerived,
     StepFails, RecordError, AppendError, RecordingFails, Release
<1>3. (\E i \in Ids : ScanRow(d, i)) \/ UNCHANGED fresh
  BY DEF RecordRunning, ReadWatermark, PrepareReload, OpenStream,
     DeliverRow, FlushCommit, FlushFail, StreamError, StreamDone,
     FinalFlush, FinalFlushFail, Swap, SwapAbandoned, Close, AdvanceWatermark,
     RecordOk, AppendOk, RefreshDerived, StepFails, RecordError, AppendError,
     RecordingFails, Release
<1>4. PrepareReload(d) \/ UNCHANGED strayed
  BY DEF RecordRunning, ReadWatermark, OpenStream,
     DeliverRow, ScanRow, FlushCommit, FlushFail, StreamError, StreamDone,
     FinalFlush, FinalFlushFail, Swap, SwapAbandoned, Close, AdvanceWatermark,
     RecordOk, AppendOk, RefreshDerived, StepFails, RecordError, AppendError,
     RecordingFails, Release
<1>5. AdvanceWatermark(d) \/ UNCHANGED missed
  BY DEF RecordRunning, ReadWatermark, PrepareReload, OpenStream,
     DeliverRow, ScanRow, FlushCommit, FlushFail, StreamError, StreamDone,
     FinalFlush, FinalFlushFail, Swap, SwapAbandoned, Close,
     RecordOk, AppendOk, RefreshDerived, StepFails, RecordError, AppendError,
     RecordingFails, Release
<1>6. AdvanceWatermark(d) \/ Watermark(d)' = Watermark(d)
  <2>1. CASE RecordRunning(d) \/ RecordOk(d) \/ RecordError(d)
    <3>1. state[d] \in SyncState
      BY DEF TypeOK
    <3> QED
      BY <2>1, <3>1, SetStateKeeps
      DEF RecordRunning, RecordOk, RecordError, SyncState
  <2>2. CASE ~(RecordRunning(d) \/ RecordOk(d) \/ RecordError(d))
    BY <2>2
    DEF ReadWatermark, PrepareReload, OpenStream, DeliverRow,
        ScanRow, FlushCommit, FlushFail, StreamError, StreamDone, FinalFlush,
        FinalFlushFail, Swap, SwapAbandoned, Close, AppendOk, RefreshDerived,
        StepFails, AppendError, RecordingFails, Release, Watermark
  <2> QED
    BY <2>1, <2>2
<1>7. \A e \in Datasets : e # d => Watermark(e)' = Watermark(e)
  BY OthersKept DEF Unsettled
<1> QED
  BY <1>1, <1>2, <1>3, <1>4, <1>5, <1>6, <1>7

\* A chunk: rows move forward, none beyond the source.
LEMMA ChunkIsUpsert ==
  ASSUME TypeOK, NEW d \in Datasets, Sound(d),
         FlushCommit(d) \/ FinalFlush(d), target'[d] # target[d]
  PROVE  \A i \in Ids :
           \/ target'[d][i] = target[d][i]
           \/ /\ target'[d][i] > target[d][i]
              /\ target'[d][i] <= IF source[d][i] = 0 THEN clock ELSE source[d][i]
<1>1. /\ run[d].pc \in Following
      /\ \A i \in Ids : target'[d][i] = target[d][i]
                        \/ (run[d].snap[i] # 0 /\ target'[d][i] = run[d].snap[i])
  BY ChunkStep
<1>2. \A i \in Ids :
        /\ run[d].snap[i] <= clock
        /\ run[d].snap[i] # 0 => target[d][i] <= run[d].snap[i]
        /\ source[d][i] # 0 => run[d].snap[i] <= source[d][i]
  BY <1>1 DEF Sound, ReadsAge
<1>3. \A i \in Ids : /\ run[d].snap[i] \in Nat /\ target[d][i] \in Nat
                     /\ source[d][i] \in Nat
  BY NumbersType
<1> QED
  BY <1>1, <1>2, <1>3

\* The swap: the table becomes what the query read.
LEMMA SwapIsReplace ==
  ASSUME TypeOK, NEW d \in Datasets, Sound(d), Swap(d)
  PROVE  /\ \A i \in Ids \ fresh[d] : target'[d][i] = source[d][i]
         /\ \A i \in fresh[d] :
              /\ target'[d][i] <= IF source[d][i] = 0 THEN clock ELSE source[d][i]
              /\ target'[d][i] = 0 \/ target'[d][i] >= target[d][i]
<1>1. /\ target'[d] = run[d].snap /\ run[d].pc \in Following
      /\ run[d].scan = {} /\ run[d].kind = "truncate"
  BY SwapIsSnapshot DEF Swap, At, Following
<1>2. /\ \A i \in Ids :
           /\ run[d].snap[i] <= clock
           /\ source[d][i] # 0 => run[d].snap[i] <= source[d][i]
           /\ run[d].snap[i] # 0 => target[d][i] <= run[d].snap[i]
      /\ \A i \in Ids \ (run[d].scan \cup fresh[d]) :
           run[d].snap[i] = source[d][i]
  BY <1>1 DEF Sound, ReadsAge
<1>3. \A i \in Ids : run[d].snap[i] \in Nat /\ target[d][i] \in Nat
  BY NumbersType
<1>4. fresh[d] \subseteq Ids
  BY LocalsType
<1> QED
  BY <1>1, <1>2, <1>3, <1>4

LEMMA ContractTables ==
  Contract!Tables = Tables /\ Contract!Stamps = Stamps
BY DEF Tables, Versions, Stamps, Contract!Tables, Contract!Versions, Contract!Stamps

\* The step that moves the watermark.
LEMMA AdvanceIsVouch ==
  ASSUME TypeOK, TypeOK', NEW d \in Datasets, AdvanceWatermark(d),
         d \notin strayed => Sound(d) /\ Sound(d)'
  PROVE  \/ Contract!Vouch(d) \/ Contract!Unpromised(d) \/ UNCHANGED Contract!vars
<1> DEFINE w == run[d].maxwm
           mended == {i \in missed[d] : run[d].snap[i] = source[d][i]}
<1>1. UNCHANGED <<source, clock, target, fresh, strayed>> /\ RunStep(d)
  BY DEF AdvanceWatermark, RunStep
<1>2. \A e \in Datasets : e # d => Watermark(e)' = Watermark(e)
  BY <1>1, SeenSteps
<1>3. CASE w = 0
  <2>1. UNCHANGED <<missed, state>>
    BY <1>3 DEF AdvanceWatermark
  <2> QED
    BY <1>1, <2>1, Unseen DEF Watermark
<1>4. CASE w # 0
  <2>1. Watermark(d)' = w
    BY <1>4 DEF AdvanceWatermark, SetState, Watermark, TypeOK, SyncState
  <2>2. Saved' = [Saved EXCEPT ![d] = w]
    BY <1>2, <2>1 DEF Watermark, Saved
  <2>3. w \in Stamps
    BY DEF TypeOK, Run
  <2>4. missed' = [missed EXCEPT ![d] =
                     {i \in fresh[d] : Passed(d, i, w)} \cup (missed[d] \ mended)]
    BY <1>4 DEF AdvanceWatermark, TypeOK
  <2>5. CASE d \in strayed
    <3>1. {i \in fresh[d] : Passed(d, i, w)} \cup (missed[d] \ mended) \in SUBSET Ids
      BY LocalsType
    <3> QED
      BY <1>1, <2>2, <2>3, <2>4, <2>5, <3>1, ContractTables
      DEF Contract!Unpromised, Saved
  <2>6. CASE d \notin strayed
    <3>1. Watermark(d)' <= StampOf(clock)
      BY <1>1, <2>6 DEF Sound, Behind
    <3>2. \A i \in Ids \ missed'[d] : Passed(d, i, w) => target[d][i] = source[d][i]
      BY <1>1, <2>1, <2>6 DEF Sound, CoveredAt, Passed
    <3>3. missed'[d] \subseteq fresh[d] \cup (missed[d] \ mended)
      BY <2>4 DEF TypeOK
    <3>4. \A i \in Ids \ (fresh[d] \cup (missed[d] \ mended)) :
            Contract!Passed(d, i, w) => target[d][i] = source[d][i]
      BY <3>2, <3>3 DEF Passed, Contract!Passed
    <3>5. missed' = [missed EXCEPT ![d] =
             {i \in fresh[d] : Contract!Passed(d, i, w)} \cup (missed[d] \ mended)]
      BY <2>4 DEF Passed, Contract!Passed
    <3>6. mended \in SUBSET missed[d]
      OBVIOUS
    <3> HIDE DEF mended, w
    <3> QED
      BY <1>1, <2>1, <2>2, <2>3, <2>6, <3>1, <3>4, <3>5, <3>6, ContractTables
      DEF Contract!Vouch, Saved
  <2> QED
    BY <2>5, <2>6
<1> QED
  BY <1>3, <1>4

LEMMA ContractNext ==
  ASSUME TypeOK, TypeOK', AllSound, AllSound', [Next]_vars
  PROVE  [Contract!Next]_(Contract!vars)
<1>1. ASSUME NEW e \in Datasets, NEW i \in Ids, SourceWrite(e, i)
      PROVE  Contract!Write(e, i)
  <2>1. UNCHANGED Saved /\ Saved[e] = state[e].last_watermark
    BY <1>1 DEF SourceWrite, Saved
  <2> QED
    BY <1>1, <2>1 DEF SourceWrite, Contract!Write, Saved
<1>2. ASSUME NEW e \in Datasets, NEW i \in Ids, SourceDelete(e, i)
      PROVE  Contract!Delete(e, i)
  BY <1>2 DEF SourceDelete, Contract!Delete
<1>3. ASSUME NEW d \in Datasets, RunStep(d)
      PROVE  \/ \E i \in Ids : Contract!Look(d, i)
             \/ \E ds \in SUBSET Datasets : Contract!StrayWrite(ds)
             \/ Contract!Upsert(d) \/ Contract!Replace(d) \/ Contract!Vouch(d)
             \/ Contract!Unpromised(d) \/ UNCHANGED Contract!vars
  <2>1. UNCHANGED <<source, clock>>
    BY <1>3, SeenSteps
  <2>2. \A e \in Datasets : e # d => target'[e] = target[e]
    BY <1>3, OthersKept DEF Unsettled
  <2>3. CASE (FlushCommit(d) \/ FinalFlush(d) \/ Swap(d)) /\ target'[d] # target[d]
    <3>1. UNCHANGED <<Saved, fresh, missed, strayed>>
      BY <2>3 DEF FlushCommit, FinalFlush, Swap, Saved
    <3>2. target' = [target EXCEPT ![d] = target'[d]]
      BY <2>2 DEF TypeOK
    <3>3. target'[d] \in Contract!Tables
      BY ContractTables DEF TypeOK
    <3>4. CASE d \in strayed
      BY <2>1, <3>1, <3>2, <3>3, <3>4 DEF Contract!Unpromised, Saved
    <3>5. CASE d \notin strayed
      <4>1. Sound(d)
        BY <3>5 DEF AllSound
      <4>2. CASE FlushCommit(d) \/ FinalFlush(d)
        BY <2>1, <2>3, <3>1, <3>2, <3>3, <3>5, <4>1, <4>2, ChunkIsUpsert
        DEF Contract!Upsert, Saved
      <4>3. CASE Swap(d)
        BY <2>1, <3>1, <3>2, <3>3, <3>5, <4>1, <4>3, SwapIsReplace
        DEF Contract!Replace, Saved
      <4> QED
        BY <2>3, <4>2, <4>3
    <3> QED
      BY <3>4, <3>5
  <2>4. CASE AdvanceWatermark(d)
    <3>1. d \notin strayed => Sound(d) /\ Sound(d)'
      BY <2>4 DEF AllSound, AdvanceWatermark
    <3> QED
      BY <2>4, <3>1, AdvanceIsVouch
  <2>5. CASE \E i \in Ids : ScanRow(d, i)
    BY <2>5 DEF ScanRow, Contract!Look
  <2>6. CASE PrepareReload(d)
    <3>1. CASE Sharing(d) = {}
      BY <2>6, <3>1, Unseen DEF PrepareReload, Watermark
    <3>2. CASE Sharing(d) # {}
      <4>1. Sharing(d) \cup {d} \in SUBSET Datasets
        BY DEF Sharing
      <4>2. strayed' = strayed \cup (Sharing(d) \cup {d})
        BY <2>6, <3>2 DEF PrepareReload
      <4>3. target \in [Datasets -> Contract!Tables]
        BY ContractTables DEF TypeOK
      <4>4. Contract!StrayWrite(Sharing(d) \cup {d})
        BY <2>6, <4>2, <4>3 DEF PrepareReload, Contract!StrayWrite
      <4> QED
        BY <4>1, <4>4
    <3> QED
      BY <3>1, <3>2
  <2>7. CASE target' = target /\ ~AdvanceWatermark(d) /\ ~PrepareReload(d)
             /\ ~(\E i \in Ids : ScanRow(d, i))
    <3>1. UNCHANGED <<fresh, missed, strayed>>
      BY <1>3, <2>7, SeenSteps
    <3>2. \A e \in Datasets : Watermark(e)' = Watermark(e)
      BY <1>3, <2>7, SeenSteps
    <3> QED
      BY <2>1, <2>7, <3>1, <3>2, Unseen
  <2>8. target'[d] = target[d] => target' = target
    BY <2>2 DEF TypeOK
  <2> QED
    BY <1>3, <2>3, <2>4, <2>5, <2>6, <2>7, <2>8, SeenSteps
<1>4. ASSUME NEW d \in Datasets,
             (\E kind \in Kinds : StartRun(d, kind)) \/ CancelSync(d)
      PROVE  UNCHANGED Contract!vars
  BY <1>4, Unseen DEF StartRun, CancelSync, Watermark
<1>5. ASSUME NEW s \in stray, StrayCommit(s)
      PROVE  \E ds \in SUBSET Datasets : Contract!StrayWrite(ds)
  <2> DEFINE ds == IF s.kind = "truncate"
                   THEN {d \in Datasets :
                           ReloadName(d) = ReloadName(s.ds) /\ Reloading(d)}
                   ELSE {s.ds}
  <2>1. s.ds \in Datasets /\ ds \in SUBSET Datasets
    BY DEF TypeOK, Stray
  <2>2. strayed' = strayed \cup ds /\ UNCHANGED <<source, clock, Saved, fresh, missed>>
    BY <1>5 DEF StrayCommit, Saved
  <2>3. target' \in [Datasets -> Contract!Tables]
    BY ContractTables DEF TypeOK
  <2>4. \A d \in Datasets \ strayed' : target'[d] = target[d]
    BY <1>5, <2>1, <2>2 DEF StrayCommit, Land, TypeOK
  <2> HIDE DEF ds
  <2> QED
    BY <2>1, <2>2, <2>3, <2>4 DEF Contract!StrayWrite, Saved
<1>6. ASSUME NEW s \in stray, StrayFail(s) PROVE UNCHANGED Contract!vars
  BY <1>6, Unseen DEF StrayFail, Watermark
<1>7. CASE Crash \/ UNCHANGED vars
  BY <1>7, Unseen DEF Crash, vars, Watermark
<1> QED
  BY <1>1, <1>2, <1>3, <1>4, <1>5, <1>6, <1>7 DEF Next, Contract!Next

\* A pipe keeps its contract.
THEOREM ContractIsKept == Spec => KeepsContract
<1>1. TypeOK /\ TypeOK' /\ AllSound /\ AllSound' /\ [Next]_vars
        => [Contract!Next]_(Contract!vars)
  BY ContractNext
<1> QED
  BY <1>1, ContractInit, TypeCorrect, PipesAreSound, PTL
  DEF Spec, KeepsContract, Contract!Spec

-----------------------------------------------------------------------------
\* A later write never carries an earlier watermark; 0 is "no watermark yet".
Stamped ==
  /\ MaxClock \in Nat
  /\ StampOf(0) = 0
  /\ \A v \in Contract!Versions : StampOf(v) \in Nat
  /\ \A u, v \in Contract!Versions : u <= v => StampOf(u) <= StampOf(v)

LEMMA ContractTypeInit ==
  ASSUME Stamped, Contract!Init
  PROVE  Contract!TypeOK /\ Contract!Faithful
<1>1. 0 \in Contract!Versions /\ 0 \in Contract!Stamps
  BY DEF Stamped, Contract!Versions, Contract!Stamps
<1> QED
  BY <1>1 DEF Saved, Contract!Init, Contract!TypeOK, Contract!Faithful, Contract!Passed, Contract!Tables, Stamped

\* A write is newer than anything the watermark has passed, or missed.
LEMMA FaithfulWrite ==
  ASSUME Stamped, Contract!TypeOK, Contract!Faithful, NEW e \in Datasets, NEW k \in Ids,
         Contract!Write(e, k)
  PROVE  Contract!TypeOK' /\ Contract!Faithful'
<1>1. /\ clock \in Nat /\ clock \in Contract!Versions /\ clock' = clock + 1
      /\ clock + 1 \in Contract!Versions
  BY DEF Saved, Contract!Write, Contract!TypeOK, Contract!Versions, Stamped
<1>2. /\ StampOf(clock) <= StampOf(clock + 1)
      /\ StampOf(clock) \in Nat /\ StampOf(clock + 1) \in Nat
  BY <1>1 DEF Stamped
<1>3. /\ source' \in [Datasets -> Contract!Tables]
      /\ \A d \in Datasets, i \in Ids :
           \/ source'[d][i] = source[d][i] /\ (d # e \/ i # k)
           \/ source'[d][i] = clock + 1 /\ d = e /\ i = k
  BY <1>1 DEF Saved, Contract!Write, Contract!TypeOK, Contract!Tables
<1>4. UNCHANGED <<target, Saved, strayed>>
  BY DEF Saved, Contract!Write
<1>5. \A d \in Datasets, i \in Ids : source[d][i] \in Nat
  BY DEF Saved, Contract!TypeOK, Contract!Tables, Contract!Versions
<1>6. \A d \in Datasets : Saved[d] \in Nat
  BY DEF Saved, Contract!TypeOK, Contract!Stamps, Stamped
<1>7. /\ fresh' \in [Datasets -> SUBSET Ids] /\ missed' \in [Datasets -> SUBSET Ids]
      /\ \A d \in Datasets, i \in Ids :
           d # e \/ i # k => /\ i \in fresh'[d] <=> i \in fresh[d]
                             /\ i \in missed'[d] <=> i \in missed[d]
      /\ StampOf(clock + 1) <= Saved[e] => k \in missed'[e]
  BY DEF Saved, Contract!Write, Contract!TypeOK
<1>8. Contract!TypeOK'
  BY <1>1, <1>2, <1>3, <1>4, <1>5, <1>6, <1>7 DEF Saved, Contract!TypeOK
<1>9. Contract!Faithful'
  <2> SUFFICES ASSUME NEW d \in Datasets, d \notin strayed', NEW i \in Ids,
                      Contract!Passed(d, i, Saved[d])'
               PROVE  \/ i \in missed'[d]
                      \/ i \notin fresh'[d] /\ target'[d][i] = source'[d][i]
    BY DEF Contract!Faithful, Saved
  <2>1. CASE d = e /\ i = k
    BY <1>3, <1>4, <1>7, <2>1 DEF Contract!Passed
  <2>2. CASE d # e \/ i # k
    <3>1. source'[d][i] = source[d][i] /\ Contract!Passed(d, i, Saved[d])
      BY <1>3, <1>4, <2>2 DEF Contract!Passed
    <3>2. \/ i \in missed[d]
          \/ i \notin fresh[d] /\ target[d][i] = source[d][i]
      BY <1>4, <3>1 DEF Contract!Faithful, Saved
    <3> QED
      BY <1>4, <1>7, <2>2, <3>1, <3>2
  <2> QED
    BY <2>1, <2>2
<1> QED
  BY <1>8, <1>9

LEMMA FaithfulStep ==
  ASSUME Stamped, Contract!TypeOK, Contract!Faithful, NEW d \in Datasets,
         \/ \E i \in Ids : Contract!Delete(d, i) \/ Contract!Look(d, i)
         \/ Contract!Upsert(d) \/ Contract!Replace(d)
         \/ Contract!Vouch(d) \/ Contract!Unpromised(d)
  PROVE  Contract!TypeOK' /\ Contract!Faithful'
<1>1. 0 \in Contract!Versions /\ clock \in Nat
  BY DEF Stamped, Contract!Versions, Contract!TypeOK
<1>2. \A e \in Datasets, i \in Ids :
        source[e][i] \in Nat /\ target[e][i] \in Nat
  BY DEF Saved, Contract!TypeOK, Contract!Tables, Contract!Versions
<1>3. ASSUME NEW i \in Ids, Contract!Delete(d, i)
      PROVE  Contract!TypeOK' /\ Contract!Faithful'
  <2>1. /\ source' \in [Datasets -> Contract!Tables]
        /\ \A e \in Datasets, j \in Ids :
             \/ source'[e][j] = 0
             \/ /\ source'[e][j] = source[e][j]
                /\ j \in fresh'[e] <=> j \in fresh[e]
                /\ j \in missed'[e] <=> j \in missed[e]
        /\ fresh' \in [Datasets -> SUBSET Ids]
        /\ missed' \in [Datasets -> SUBSET Ids]
    BY <1>1, <1>3 DEF Saved, Contract!Delete, Contract!TypeOK, Contract!Tables
  <2>2. UNCHANGED <<clock, target, Saved, strayed>>
    BY <1>3 DEF Contract!Delete, Saved
  <2>3. Contract!TypeOK'
    BY <1>1, <2>1, <2>2 DEF Saved, Contract!TypeOK
  <2>4. Contract!Faithful'
    BY <2>1, <2>2 DEF Saved, Contract!Faithful, Contract!Passed
  <2> QED
    BY <2>3, <2>4
<1>4. ASSUME NEW i \in Ids, Contract!Look(d, i)
      PROVE  Contract!TypeOK' /\ Contract!Faithful'
  <2>1. /\ fresh' \in [Datasets -> SUBSET Ids]
        /\ \A e \in Datasets : fresh'[e] \subseteq fresh[e]
    BY <1>4 DEF Contract!Look, Contract!TypeOK
  <2>2. UNCHANGED <<source, clock, target, Saved, missed, strayed>>
    BY <1>4 DEF Contract!Look, Saved
  <2> QED
    BY <2>1, <2>2 DEF Saved, Contract!TypeOK, Contract!Faithful, Contract!Passed
<1>5. CASE Contract!Upsert(d)
  <2>1. PICK t \in Contract!Tables :
          /\ \A i \in Ids :
               \/ t[i] = target[d][i]
               \/ /\ t[i] > target[d][i]
                  /\ t[i] <= IF source[d][i] = 0 THEN clock ELSE source[d][i]
          /\ target' = [target EXCEPT ![d] = t]
    BY <1>5 DEF Contract!Upsert
  <2>2. \A i \in Ids : t[i] \in Nat
    BY DEF Contract!Tables, Contract!Versions
  <2>3. d \notin strayed /\ UNCHANGED <<source, clock, Saved, fresh, missed, strayed>>
    BY <1>5 DEF Saved, Contract!Upsert
  <2>4. Contract!TypeOK'
    BY <2>1, <2>3 DEF Saved, Contract!TypeOK
  <2>5. \A i \in Ids : Contract!Passed(d, i, Saved[d]) =>
          i \in missed[d] \/ (i \notin fresh[d] /\ t[i] = source[d][i])
    BY <1>2, <2>1, <2>2, <2>3 DEF Saved, Contract!Faithful, Contract!Passed
  <2> QED
    BY <2>1, <2>3, <2>4, <2>5 DEF Saved, Contract!Faithful, Contract!Passed, Contract!TypeOK
<1>6. CASE Contract!Replace(d)
  <2>1. PICK t \in Contract!Tables :
          /\ \A i \in Ids \ fresh[d] : t[i] = source[d][i]
          /\ target' = [target EXCEPT ![d] = t]
    BY <1>6 DEF Contract!Replace
  <2>2. d \notin strayed /\ UNCHANGED <<source, clock, Saved, fresh, missed, strayed>>
    BY <1>6 DEF Saved, Contract!Replace
  <2>3. Contract!TypeOK'
    BY <2>1, <2>2 DEF Saved, Contract!TypeOK
  <2>4. \A i \in Ids : Contract!Passed(d, i, Saved[d]) =>
          i \in missed[d] \/ (i \notin fresh[d] /\ t[i] = source[d][i])
    BY <2>1, <2>2 DEF Saved, Contract!Faithful
  <2> QED
    BY <2>1, <2>2, <2>3, <2>4 DEF Saved, Contract!Faithful, Contract!Passed, Contract!TypeOK
<1>7. CASE Contract!Vouch(d)
  <2>1. PICK w \in Contract!Stamps, mended \in SUBSET missed[d] :
          /\ w <= StampOf(clock)
          /\ \A i \in Ids \ (fresh[d] \cup (missed[d] \ mended)) :
               Contract!Passed(d, i, w) => target[d][i] = source[d][i]
          /\ Saved' = [Saved EXCEPT ![d] = w]
          /\ missed' = [missed EXCEPT ![d] =
                          {i \in fresh[d] : Contract!Passed(d, i, w)} \cup
                          (missed[d] \ mended)]
    BY <1>7 DEF Saved, Contract!Vouch
  <2>2. UNCHANGED <<source, clock, target, fresh, strayed>>
    BY <1>7 DEF Contract!Vouch
  <2>3. Saved \in [Datasets -> Contract!Stamps] /\ missed \in [Datasets -> SUBSET Ids]
        /\ fresh[d] \subseteq Ids
    BY DEF Contract!TypeOK, Saved
  <2>4. Saved'[d] = w /\ missed'[d] = {i \in fresh[d] : Contract!Passed(d, i, w)}
                                      \cup (missed[d] \ mended)
    BY <2>1, <2>3
  <2>5. \A e \in Datasets : e # d => Saved'[e] = Saved[e] /\ missed'[e] = missed[e]
    BY <2>1, <2>3
  <2>6. missed' \in [Datasets -> SUBSET Ids]
    <3>1. missed'[d] \in SUBSET Ids
      BY <2>3, <2>4
    <3> QED
      BY <2>1, <2>3, <2>4, <3>1
  <2>7. Saved' \in [Datasets -> Contract!Stamps]
    BY <2>1, <2>3
  <2>8. Contract!TypeOK'
    BY <2>1, <2>2, <2>4, <2>5, <2>6, <2>7 DEF Saved, Contract!TypeOK
  <2>9. \A i \in Ids : Contract!Passed(d, i, w) =>
          i \in missed'[d] \/ (i \notin fresh[d] /\ target[d][i] = source[d][i])
    BY <2>1, <2>4
  <2>10. ASSUME NEW e \in Datasets, e \notin strayed, NEW i \in Ids,
                Contract!Passed(e, i, Saved'[e])
         PROVE  i \in missed'[e] \/ (i \notin fresh[e] /\ target[e][i] = source[e][i])
    <3>1. CASE e = d
      BY <2>4, <2>9, <2>10, <3>1
    <3>2. CASE e # d
      BY <2>5, <2>10, <3>2 DEF Contract!Faithful, Saved
    <3> QED
      BY <3>1, <3>2
  <2> QED
    BY <2>2, <2>8, <2>10 DEF Contract!Faithful, Contract!Passed, Saved
<1>8. CASE Contract!Unpromised(d)
  <2>1. d \in strayed /\ UNCHANGED <<source, clock, fresh, strayed>>
    BY <1>8 DEF Contract!Unpromised
  <2>2. CASE (\E t \in Contract!Tables : target' = [target EXCEPT ![d] = t])
             /\ UNCHANGED <<Saved, missed>>
    BY <2>1, <2>2 DEF Saved, Contract!Faithful, Contract!Passed, Contract!TypeOK
  <2>3. CASE /\ \E w \in Contract!Stamps : Saved' = [Saved EXCEPT ![d] = w]
             /\ \E rows \in SUBSET Ids : missed' = [missed EXCEPT ![d] = rows]
             /\ UNCHANGED target
    <3>1. PICK w \in Contract!Stamps : Saved' = [Saved EXCEPT ![d] = w]
      BY <2>3
    <3>2. PICK rows \in SUBSET Ids : missed' = [missed EXCEPT ![d] = rows]
      BY <2>3
    <3> QED
      BY <2>1, <2>3, <3>1, <3>2
      DEF Saved, Contract!Faithful, Contract!Passed, Contract!TypeOK
  <2> QED
    BY <1>8, <2>2, <2>3 DEF Saved, Contract!Unpromised
<1> QED
  BY <1>3, <1>4, <1>5, <1>6, <1>7, <1>8

LEMMA FaithfulStray ==
  ASSUME Contract!TypeOK, Contract!Faithful, NEW ds \in SUBSET Datasets,
         Contract!StrayWrite(ds)
  PROVE  Contract!TypeOK' /\ Contract!Faithful'
BY DEF Contract!StrayWrite, Contract!Faithful, Contract!Passed, Contract!TypeOK

\* Whatever keeps the contract keeps the promise of its watermark: a row it has
\* passed is in the table as it is at the source (dataset-sync.service.ts
\* 228-238), or is known to be missed.
THEOREM ContractIsFaithful == Contract!Spec => []Contract!Faithful
<1>1. Stamped
  BY StampsType, ConstantsAssumption, StampAssumption, StampType
  DEF Stamped, Versions, Contract!Versions
<1>2. Contract!Init => Contract!TypeOK /\ Contract!Faithful
  BY <1>1, ContractTypeInit
<1>3. Contract!TypeOK /\ Contract!Faithful /\ [Contract!Next]_(Contract!vars)
        => (Contract!TypeOK /\ Contract!Faithful)'
  <2> SUFFICES ASSUME Contract!TypeOK, Contract!Faithful, [Contract!Next]_(Contract!vars)
               PROVE  Contract!TypeOK' /\ Contract!Faithful'
    OBVIOUS
  <2>1. CASE Contract!Next
    BY <2>1, <1>1, FaithfulWrite, FaithfulStep, FaithfulStray DEF Contract!Next
  <2>2. CASE UNCHANGED Contract!vars
    BY <2>2 DEF Contract!vars, Contract!TypeOK, Contract!Faithful, Contract!Passed
  <2> QED
    BY <2>1, <2>2
<1> QED
  BY <1>1, <1>2, <1>3, PTL DEF Contract!Spec
=============================================================================
