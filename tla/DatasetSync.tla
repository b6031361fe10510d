---------------------------- MODULE DatasetSync ----------------------------
(***************************************************************************)
(* The pipes of backend/src/sync-source: DatasetSyncService copies the     *)
(* rows of each dataset from the MS SQL reporting feed into the dataset's  *)
(* Postgres table, incrementally (rows above a watermark), in full, or as  *)
(* a Truncate & Sync that reloads a second table and swaps it in.          *)
(*                                                                         *)
(* A step of this module is the code between two awaits: Node runs it      *)
(* without interruption, and everything else (other pipes, the source's    *)
(* events, a cancel, writers at the source, a crash) may come in between.  *)
(*                                                                         *)
(* Data are abstracted to versions.  A table maps a record id to the       *)
(* version of the row it holds, 0 when it holds none; every write at the   *)
(* source makes a new version, and StampOf gives the value that version    *)
(* carries in the watermark column.                                        *)
(***************************************************************************)
EXTENDS Integers, FiniteSets, Sequences

CONSTANTS
  Datasets,       \* the pipes: dataset keys with a source table
  Ids,            \* the record ids of the source rows
  Watermarked,    \* the datasets whose watermark_column is set
  ReloadName(_),  \* the name of the reload table copy() derives from a key
  StampOf(_),     \* the watermark-column value of a version
  ChunkRows,      \* CHUNK_ROWS: a buffer of this many rows is flushed
  NoTable,        \* the content of a reload table that does not exist
  MaxClock,       \* bound: how many writes the source makes
  MaxStray        \* bound: how many flushes may outlive their run at a time

Versions == 0..MaxClock
Tables == [Ids -> Versions]
Stamps == {StampOf(v) : v \in Versions}

ASSUME ConstantsAssumption ==
  /\ IsFiniteSet(Ids)
  /\ Watermarked \subseteq Datasets
  /\ ChunkRows \in Nat \ {0}
  /\ MaxClock \in Nat
  /\ MaxStray \in Nat
  /\ NoTable \notin Tables

\* A later write never carries an earlier watermark, but may carry the same one;
\* 0 is "no watermark yet".
ASSUME StampAssumption ==
  /\ StampOf(0) = 0
  /\ \A v \in 1..MaxClock : StampOf(v) \in Nat \ {0}
  /\ \A u, v \in Versions : u <= v => StampOf(u) <= StampOf(v)

VARIABLES
  source,      \* the source table of each pipe
  clock,       \* the newest version written at any source
  target,      \* each dataset's own table in Postgres
  reload,      \* the sync_reload_* tables, by name
  state,       \* dataset_sync_state, one row per dataset
  history,     \* the dataset_sync_history rows of each dataset's latest run
  running,     \* the in-memory lock: the datasets being synced
  cancelable,  \* the datasets whose source request can be cancelled
  run,         \* the local variables of each dataset's syncDataset call
  stray,       \* flushes in flight whose run has already been rejected
  dirty,       \* datasets with rows committed that no refresh has covered
  fresh,       \* history: source rows changed since a query of d read them
  missed,      \* history: rows whose present version the watermark has passed
               \* without a query having returned it
  strayed      \* history: datasets whose rows another run has written

vars == <<source, clock, target, reload, state, history, running, cancelable,
          run, stray, dirty, fresh, missed, strayed>>

-----------------------------------------------------------------------------
(* Tables and runs *)

EmptyTable == [i \in Ids |-> 0]

Rows(t) == {i \in Ids : t[i] # 0}

\* INSERT .. ON CONFLICT (record_id) DO UPDATE: the rows of s over those of t.
Merge(t, s) == [i \in Ids |-> IF s[i] # 0 THEN s[i] ELSE t[i]]

Kinds == {"incremental", "full", "truncate"}

BeforeStream == {"preflight", "since", "prepare", "open"}
AfterCopy == {"advance", "recordOk", "historyOk", "refresh"}
Recording == {"failed", "historyErr"}
Pcs == BeforeStream \cup AfterCopy \cup Recording \cup
       {"idle", "streaming", "draining", "swapping", "closing", "unwinding",
        "release"}

Run == [pc : Pcs, kind : Kinds, since : Stamps, maxwm : Stamps,
        snap : Tables, scan : SUBSET Ids, wire : Tables,
        buffer : Tables, flight : Tables,
        total : Nat, committed : Nat, saved : Nat, cancelled : BOOLEAN]

IdleRun == [pc |-> "idle", kind |-> "incremental", since |-> 0, maxwm |-> 0,
            snap |-> EmptyTable, scan |-> {}, wire |-> EmptyTable,
            buffer |-> EmptyTable, flight |-> EmptyTable,
            total |-> 0, committed |-> 0, saved |-> 0, cancelled |-> FALSE]

Stray == [ds : Datasets, kind : Kinds, rows : Tables]

SyncState == [last_status : {"never", "running", "ok", "error"},
              rows_synced : Nat, last_watermark : Stamps]

ReloadNames == {ReloadName(d) : d \in Datasets}

At(d, pc) == run[d].pc = pc

\* d's syncDataset call goes on with the locals r, or at the await pc.
Becomes(d, r) == run' = [run EXCEPT ![d] = r]
Goto(d, pc) == Becomes(d, [run[d] EXCEPT !.pc = pc])

\* setState: d's row of dataset_sync_state becomes s.
SetState(d, s) == state' = [state EXCEPT ![d] = s]

\* The WHERE clause of the source query: no clause without both a watermark
\* column and a since, and strictly above since otherwise.
Matches(d, v) ==
  /\ v # 0
  /\ \/ d \notin Watermarked
     \/ run[d].since = 0
     \/ StampOf(v) > run[d].since

Init ==
  /\ source = [d \in Datasets |-> EmptyTable]
  /\ clock = 0
  /\ target = [d \in Datasets |-> EmptyTable]
  /\ reload = [n \in ReloadNames |-> NoTable]
  /\ state = [d \in Datasets |->
                [last_status |-> "never", rows_synced |-> 0,
                 last_watermark |-> 0]]
  /\ history = [d \in Datasets |-> <<>>]
  /\ running = {}
  /\ cancelable = {}
  /\ run = [d \in Datasets |-> IdleRun]
  /\ stray = {}
  /\ dirty = {}
  /\ fresh = [d \in Datasets |-> {}]
  /\ missed = [d \in Datasets |-> {}]
  /\ strayed = {}

-----------------------------------------------------------------------------
(* The source, as its other writers change it *)

\* d's watermark has passed the source row i: no incremental query returns it.
Passed(d, i, watermark) ==
  source[d][i] # 0 /\ StampOf(source[d][i]) <= watermark

\* A row written with a stamp the watermark has reached is missed at once.
SourceWrite(d, i) ==
  /\ clock < MaxClock
  /\ clock' = clock + 1
  /\ source' = [source EXCEPT ![d][i] = clock + 1]
  /\ fresh' = [fresh EXCEPT ![d] = @ \cup {i}]
  /\ missed' = [missed EXCEPT ![d] =
                  IF StampOf(clock + 1) <= state[d].last_watermark
                  THEN @ \cup {i} ELSE @ \ {i}]
  /\ UNCHANGED <<target, reload, state, history, running, cancelable, run,
                 stray, dirty, strayed>>

SourceDelete(d, i) ==
  /\ source[d][i] # 0
  /\ source' = [source EXCEPT ![d][i] = 0]
  /\ fresh' = [fresh EXCEPT ![d] = @ \cup {i}]
  /\ missed' = [missed EXCEPT ![d] = @ \ {i}]
  /\ UNCHANGED <<clock, target, reload, state, history, running, cancelable,
                 run, stray, dirty, strayed>>

-----------------------------------------------------------------------------
(* syncDataset up to the source query *)

\* The check and the add are one synchronous step: there is no await between.
StartRun(d, kind) ==
  /\ d \notin running
  /\ running' = running \cup {d}
  /\ Becomes(d, [IdleRun EXCEPT !.pc = "preflight", !.kind = kind])
  /\ history' = [history EXCEPT ![d] = <<>>]
  /\ UNCHANGED <<source, clock, target, reload, state, cancelable, stray,
                 dirty, fresh, missed, strayed>>

RecordRunning(d) ==
  /\ At(d, "preflight")
  /\ SetState(d, [state[d] EXCEPT !.last_status = "running"])
  /\ Goto(d, "since")
  /\ UNCHANGED <<source, clock, target, reload, history, running, cancelable,
                 stray, dirty, fresh, missed, strayed>>

\* A slip: a Truncate & Sync, too, starts from the watermark.
ReadWatermarkSlip(d) ==
  /\ At(d, "since")
  /\ LET since == IF run[d].kind # "full" THEN state[d].last_watermark ELSE 0
     IN  Becomes(d, [run[d] EXCEPT
           !.pc = IF run[d].kind = "truncate" THEN "prepare" ELSE "open",
           !.since = since,
           !.maxwm = since])
  /\ UNCHANGED <<source, clock, target, reload, state, history, running,
                 cancelable, stray, dirty, fresh, missed, strayed>>

\* Only an incremental sync starts from the saved watermark.
ReadWatermark(d) ==
  /\ At(d, "since")
  /\ LET since == IF run[d].kind = "incremental"
                  THEN state[d].last_watermark ELSE 0
     IN  Becomes(d, [run[d] EXCEPT
           !.pc = IF run[d].kind = "truncate" THEN "prepare" ELSE "open",
           !.since = since,
           !.maxwm = since])
  /\ UNCHANGED <<source, clock, target, reload, state, history, running,
                 cancelable, stray, dirty, fresh, missed, strayed>>

\* d's run has a reload table of its own making.
Reloading(d) ==
  /\ run[d].kind = "truncate"
  /\ run[d].pc \in {"open", "streaming", "draining", "swapping", "closing",
                    "unwinding"}

\* Keys that differ only in a replaced character, as the seeded archer-findings
\* and an archer_findings, give one name: both runs then use one table.
Sharing(d) ==
  {e \in Datasets \ {d} : ReloadName(e) = ReloadName(d) /\ Reloading(e)}

\* A slip: CREATE TABLE IF NOT EXISTS, without the DROP.
PrepareReloadSlip(d) ==
  /\ At(d, "prepare")
  /\ reload' = [reload EXCEPT ![ReloadName(d)] =
                   IF @ = NoTable THEN EmptyTable ELSE @]
  /\ strayed' = IF Sharing(d) = {} THEN strayed
                ELSE strayed \cup Sharing(d) \cup {d}
  /\ Goto(d, "open")
  /\ UNCHANGED <<source, clock, target, state, history, running, cancelable,
                 stray, dirty, fresh, missed>>

\* DROP TABLE IF EXISTS, CREATE TABLE .. LIKE and the primary key.
PrepareReload(d) ==
  /\ At(d, "prepare")
  /\ reload' = [reload EXCEPT ![ReloadName(d)] = EmptyTable]
  /\ strayed' = IF Sharing(d) = {} THEN strayed
                ELSE strayed \cup Sharing(d) \cup {d}
  /\ Goto(d, "open")
  /\ UNCHANGED <<source, clock, target, state, history, running, cancelable,
                 stray, dirty, fresh, missed>>

\* streamQuery sends the query and copy() registers the request.
OpenStream(d) ==
  /\ At(d, "open")
  /\ Becomes(d, [run[d] EXCEPT !.pc = "streaming", !.snap = EmptyTable,
                               !.scan = Ids, !.wire = EmptyTable])
  /\ cancelable' = cancelable \cup {d}
  /\ UNCHANGED <<source, clock, target, reload, state, history, running, stray,
                 dirty, fresh, missed, strayed>>

-----------------------------------------------------------------------------
(* The pull: row events, chunk flushes, errors and cancellation *)

\* The server gets to the row i, at any time while it runs the query: a plain
\* SELECT * reads from no snapshot.  A row that satisfies the WHERE is sent.
\* snap[i] is the row as it was read; a row the query passes over for its stamp
\* counts as read unless it was missed before.
ScanRow(d, i) ==
  /\ At(d, "streaming") /\ ~run[d].cancelled
  /\ i \in run[d].scan
  /\ LET v == source[d][i]
         returned == Matches(d, v)
     IN  Becomes(d, [run[d] EXCEPT
           !.scan = run[d].scan \ {i},
           !.wire[i] = IF returned THEN v ELSE 0,
           !.snap[i] = IF returned \/ i \notin missed[d] THEN v ELSE 0])
  /\ fresh' = [fresh EXCEPT ![d] = @ \ {i}]
  /\ UNCHANGED <<source, clock, target, reload, state, history, running,
                 cancelable, stray, dirty, missed, strayed>>

Paused(d) == run[d].flight # EmptyTable

\* The 'row' handler: count, raise the watermark, buffer, and at CHUNK_ROWS
\* pause the request and start a flush.
Buffered(d, i) ==
  LET v      == run[d].wire[i]
      filled == [run[d].buffer EXCEPT ![i] = v]
      full   == Cardinality(Rows(filled)) >= ChunkRows
      newer  == d \in Watermarked /\ StampOf(v) > run[d].maxwm
  IN  [run[d] EXCEPT
         !.wire[i] = 0,
         !.total = run[d].total + 1,
         !.maxwm = IF newer THEN StampOf(v) ELSE run[d].maxwm,
         !.buffer = IF full THEN EmptyTable ELSE filled,
         !.flight = IF full THEN filled ELSE EmptyTable]

DeliverRow(d, i) ==
  /\ At(d, "streaming") /\ ~Paused(d) /\ ~run[d].cancelled
  /\ run[d].wire[i] # 0
  /\ Becomes(d, Buffered(d, i))
  /\ UNCHANGED <<source, clock, target, reload, state, history, running,
                 cancelable, stray, dirty, fresh, missed, strayed>>

CanLand(d, kind) == kind = "truncate" => reload[ReloadName(d)] # NoTable

\* The merge of a chunk into writeTarget: the reload table of a Truncate &
\* Sync, the dataset's own table otherwise.
Land(d, kind, rows) ==
  IF kind = "truncate"
  THEN /\ reload' = [reload EXCEPT ![ReloadName(d)] = Merge(@, rows)]
       /\ UNCHANGED <<target, dirty>>
  ELSE /\ target' = [target EXCEPT ![d] = Merge(@, rows)]
       /\ dirty' = dirty \cup {d}
       /\ UNCHANGED reload

FlushCommit(d) ==
  /\ At(d, "streaming") /\ Paused(d)
  /\ CanLand(d, run[d].kind)
  /\ Land(d, run[d].kind, run[d].flight)
  /\ Becomes(d, [run[d] EXCEPT
       !.committed = run[d].committed + Cardinality(Rows(run[d].flight)),
       !.flight = EmptyTable])
  /\ UNCHANGED <<source, clock, state, history, running, cancelable, stray,
                 fresh, missed, strayed>>

\* What copy()'s catch leaves behind: partialRows, and the pull abandoned.
Abandoned(d) ==
  [run[d] EXCEPT
     !.pc = "unwinding",
     !.saved = IF run[d].kind = "truncate" THEN 0 ELSE run[d].committed,
     !.flight = EmptyTable]

\* A slip: the failed chunk is logged and the request resumed.
FlushFailSlip(d) ==
  /\ At(d, "streaming") /\ Paused(d)
  /\ Becomes(d, [run[d] EXCEPT !.flight = EmptyTable])
  /\ UNCHANGED <<source, clock, target, reload, state, history, running,
                 cancelable, stray, dirty, fresh, missed, strayed>>

FlushFail(d) ==
  /\ At(d, "streaming") /\ Paused(d)
  /\ Becomes(d, Abandoned(d))
  /\ UNCHANGED <<source, clock, target, reload, state, history, running,
                 cancelable, stray, dirty, fresh, missed, strayed>>

\* The request's 'error' event (a lost connection, requestTimeout, a cancel)
\* rejects at once.  It does not wait for a flush in flight: that one stays
\* behind, with nobody to report to.
StreamError(d) ==
  /\ At(d, "streaming")
  /\ Becomes(d, Abandoned(d))
  /\ \/ /\ ~Paused(d)
        /\ UNCHANGED stray
     \/ /\ Paused(d)
        /\ Cardinality(stray) < MaxStray
        /\ stray' = stray \cup
             {[ds |-> d, kind |-> run[d].kind, rows |-> run[d].flight]}
  /\ UNCHANGED <<source, clock, target, reload, state, history, running,
                 cancelable, dirty, fresh, missed, strayed>>

\* Its rows go to the dataset's table, or to whichever reload table has the name
\* by now.
StrayCommit(s) ==
  /\ CanLand(s.ds, s.kind)
  /\ Land(s.ds, s.kind, s.rows)
  /\ stray' = stray \ {s}
  /\ strayed' = strayed \cup
       (IF s.kind = "truncate"
        THEN {d \in Datasets : ReloadName(d) = ReloadName(s.ds) /\ Reloading(d)}
        ELSE {s.ds})
  /\ UNCHANGED <<source, clock, state, history, running, cancelable, run,
                 fresh, missed>>

StrayFail(s) ==
  /\ stray' = stray \ {s}
  /\ UNCHANGED <<source, clock, target, reload, state, history, running,
                 cancelable, run, dirty, fresh, missed, strayed>>

\* cancelSync: cancels the request it finds, which does nothing to one that has
\* ended; without a request it returns false.
CancelSync(d) ==
  /\ d \in cancelable
  /\ At(d, "streaming") /\ ~run[d].cancelled
  /\ Becomes(d, [run[d] EXCEPT !.cancelled = TRUE])
  /\ UNCHANGED <<source, clock, target, reload, state, history, running,
                 cancelable, stray, dirty, fresh, missed, strayed>>

\* A slip: the end of the stream resolves with a chunk still in flight.
StreamDoneSlip(d) ==
  /\ At(d, "streaming")
  /\ run[d].scan = {} /\ run[d].wire = EmptyTable
  /\ Goto(d, "draining")
  /\ UNCHANGED <<source, clock, target, reload, state, history, running,
                 cancelable, stray, dirty, fresh, missed, strayed>>

StreamDone(d) ==
  /\ At(d, "streaming") /\ ~Paused(d)
  /\ run[d].scan = {} /\ run[d].wire = EmptyTable
  /\ Goto(d, "draining")
  /\ UNCHANGED <<source, clock, target, reload, state, history, running,
                 cancelable, stray, dirty, fresh, missed, strayed>>

-----------------------------------------------------------------------------
(* The end of copy(): the last chunk, the swap, the finally *)

AfterPull(d) == IF run[d].kind = "truncate" THEN "swapping" ELSE "closing"

FinalFlush(d) ==
  /\ At(d, "draining")
  /\ \/ /\ run[d].buffer = EmptyTable
        /\ UNCHANGED <<target, reload, dirty>>
     \/ /\ run[d].buffer # EmptyTable
        /\ CanLand(d, run[d].kind)
        /\ Land(d, run[d].kind, run[d].buffer)
  /\ Becomes(d, [run[d] EXCEPT
       !.pc = AfterPull(d),
       !.committed = run[d].committed + Cardinality(Rows(run[d].buffer)),
       !.buffer = EmptyTable])
  /\ UNCHANGED <<source, clock, state, history, running, cancelable, stray,
                 fresh, missed, strayed>>

FinalFlushFail(d) ==
  /\ At(d, "draining")
  /\ run[d].buffer # EmptyTable
  /\ Becomes(d, Abandoned(d))
  /\ UNCHANGED <<source, clock, target, reload, state, history, running,
                 cancelable, stray, dirty, fresh, missed, strayed>>

\* One transaction: TRUNCATE the table and INSERT .. SELECT from the reload.
Swap(d) ==
  /\ At(d, "swapping")
  /\ run[d].total > 0
  /\ reload[ReloadName(d)] # NoTable
  /\ target' = [target EXCEPT ![d] = reload[ReloadName(d)]]
  /\ dirty' = dirty \cup {d}
  /\ Goto(d, "closing")
  /\ UNCHANGED <<source, clock, reload, state, history, running, cancelable,
                 stray, fresh, missed, strayed>>

\* A slip: the TRUNCATE is committed before the INSERT fails.
SwapAbandonedSlip(d) ==
  /\ At(d, "swapping")
  /\ target' = [target EXCEPT ![d] = EmptyTable]
  /\ Becomes(d, Abandoned(d))
  /\ UNCHANGED <<source, clock, reload, state, history, running, cancelable,
                 stray, dirty, fresh, missed, strayed>>

\* Zero rows pulled is refused before the swap; a failed swap is rolled back.
SwapAbandoned(d) ==
  /\ At(d, "swapping")
  /\ Becomes(d, Abandoned(d))
  /\ UNCHANGED <<source, clock, target, reload, state, history, running,
                 cancelable, stray, dirty, fresh, missed, strayed>>

\* A slip: the finished request stays in the map.
CloseSlip(d) ==
  /\ run[d].pc \in {"closing", "unwinding"}
  /\ Goto(d, IF At(d, "closing") THEN "advance" ELSE "failed")
  /\ UNCHANGED <<source, clock, target, reload, state, history, running,
                 cancelable, stray, dirty, fresh, missed, strayed>>

\* The finally block.  A DROP of the reload table that fails is ignored.
Close(d) ==
  /\ run[d].pc \in {"closing", "unwinding"}
  /\ cancelable' = cancelable \ {d}
  /\ \/ /\ run[d].kind = "truncate"
        /\ reload' = [reload EXCEPT ![ReloadName(d)] = NoTable]
     \/ UNCHANGED reload
  /\ Goto(d, IF At(d, "closing") THEN "advance" ELSE "failed")
  /\ UNCHANGED <<source, clock, target, state, history, running, stray, dirty,
                 fresh, missed, strayed>>

-----------------------------------------------------------------------------
(* The end of syncDataset: state, history, refresh, lock *)

\* A row that was changed behind the query and carries no later stamp than the
\* rows it read is missed from here on; one missed before that the query has
\* returned is so no longer.
AdvanceWatermark(d) ==
  /\ At(d, "advance")
  /\ IF run[d].maxwm = 0
     THEN UNCHANGED <<state, missed>>
     ELSE /\ SetState(d, [state[d] EXCEPT !.last_watermark = run[d].maxwm])
          /\ missed' = [missed EXCEPT ![d] =
                          {i \in fresh[d] : Passed(d, i, run[d].maxwm)} \cup
                          {i \in @ : run[d].snap[i] # source[d][i]}]
  /\ Goto(d, "recordOk")
  /\ UNCHANGED <<source, clock, target, reload, history, running, cancelable,
                 stray, dirty, fresh, strayed>>

RecordOk(d) ==
  /\ At(d, "recordOk")
  /\ SetState(d, [state[d] EXCEPT !.last_status = "ok",
                                  !.rows_synced = run[d].total])
  /\ Goto(d, "historyOk")
  /\ UNCHANGED <<source, clock, target, reload, history, running, cancelable,
                 stray, dirty, fresh, missed, strayed>>

AppendOk(d) ==
  /\ At(d, "historyOk")
  /\ history' = [history EXCEPT ![d] = Append(@, "ok")]
  /\ Goto(d, IF run[d].total > 0 THEN "refresh" ELSE "release")
  /\ UNCHANGED <<source, clock, target, reload, state, running, cancelable,
                 stray, dirty, fresh, missed, strayed>>

\* refreshDerived refreshes every chart matview, one after the other.  One that
\* cannot be refreshed is logged and left, and another pipe may commit behind it.
RefreshDerived(d) ==
  /\ At(d, "refresh")
  /\ \E refreshed \in SUBSET Datasets : dirty' = dirty \ refreshed
  /\ Goto(d, "release")
  /\ UNCHANGED <<source, clock, target, reload, state, history, running,
                 cancelable, stray, fresh, missed, strayed>>

\* A statement outside copy()'s own try fails: an unknown dataset, no source
\* table, no mapping, no connection.  No partialRows: the catch saves 0.
StepFails(d) ==
  /\ run[d].pc \in BeforeStream \cup AfterCopy
  /\ Becomes(d, [run[d] EXCEPT !.pc = "failed", !.saved = 0])
  /\ UNCHANGED <<source, clock, target, reload, state, history, running,
                 cancelable, stray, dirty, fresh, missed, strayed>>

\* A slip: a failed run also saves how far it has read.
RecordErrorSlip(d) ==
  /\ At(d, "failed")
  /\ SetState(d, [state[d] EXCEPT !.last_status = "error",
                                  !.rows_synced = run[d].saved,
                                  !.last_watermark = run[d].maxwm])
  /\ Goto(d, "historyErr")
  /\ UNCHANGED <<source, clock, target, reload, history, running, cancelable,
                 stray, dirty, fresh, missed, strayed>>

RecordError(d) ==
  /\ At(d, "failed")
  /\ SetState(d, [state[d] EXCEPT !.last_status = "error",
                                  !.rows_synced = run[d].saved])
  /\ Goto(d, "historyErr")
  /\ UNCHANGED <<source, clock, target, reload, history, running, cancelable,
                 stray, dirty, fresh, missed, strayed>>

AppendError(d) ==
  /\ At(d, "historyErr")
  /\ history' = [history EXCEPT ![d] = Append(@, "error")]
  /\ Goto(d, "release")
  /\ UNCHANGED <<source, clock, target, reload, state, running, cancelable,
                 stray, dirty, fresh, missed, strayed>>

\* Recording the failure may fail too; the finally still runs.
RecordingFails(d) ==
  /\ run[d].pc \in Recording
  /\ Goto(d, "release")
  /\ UNCHANGED <<source, clock, target, reload, state, history, running,
                 cancelable, stray, dirty, fresh, missed, strayed>>

\* A slip: the lock is kept.
ReleaseSlip(d) ==
  /\ At(d, "release")
  /\ Becomes(d, IdleRun)
  /\ UNCHANGED <<source, clock, target, reload, state, history, running,
                 cancelable, stray, dirty, fresh, missed, strayed>>

Release(d) ==
  /\ At(d, "release")
  /\ running' = running \ {d}
  /\ Becomes(d, IdleRun)
  /\ UNCHANGED <<source, clock, target, reload, state, history, cancelable,
                 stray, dirty, fresh, missed, strayed>>

\* The backend stops and starts again: what it kept in memory is gone, and
\* Postgres rolls back what was not committed.
Crash ==
  /\ running # {} \/ stray # {}
  /\ running' = {}
  /\ cancelable' = {}
  /\ run' = [d \in Datasets |-> IdleRun]
  /\ stray' = {}
  /\ UNCHANGED <<source, clock, target, reload, state, history, dirty, fresh,
                 missed, strayed>>

-----------------------------------------------------------------------------
(* The specification *)

Pull(d) ==
  \/ \E i \in Ids : ScanRow(d, i) \/ DeliverRow(d, i)
  \/ FlushCommit(d) \/ FlushFail(d)
  \/ StreamError(d) \/ StreamDone(d)

RunStep(d) ==
  \/ RecordRunning(d) \/ ReadWatermark(d) \/ PrepareReload(d) \/ OpenStream(d)
  \/ Pull(d)
  \/ FinalFlush(d) \/ FinalFlushFail(d)
  \/ Swap(d) \/ SwapAbandoned(d) \/ Close(d)
  \/ AdvanceWatermark(d) \/ RecordOk(d) \/ AppendOk(d) \/ RefreshDerived(d)
  \/ StepFails(d) \/ RecordError(d) \/ AppendError(d) \/ RecordingFails(d)
  \/ Release(d)

Next ==
  \/ \E d \in Datasets, i \in Ids : SourceWrite(d, i) \/ SourceDelete(d, i)
  \/ \E d \in Datasets, kind \in Kinds : StartRun(d, kind)
  \/ \E d \in Datasets : RunStep(d) \/ CancelSync(d)
  \/ \E s \in stray : StrayCommit(s) \/ StrayFail(s)
  \/ Crash

Spec == Init /\ [][Next]_vars

\* A run's own steps are always taken in the end: Node's event loop runs the
\* continuation of every promise that settles, Postgres and MS SQL settle every
\* request (connectionTimeout, lock_timeout and requestTimeout bound the waits).
FairSpec == Spec /\ \A d \in Datasets : WF_vars(RunStep(d))

-----------------------------------------------------------------------------
(* Properties *)

Copying == {"streaming", "draining", "swapping", "closing", "unwinding"}

\* Every variable has its type; the lock is held exactly while a run is under
\* way, and the request cancelSync would find is that of a copy under way.
TypeOK ==
  /\ source \in [Datasets -> Tables]
  /\ clock \in Versions
  /\ target \in [Datasets -> Tables]
  /\ reload \in [ReloadNames -> Tables \cup {NoTable}]
  /\ state \in [Datasets -> SyncState]
  /\ history \in [Datasets -> Seq({"ok", "error"})]
  /\ run \in [Datasets -> Run]
  /\ running = {d \in Datasets : ~At(d, "idle")}
  /\ cancelable = {d \in Datasets : run[d].pc \in Copying}
  /\ stray \subseteq Stray
  /\ dirty \subseteq Datasets
  /\ fresh \in [Datasets -> SUBSET Ids]
  /\ missed \in [Datasets -> SUBSET Ids]
  /\ strayed \subseteq Datasets

\* A source row the watermark has passed, which no incremental query will return
\* again, is in the table at that version (dataset-sync.service.ts 194, 468):
\* every one but those that were changed behind a query, or with a stamp the
\* watermark had reached already (mssql.source.ts 193, 199), and but for the
\* writes of other runs.
Covered ==
  \A d \in Datasets \ strayed : \A i \in Ids \ missed[d] :
    Passed(d, i, state[d].last_watermark) => target[d][i] = source[d][i]

\* A run on its way to reporting ok has put every row of the source, as its
\* query read it, into the table: the rows above the watermark by copying them,
\* the others because they had been copied before (195-199).
OkMeansComplete ==
  \A d \in Datasets \ strayed :
    run[d].pc \in AfterCopy =>
      \A i \in Rows(run[d].snap) : target[d][i] = run[d].snap[i]

\* During a Truncate & Sync the table is untouched until it becomes, in one
\* step, the whole of what its query read, and nothing else (249-255).
TruncateIsAtomic ==
  [][\A d \in Datasets \ strayed' :
       run[d].kind = "truncate" /\ target'[d] # target[d]
         => target'[d] = run[d].snap /\ run[d].scan = {}]_vars

\* A row never goes back to an earlier version, and only the swap of a
\* Truncate & Sync removes one (316-320, 419-420).
NoRegression ==
  [][\A d \in Datasets \ strayed', i \in Ids :
       \/ target'[d][i] >= target[d][i]
       \/ target'[d][i] = 0 /\ At(d, "swapping")]_vars

\* Every run ends, whatever fails, and releases the lock (223-225).
RunEnds == \A d \in Datasets : d \in running ~> d \notin running

\* The pipe as PipeContract promises it.
Contract == INSTANCE PipeContract WITH
  watermark <- [d \in Datasets |-> state[d].last_watermark],
  void <- strayed

KeepsContract == Contract!Spec

-----------------------------------------------------------------------------
(* What a document says, and the code does not do *)

\* "Re-running a sync is always safe" (DocumentationPage.tsx 265): also after a
\* cancelled or failed run, a row the watermark has passed is not an old one.
RerunIsSafe ==
  \A d \in Datasets, i \in Ids :
    Passed(d, i, state[d].last_watermark) => target[d][i] = source[d][i]
=============================================================================
