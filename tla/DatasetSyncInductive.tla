------------------------ MODULE DatasetSyncInductive ------------------------
(***************************************************************************)
(* The inductive invariant behind Covered, OkMeansComplete,                *)
(* TruncateIsAtomic and NoRegression: where each row that a run's query    *)
(* has read is while the run moves it from the source to the dataset's     *)
(* table.  It speaks of the datasets no other run has written to.          *)
(***************************************************************************)
EXTENDS DatasetSync

Watermark(d) == state[d].last_watermark
ReloadOf(d) == reload[ReloadName(d)]

\* The runs whose query still matters: its rows are on their way, or in the
\* table and not yet vouched for by the watermark.
Following == {"streaming", "draining", "swapping", "closing", "advance"}
Pulling == {"streaming", "draining", "swapping"}

\* Where the rows d's run pulls have landed so far.
Landed(d) == IF run[d].kind = "truncate" THEN ReloadOf(d) ELSE target[d]

\* Nothing is newer than the clock, the table is never ahead of the source.
Behind(d) ==
  /\ Watermark(d) <= StampOf(clock)
  /\ \A i \in Ids :
       /\ source[d][i] <= clock
       /\ target[d][i] <= clock
       /\ source[d][i] # 0 => target[d][i] <= source[d][i]

CoveredAt(d) ==
  \A i \in Ids \ missed[d] :
    Passed(d, i, Watermark(d)) => target[d][i] = source[d][i]

\* A row changed since a query read it, and passed all the same, is missed.
FreshIsMissed(d) ==
  \A i \in fresh[d] : Passed(d, i, Watermark(d)) => i \in missed[d]

\* A run about to query starts from a watermark it may rely on, and a
\* Truncate & Sync from nothing.
Prepared(d) ==
  /\ run[d].pc \in BeforeStream =>
       run[d].buffer = EmptyTable /\ run[d].flight = EmptyTable
  /\ run[d].pc \in {"prepare", "open"} => run[d].maxwm = run[d].since
  /\ run[d].pc \in {"prepare", "open"} \cup Pulling =>
       /\ run[d].since <= Watermark(d)
       /\ run[d].kind = "truncate" => run[d].since = 0
  /\ run[d].pc = "prepare" => run[d].kind = "truncate"
  /\ run[d].pc = "open" /\ run[d].kind = "truncate" => ReloadOf(d) = EmptyTable

\* What a query has read is not newer than the source, not older than the table,
\* and the source itself where it has not changed since.
ReadsAge(d) ==
  run[d].pc \in Following =>
    /\ run[d].maxwm <= StampOf(clock)
    /\ \A i \in Ids :
         /\ run[d].snap[i] <= clock
         /\ source[d][i] # 0 => run[d].snap[i] <= source[d][i]
         /\ run[d].snap[i] # 0 => target[d][i] <= run[d].snap[i]
    /\ \A i \in Ids \ (run[d].scan \cup fresh[d]) :
         \/ run[d].snap[i] = source[d][i]
         \/ i \in missed[d] /\ run[d].snap[i] = 0 /\ run[d].kind # "truncate"

\* Every row that was read is on the wire, in the buffer, in flight or landed.
NothingLost(d) ==
  run[d].pc \in Pulling =>
    \A i \in Ids :
      /\ run[d].wire[i] \in {0, run[d].snap[i]}
      /\ run[d].buffer[i] \in {0, run[d].snap[i]}
      /\ run[d].flight[i] \in {0, run[d].snap[i]}
      /\ i \in run[d].scan => run[d].snap[i] = 0
      /\ \/ run[d].snap[i] = 0
         \/ run[d].wire[i] = run[d].snap[i]
         \/ run[d].buffer[i] = run[d].snap[i]
         \/ run[d].flight[i] = run[d].snap[i]
         \/ Landed(d)[i] = run[d].snap[i]

\* A reload table holds rows of the query only.
ReloadIsPart(d) ==
  run[d].pc \in Pulling /\ run[d].kind = "truncate" =>
    /\ ReloadOf(d) # NoTable
    /\ \A i \in Ids : ReloadOf(d)[i] \in {0, run[d].snap[i]}

\* What is left to do at each step of the end of copy().
Emptied(d) ==
  /\ run[d].pc \in {"draining", "swapping"} =>
       /\ run[d].scan = {}
       /\ run[d].wire = EmptyTable
       /\ run[d].flight = EmptyTable
  /\ run[d].pc = "swapping" =>
       run[d].buffer = EmptyTable /\ run[d].kind = "truncate"

CompleteAt(d) ==
  run[d].pc \in AfterCopy \cup {"closing"} =>
    /\ run[d].scan = {}
    /\ \A i \in Rows(run[d].snap) : target[d][i] = run[d].snap[i]

\* No other run uses the reload table of d's.
Alone(d) == Reloading(d) => Sharing(d) = {}

Sound(d) ==
  /\ Behind(d)
  /\ CoveredAt(d)
  /\ FreshIsMissed(d)
  /\ Prepared(d)
  /\ ReadsAge(d)
  /\ NothingLost(d)
  /\ ReloadIsPart(d)
  /\ Emptied(d)
  /\ CompleteAt(d)
  /\ Alone(d)

\* Every pipe no other run has written to is sound, at each of its steps
\* (dataset-sync.service.ts 172-226 and 239-470).
AllSound == \A d \in Datasets \ strayed : Sound(d)
=============================================================================
