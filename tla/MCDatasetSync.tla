--------------------------- MODULE MCDatasetSync ---------------------------
(***************************************************************************)
(* Instances of DatasetSync for TLC.                                       *)
(***************************************************************************)
EXTENDS DatasetSyncInductive, TLC

OwnReload(d) == d                 \* every key gives its own reload table

EachItsOwnStamp(v) == v                \* no two writes share a watermark value
TwoPerStamp(v) == (v + 1) \div 2       \* a watermark column of coarse datetimes

\* A stray write ends the promises made for its dataset: look no further.
NoStrayYet == strayed = {}

\* What decides how the service goes on: not the counts and statuses it only
\* writes, of the total only whether it is 0, of a cancel only that it stops the
\* stream, of a pull given up only that it was, and of the watermark and the kind
\* it started from nothing once they have been used.  The runs with this view
\* state no property of the rest but its type.
GivenUp == {"unwinding", "failed", "historyErr", "release"}

Deciding(r) ==
  IF r.pc \in GivenUp
  THEN [IdleRun EXCEPT !.pc = r.pc, !.kind = r.kind]
  ELSE [r EXCEPT !.committed = 0, !.saved = 0,
                 !.total = IF @ > 0 THEN 1 ELSE 0,
                 !.cancelled = @ /\ r.pc = "streaming",
                 !.since = IF r.pc \in BeforeStream \/ r.scan # {} THEN @ ELSE 0,
                 !.kind = IF @ = "full" /\ r.pc \notin {"preflight", "since"}
                          THEN "incremental" ELSE @]

ReadBack ==
  <<source, clock, target, reload, [d \in Datasets |-> state[d].last_watermark],
    [d \in Datasets |-> Deciding(run[d])], cancelable, stray, fresh, missed,
    strayed>>

AnyId == Permutations(Ids)  \* record ids are interchangeable
=============================================================================
