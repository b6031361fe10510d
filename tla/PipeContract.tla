---------------------------- MODULE PipeContract ---------------------------
(***************************************************************************)
(* What a pipe promises, whatever goes on inside it: a dataset's table     *)
(* follows its source.  Rows arrive in any portions and only ever move     *)
(* forward; the table may be replaced, in one step, by all that a query    *)
(* read; and a watermark is a promise about every row it passes, but those *)
(* that changed behind the query or carry a stamp it had reached already.  *)
(*                                                                         *)
(* The comments of dataset-sync.service.ts state these promises (81-85,    *)
(* 228-238, 249-255); DatasetSync is shown to keep them.                   *)
(***************************************************************************)
EXTENDS Integers

CONSTANTS
  Datasets,     \* the pipes
  Ids,          \* the record ids
  StampOf(_),   \* the watermark-column value of a version
  MaxClock      \* bound: the newest version

Versions == 0..MaxClock
Tables == [Ids -> Versions]
Stamps == {StampOf(v) : v \in Versions}

VARIABLES
  source,     \* each pipe's source table
  clock,      \* the newest version written
  target,     \* each dataset's table
  watermark,  \* each dataset's watermark
  fresh,      \* the rows changed since each dataset's queries read them
  missed,     \* the rows each watermark has passed unread
  void        \* the datasets whose promises a stray write has voided

vars == <<source, clock, target, watermark, fresh, missed, void>>

Init ==
  /\ source = [d \in Datasets |-> [i \in Ids |-> 0]]
  /\ clock = 0
  /\ target = source
  /\ watermark = [d \in Datasets |-> 0]
  /\ fresh = [d \in Datasets |-> {}]
  /\ missed = fresh
  /\ void = {}

\* The source row i is one that a watermark w has passed.
Passed(d, i, w) == source[d][i] # 0 /\ StampOf(source[d][i]) <= w

\* A write with a stamp the watermark has reached is missed at once.
Write(d, i) ==
  /\ clock < MaxClock
  /\ clock' = clock + 1
  /\ source' = [source EXCEPT ![d][i] = clock + 1]
  /\ fresh' = [fresh EXCEPT ![d] = @ \cup {i}]
  /\ missed' = [missed EXCEPT ![d] = IF StampOf(clock + 1) <= watermark[d]
                                     THEN @ \cup {i} ELSE @ \ {i}]
  /\ UNCHANGED <<target, watermark, void>>

Delete(d, i) ==
  /\ source' = [source EXCEPT ![d][i] = 0]
  /\ fresh' = [fresh EXCEPT ![d] = @ \cup {i}]
  /\ missed' = [missed EXCEPT ![d] = @ \ {i}]
  /\ UNCHANGED <<clock, target, watermark, void>>

\* A query reads the row i.
Look(d, i) ==
  /\ fresh' = [fresh EXCEPT ![d] = @ \ {i}]
  /\ UNCHANGED <<source, clock, target, watermark, missed, void>>

\* Some rows move forward, none beyond what the source has.
Upsert(d) ==
  /\ d \notin void
  /\ \E t \in Tables :
       /\ \A i \in Ids :
            \/ t[i] = target[d][i]
            \/ /\ t[i] > target[d][i]
               /\ t[i] <= IF source[d][i] = 0 THEN clock ELSE source[d][i]
       /\ target' = [target EXCEPT ![d] = t]
  /\ UNCHANGED <<source, clock, watermark, fresh, missed, void>>

\* The table becomes all that a query read: the source as it is, but for the rows
\* that changed since.  No promise is given up.
Replace(d) ==
  /\ d \notin void
  /\ \E t \in Tables :
       /\ \A i \in Ids \ fresh[d] : t[i] = source[d][i]
       /\ \A i \in fresh[d] :
            /\ t[i] <= IF source[d][i] = 0 THEN clock ELSE source[d][i]
            /\ t[i] = 0 \/ t[i] >= target[d][i]
       /\ target' = [target EXCEPT ![d] = t]
  /\ UNCHANGED <<source, clock, watermark, fresh, missed, void>>

\* The watermark moves to where every row it passes is in the table, or is known
\* to be missed: a row may become missed only if no query has read it since it
\* was changed.
Vouch(d) ==
  /\ d \notin void
  /\ \E w \in Stamps, mended \in SUBSET missed[d] :
       /\ w <= StampOf(clock)
       /\ \A i \in Ids \ (fresh[d] \cup (missed[d] \ mended)) :
            Passed(d, i, w) => target[d][i] = source[d][i]
       /\ watermark' = [watermark EXCEPT ![d] = w]
       /\ missed' = [missed EXCEPT ![d] =
                       {i \in fresh[d] : Passed(d, i, w)} \cup (@ \ mended)]
  /\ UNCHANGED <<source, clock, target, fresh, void>>

\* A write by a run that is over, or by another dataset's run: from then on
\* nothing is promised of the datasets it may have reached.
StrayWrite(ds) ==
  /\ void' = void \cup ds
  /\ target' \in [Datasets -> Tables]
  /\ \A d \in Datasets \ void' : target'[d] = target[d]
  /\ UNCHANGED <<source, clock, watermark, fresh, missed>>

Unpromised(d) ==
  /\ d \in void
  /\ \/ /\ \E t \in Tables : target' = [target EXCEPT ![d] = t]
        /\ UNCHANGED <<watermark, missed>>
     \/ /\ \E w \in Stamps : watermark' = [watermark EXCEPT ![d] = w]
        /\ \E rows \in SUBSET Ids : missed' = [missed EXCEPT ![d] = rows]
        /\ UNCHANGED target
  /\ UNCHANGED <<source, clock, fresh, void>>

Next ==
  \/ \E d \in Datasets, i \in Ids : Write(d, i) \/ Delete(d, i) \/ Look(d, i)
  \/ \E d \in Datasets :
       Upsert(d) \/ Replace(d) \/ Vouch(d) \/ Unpromised(d)
  \/ \E ds \in SUBSET Datasets : StrayWrite(ds)

Spec == Init /\ [][Next]_vars

-----------------------------------------------------------------------------

\* Every variable has its type; no source row is newer than the clock, and no
\* watermark that still counts is ahead of it.
TypeOK ==
  /\ source \in [Datasets -> Tables]
  /\ clock \in Versions
  /\ target \in [Datasets -> Tables]
  /\ watermark \in [Datasets -> Stamps]
  /\ fresh \in [Datasets -> SUBSET Ids]
  /\ missed \in [Datasets -> SUBSET Ids]
  /\ void \subseteq Datasets
  /\ \A d \in Datasets, i \in Ids : source[d][i] <= clock
  /\ \A d \in Datasets \ void : watermark[d] <= StampOf(clock)

\* Every source row the watermark has passed is in the table as it is at the
\* source, or known to be missed (the incremental query of 191-194 never returns
\* it again).
Faithful ==
  \A d \in Datasets \ void, i \in Ids :
    Passed(d, i, watermark[d]) =>
      \/ i \in missed[d]
      \/ i \notin fresh[d] /\ target[d][i] = source[d][i]
=============================================================================
