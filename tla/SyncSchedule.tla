---------------------------- MODULE SyncSchedule ----------------------------
(***************************************************************************)
(* Who pulls which dataset and when: the timer of sync-source.module.ts,   *)
(* the requests of sync/sync.controller.ts, and the loop, the lock, the    *)
(* states and the cancelling of DatasetSyncService.  What one pull does to *)
(* the table is DatasetSync; here it begins, streams, and ends.            *)
(*                                                                         *)
(* The timer fires whether or not the loop it began before has ended, so   *)
(* several loops run side by side in the one process.                      *)
(***************************************************************************)
EXTENDS Integers, FiniteSets

CONSTANTS Keys,        \* the datasets, numbered by id
          Loops,       \* bound: the calls of syncAll under way at once
          Stuck,       \* those whose source may never answer
          MaxFaults,   \* bound on restarts and on failures to record an end
          MaxChanges   \* bound on an administrator's changes of the registry

ASSUME KeysAssumption == Keys \subseteq Nat /\ Stuck \subseteq Keys
ASSUME LoopsAssumption == "direct" \notin Loops

VARIABLES live,      \* active datasets with a source table
          running,   \* DatasetSyncService.running, the lock
          pulls,     \* calls of syncDataset under way: [by, key, phase]
          loops,     \* loop -> "idle", "listing" or "looping"
          todo,      \* loop -> the datasets it has yet to come to
          cancelled, \* datasets whose source request was cancelled
          status,    \* dataset_sync_state.last_status
          torn,      \* history: datasets whose last pull has no recorded end
          faults, changes

scheduleVars == <<live, running, pulls, loops, todo, cancelled, status, torn, faults, changes>>
lockVars == <<running, pulls, cancelled, status, torn>>

Callers == Loops \cup {"direct"}
Phases == {"check", "pull", "stream", "refresh"}
Pulls == [by : Callers, key : Keys, phase : Phases]

ScheduleInit ==
  /\ live \in SUBSET Keys
  /\ running = {} /\ pulls = {} /\ cancelled = {} /\ torn = {}
  /\ loops = [l \in Loops |-> "idle"] /\ todo = [l \in Loops |-> {}]
  /\ status = [k \in Keys |-> "never"]
  /\ faults = 0 /\ changes = 0

(***************************************************************************)
(* syncAll: the timer's loop and the loop of a request without a dataset.  *)
(***************************************************************************)
Tick(l) ==
  /\ loops[l] = "idle"
  /\ loops' = [loops EXCEPT ![l] = "listing"]
  /\ UNCHANGED <<live, todo, faults, changes, lockVars>>

\* A request to pull everything is refused while anything is pulled.
RunAll(l) == running = {} /\ Tick(l)

syncableDatasets(l) ==
  /\ loops[l] = "listing"
  /\ loops' = [loops EXCEPT ![l] = "looping"]
  /\ todo' = [todo EXCEPT ![l] = live]
  /\ UNCHANGED <<live, faults, changes, lockVars>>

Waiting(l) == \E p \in pulls : p.by = l
First(S, k) == k \in S /\ \A j \in S : k =< j

\* The lock is tried and taken in one go.
Lock(by, k) ==
  /\ running' = running \cup {k}
  /\ pulls' = pulls \cup {[by |-> by, key |-> k, phase |-> "check"]}
  /\ UNCHANGED <<cancelled, status, torn>>

\* Mutant: the loop ends at the first dataset that cannot be pulled.
StopAtLocked(l, k) == todo' = [todo EXCEPT ![l] = {}]

\* A dataset that is pulled by somebody else counts as failed and is passed.
PassLocked(l, k) == todo' = [todo EXCEPT ![l] = @ \ {k}]

NextDataset(l) ==
  /\ loops[l] = "looping" /\ ~Waiting(l)
  /\ \E k \in Keys :
       /\ First(todo[l], k)
       /\ IF k \in running
          THEN PassLocked(l, k) /\ UNCHANGED lockVars
          ELSE Lock(l, k) /\ todo' = [todo EXCEPT ![l] = @ \ {k}]
  /\ UNCHANGED <<live, loops, faults, changes>>

LoopEnds(l) ==
  /\ loops[l] = "looping" /\ todo[l] = {} /\ ~Waiting(l)
  /\ loops' = [loops EXCEPT ![l] = "idle"]
  /\ UNCHANGED <<live, todo, faults, changes, lockVars>>

(***************************************************************************)
(* syncDataset.                                                            *)
(***************************************************************************)
\* Mutant: the lock is not looked at.
RunUnlocked(k) ==
  /\ Lock("direct", k)
  /\ UNCHANGED <<live, loops, todo, faults, changes>>

\* A request for one dataset, known or not; refused while it is pulled.
RunOne(k) ==
  /\ k \notin running
  /\ Lock("direct", k)
  /\ UNCHANGED <<live, loops, todo, faults, changes>>

Set(p, phase) == pulls' = (pulls \ {p}) \cup {[p EXCEPT !.phase = phase]}

\* Mutant: only an end that is ok is recorded.
SilentEnd(p, result) ==
  /\ pulls' = pulls \ {p}
  /\ running' = running \ {p.key}
  /\ status' = IF result = "ok" THEN [status EXCEPT ![p.key] = "ok"] ELSE status
  /\ cancelled' = cancelled \ {p.key} /\ torn' = torn \ {p.key}

\* Mutant: the lock is taken away by an end that is ok only.
LockStays(p, result) ==
  /\ pulls' = pulls \ {p}
  /\ running' = IF result = "ok" THEN running \ {p.key} ELSE running
  /\ status' = [status EXCEPT ![p.key] = result]
  /\ cancelled' = cancelled \ {p.key} /\ torn' = torn \ {p.key}

\* The row of the state is written even for a dataset that does not exist.
End(p, result) ==
  /\ pulls' = pulls \ {p}
  /\ running' = running \ {p.key}
  /\ status' = [status EXCEPT ![p.key] = result]
  /\ cancelled' = cancelled \ {p.key} /\ torn' = torn \ {p.key}

\* The database fails when the end is recorded, in the catch too: the finally
\* takes the lock away all the same.
EndUnrecorded(p) ==
  /\ faults < MaxFaults /\ faults' = faults + 1
  /\ pulls' = pulls \ {p}
  /\ running' = running \ {p.key}
  /\ cancelled' = cancelled \ {p.key}
  /\ torn' = IF status[p.key] = "running" THEN torn \cup {p.key} ELSE torn
  /\ UNCHANGED <<live, loops, todo, status, changes>>

\* A dataset that does not exist, or has no source table, is an error.
Check(p) ==
  /\ p.phase = "check"
  /\ IF p.key \in live
     THEN /\ Set(p, "pull") /\ status' = [status EXCEPT ![p.key] = "running"]
          /\ torn' = torn \ {p.key} /\ UNCHANGED <<running, cancelled>>
     ELSE End(p, "error")
  /\ UNCHANGED <<live, loops, todo, faults, changes>>

\* Only from now on there is a request to cancel.
Connect(p) ==
  /\ p.phase = "pull"
  /\ \/ Set(p, "stream") /\ UNCHANGED <<running, cancelled, status, torn>>
     \/ End(p, "error")
  /\ UNCHANGED <<live, loops, todo, faults, changes>>

Streamed(p, result) ==
  /\ p.phase = "stream" /\ (p.key \in cancelled => result = "error")
  /\ IF result = "error" THEN End(p, "error")
     ELSE /\ Set(p, "refresh") /\ status' = [status EXCEPT ![p.key] = "ok"]
          /\ UNCHANGED <<running, cancelled, torn>>
  /\ UNCHANGED <<live, loops, todo, faults, changes>>

\* The charts and caches are refreshed after the end is recorded; when that
\* fails, the end is recorded again, as an error.
Refreshed(p, result) ==
  /\ p.phase = "refresh"
  /\ End(p, result)
  /\ UNCHANGED <<live, loops, todo, faults, changes>>

cancelSync(k) ==
  /\ \E p \in pulls : p.key = k /\ p.phase = "stream"
  /\ cancelled' = cancelled \cup {k}
  /\ UNCHANGED <<live, running, pulls, loops, todo, status, torn, faults, changes>>

(***************************************************************************)
(* The process restarts; an administrator changes the registry.            *)
(***************************************************************************)
Restart ==
  /\ faults < MaxFaults /\ faults' = faults + 1
  /\ running' = {} /\ pulls' = {} /\ cancelled' = {}
  /\ loops' = [l \in Loops |-> "idle"] /\ todo' = [l \in Loops |-> {}]
  /\ torn' = {k \in Keys : status[k] = "running"}
  /\ UNCHANGED <<live, status, changes>>

Change(k) ==
  /\ changes < MaxChanges /\ changes' = changes + 1
  /\ live' = IF k \in live THEN live \ {k} ELSE live \cup {k}
  /\ UNCHANGED <<running, pulls, loops, todo, cancelled, status, torn, faults>>

ScheduleNext ==
  \/ \E l \in Loops : \/ Tick(l) \/ RunAll(l) \/ syncableDatasets(l)
                      \/ NextDataset(l) \/ LoopEnds(l)
  \/ \E k \in Keys : RunOne(k) \/ cancelSync(k) \/ Change(k)
  \/ \E p \in pulls : \/ Check(p) \/ Connect(p) \/ EndUnrecorded(p)
                      \/ \E result \in {"ok", "error"} : Streamed(p, result) \/ Refreshed(p, result)
  \/ Restart

\* The timer keeps firing, and what has begun goes on; a source that may be
\* stuck answers only when its request is cancelled.
Goes(k) ==
  \E p \in pulls :
    /\ p.key = k
    /\ \/ Check(p) \/ Connect(p) \/ \E result \in {"ok", "error"} : Refreshed(p, result)
       \/ (k \notin Stuck \/ k \in cancelled) /\ \E result \in {"ok", "error"} : Streamed(p, result)
Fairness ==
  /\ WF_scheduleVars(\E l \in Loops : Tick(l))
  /\ \A l \in Loops : WF_scheduleVars(syncableDatasets(l) \/ NextDataset(l) \/ LoopEnds(l))
  /\ \A k \in Keys : WF_scheduleVars(Goes(k))

ScheduleSpec == ScheduleInit /\ [][ScheduleNext]_scheduleVars /\ Fairness

(***************************************************************************)
(* Properties.                                                             *)
(***************************************************************************)
\* The lock, the calls and what is stored of the datasets, by their kinds.
ScheduleTypeOK ==
  /\ live \subseteq Keys /\ running \subseteq Keys /\ pulls \subseteq Pulls
  /\ loops \in [Loops -> {"idle", "listing", "looping"}]
  /\ todo \in [Loops -> SUBSET Keys]
  /\ cancelled \subseteq Keys /\ torn \subseteq Keys
  /\ status \in [Keys -> {"never", "running", "ok", "error"}]
  /\ faults \in Nat /\ changes \in Nat

\* Whoever asks, the timer's loops, a request for all or for one, no dataset is
\* pulled by two at once, and a dataset is locked exactly while it is pulled: a
\* lock is never left behind (syncDataset's running set, its finally).
OneRunPerDataset ==
  /\ \A p, q \in pulls : p.key = q.key => p = q
  /\ running = {p.key : p \in pulls}

\* The Sync screen says running of a dataset while its pull is past its checks and
\* before its end is recorded, and otherwise only of one whose last pull a
\* restart cut off, or could not record its end, until it is pulled again
\* (setState).
StatusTrue ==
  \A k \in Keys :
    /\ (\E p \in pulls : p.key = k /\ p.phase \in {"pull", "stream"}) => status[k] = "running"
    /\ status[k] = "running" => (\E p \in pulls : p.key = k) \/ k \in torn

\* A dataset that stays in the registry is pulled again and again, and its pull
\* ends, though another one's source never answers and although restarts cut
\* pulls off: "one failing can't stop the others" (syncAll, the timer).
PipesServed ==
  \A k \in Keys \ Stuck :
    <>[](k \in live) =>
      /\ []<>(\E p \in pulls : p.key = k)
      /\ []<>(k \notin running /\ status[k] # "running")

\* A pull that was cancelled ends, even one whose source never answers, so that
\* the dataset can be pulled again (cancelSync).
CancelEnds == \A k \in Keys : k \in cancelled ~> k \notin running
=============================================================================
