---------------------------- MODULE RefreshProofs ----------------------------
(***************************************************************************)
(* Proofs about the two modules that a sync ties together: SyncSchedule,   *)
(* which says when a dataset is pulled, and ChartMatview, which says what  *)
(* becomes of its charts when a pull has committed.  They share no state.  *)
(*                                                                         *)
(* The schedule: one pull per dataset and a truthful status, for any       *)
(* datasets, loops, restarts and changes of the registry.  The three       *)
(* invariants together are inductive: that no other call pulls the dataset *)
(* is what lets the end of a pull take the lock away, and what lets it     *)
(* write the status.                                                       *)
(*                                                                         *)
(* The matviews: for any number of charts, specs, requests and builds      *)
(* under way, and however often a sync commits.                            *)
(***************************************************************************)
EXTENDS SyncSchedule, ChartMatview, TLAPS

-----------------------------------------------------------------------------
(* The schedule *)

Inv == ScheduleTypeOK /\ OneRunPerDataset /\ StatusTrue

\* What a call of syncDataset is.
LEMMA PullHasType ==
  ASSUME ScheduleTypeOK, NEW p \in pulls
  PROVE  /\ p = [by |-> p.by, key |-> p.key, phase |-> p.phase]
         /\ p.by \in Callers /\ p.key \in Keys /\ p.phase \in Phases
  BY DEF ScheduleTypeOK, Pulls

\* A step that leaves the lock, the pulls and the statuses alone.
LEMMA LockUntouched ==
  ASSUME Inv, UNCHANGED lockVars, ScheduleTypeOK'
  PROVE  Inv'
  BY DEF Inv, OneRunPerDataset, StatusTrue, lockVars

\* Taking the lock of a dataset nobody pulls.
LEMMA LockKeeps ==
  ASSUME Inv, NEW by \in Callers, NEW k \in Keys, k \notin running, Lock(by, k),
         UNCHANGED <<live, faults, changes>>, loops' = loops,
         todo' \in [Loops -> SUBSET Keys]
  PROVE  Inv'
<1> DEFINE new == [by |-> by, key |-> k, phase |-> "check"]
<1>1. /\ pulls' = pulls \cup {new} /\ running' = running \cup {k}
      /\ cancelled' = cancelled /\ status' = status /\ torn' = torn
  BY DEF Lock
<1>2. new \in Pulls /\ new.key = k /\ new.phase = "check"
  BY DEF Pulls, Phases
<1>3. ScheduleTypeOK'
  BY <1>1, <1>2 DEF Inv, ScheduleTypeOK
<1>4. \A p \in pulls : p.key # k
  BY DEF Inv, OneRunPerDataset
<1> HIDE DEF new
<1>5. OneRunPerDataset'
  BY <1>1, <1>2, <1>4 DEF Inv, OneRunPerDataset
<1>6. StatusTrue'
  BY <1>1, <1>2 DEF Inv, StatusTrue
<1>7. QED
  BY <1>3, <1>5, <1>6 DEF Inv

\* A pull that ends, recorded or not, leaves the others and their statuses.
LEMMA EndKeeps ==
  ASSUME Inv, NEW p \in pulls,
         pulls' = pulls \ {p}, running' = running \ {p.key},
         status' \in [Keys -> {"never", "running", "ok", "error"}],
         \A k \in Keys \ {p.key} : status'[k] = status[k],
         \A k \in Keys \ {p.key} : k \in torn' <=> k \in torn,
         status'[p.key] = "running" => p.key \in torn',
         torn' \subseteq Keys, cancelled' = cancelled \ {p.key},
         UNCHANGED <<live, loops, todo, changes>>, faults' \in Nat
  PROVE  Inv'
<1>1. p.key \in Keys
  BY PullHasType DEF Inv
<1>2. ScheduleTypeOK'
  BY <1>1 DEF Inv, ScheduleTypeOK
<1>3. \A q \in pulls' : q \in pulls /\ q.key # p.key /\ q.key \in Keys
  BY PullHasType DEF Inv, OneRunPerDataset
<1>4. OneRunPerDataset'
  BY <1>3 DEF Inv, OneRunPerDataset
<1>5. StatusTrue'
  <2> SUFFICES ASSUME NEW k \in Keys
               PROVE  /\ (\E q \in pulls' : q.key = k /\ q.phase \in {"pull", "stream"})
                           => status'[k] = "running"
                      /\ status'[k] = "running" => (\E q \in pulls' : q.key = k) \/ k \in torn'
    BY DEF StatusTrue
  <2>1. CASE k = p.key
    BY <2>1, <1>3
  <2>2. CASE k # p.key
    BY <2>2, <1>3 DEF Inv, StatusTrue
  <2>3. QED
    BY <2>1, <2>2
<1>6. QED
  BY <1>2, <1>4, <1>5 DEF Inv

\* A pull that goes on to its next phase, which the status agrees with.
LEMMA SetKeeps ==
  ASSUME Inv, NEW p \in pulls, NEW ph \in Phases, Set(p, ph),
         NEW s \in {"running", "ok"}, status' = [status EXCEPT ![p.key] = s],
         ph \in {"pull", "stream"} => s = "running",
         torn' \subseteq Keys, \A k \in Keys \ {p.key} : k \in torn' <=> k \in torn,
         UNCHANGED <<live, running, cancelled, loops, todo, faults, changes>>
  PROVE  Inv'
<1> DEFINE q == [p EXCEPT !.phase = ph]
<1>1. p.key \in Keys /\ q \in Pulls /\ q.key = p.key /\ q.phase = ph
  BY PullHasType DEF Inv, Pulls
<1>2. pulls' = (pulls \ {p}) \cup {q}
  BY DEF Set
<1> HIDE DEF q
<1>3. ScheduleTypeOK'
  BY <1>1, <1>2 DEF Inv, ScheduleTypeOK
<1>4. \A r \in pulls \ {p} : r.key # p.key
  BY DEF Inv, OneRunPerDataset
<1>5. OneRunPerDataset'
  <2>1. \A r, t \in pulls' : r.key = t.key => r = t
    BY <1>1, <1>2, <1>4 DEF Inv, OneRunPerDataset
  <2>2. {r.key : r \in pulls'} = {r.key : r \in pulls}
    BY <1>1, <1>2
  <2>3. QED
    BY <2>1, <2>2 DEF Inv, OneRunPerDataset
<1>6. StatusTrue'
  <2> SUFFICES ASSUME NEW k \in Keys
               PROVE  /\ (\E r \in pulls' : r.key = k /\ r.phase \in {"pull", "stream"})
                           => status'[k] = "running"
                      /\ status'[k] = "running" => (\E r \in pulls' : r.key = k) \/ k \in torn'
    BY DEF StatusTrue
  <2>1. CASE k = p.key
    <3>1. q \in pulls' /\ q.key = k
      BY <1>1, <1>2, <2>1
    <3>2. status'[k] = s
      BY <2>1 DEF Inv, ScheduleTypeOK
    <3>3. \A r \in pulls' : r.key = k => r = q
      BY <1>2, <1>4, <2>1
    <3>4. QED
      BY <1>1, <3>1, <3>2, <3>3
  <2>2. CASE k # p.key
    <3>1. status'[k] = status[k]
      BY <2>2 DEF Inv, ScheduleTypeOK
    <3>2. \A r \in pulls' : r.key = k => r \in pulls
      BY <1>1, <1>2, <2>2
    <3>3. \A r \in pulls : r.key = k => r \in pulls'
      BY <1>2, <2>2
    <3>4. QED
      BY <2>2, <3>1, <3>2, <3>3 DEF Inv, StatusTrue
  <2>3. QED
    BY <2>1, <2>2
<1>7. QED
  BY <1>3, <1>5, <1>6 DEF Inv

---------------------------------------------------------------------------
\* The loops of syncAll.
LEMMA LoopSteps ==
  ASSUME Inv, NEW l \in Loops,
         Tick(l) \/ RunAll(l) \/ syncableDatasets(l) \/ NextDataset(l) \/ LoopEnds(l)
  PROVE  Inv'
<1>1. CASE Tick(l) \/ RunAll(l)
  <2>1. ScheduleTypeOK' /\ UNCHANGED lockVars
    BY <1>1 DEF Tick, RunAll, Inv, ScheduleTypeOK, lockVars
  <2>2. QED
    BY <2>1, LockUntouched
<1>2. CASE syncableDatasets(l)
  <2>1. ScheduleTypeOK' /\ UNCHANGED lockVars
    BY <1>2 DEF syncableDatasets, Inv, ScheduleTypeOK, lockVars
  <2>2. QED
    BY <2>1, LockUntouched
<1>3. CASE LoopEnds(l)
  <2>1. ScheduleTypeOK' /\ UNCHANGED lockVars
    BY <1>3 DEF LoopEnds, Inv, ScheduleTypeOK, lockVars
  <2>2. QED
    BY <2>1, LockUntouched
<1>4. CASE NextDataset(l)
  <2>1. PICK k \in Keys :
          IF k \in running THEN PassLocked(l, k) /\ UNCHANGED lockVars
          ELSE Lock(l, k) /\ todo' = [todo EXCEPT ![l] = @ \ {k}]
    BY <1>4 DEF NextDataset
  <2>2. UNCHANGED <<live, faults, changes>> /\ loops' = loops
    BY <1>4 DEF NextDataset
  <2>3. todo' \in [Loops -> SUBSET Keys]
    BY <2>1 DEF PassLocked, Inv, ScheduleTypeOK
  <2>4. CASE k \in running
    <3>1. ScheduleTypeOK' /\ UNCHANGED lockVars
      BY <2>1, <2>2, <2>3, <2>4 DEF Inv, ScheduleTypeOK, lockVars
    <3>2. QED
      BY <3>1, LockUntouched
  <2>5. CASE k \notin running
    <3>1. Lock(l, k) /\ l \in Callers
      BY <2>1, <2>5 DEF Callers
    <3>2. QED
      BY <2>2, <2>3, <2>5, <3>1, LockKeeps
  <2>6. QED
    BY <2>4, <2>5
<1>5. QED
  BY <1>1, <1>2, <1>3, <1>4

\* An end that is recorded.
LEMMA EndSteps ==
  ASSUME Inv, NEW p \in pulls, NEW result \in {"ok", "error"}, End(p, result),
         UNCHANGED <<live, loops, todo, faults, changes>>
  PROVE  Inv'
<1>1. p.key \in Keys
  BY PullHasType DEF Inv
<1>2. status' \in [Keys -> {"never", "running", "ok", "error"}]
  BY DEF End, Inv, ScheduleTypeOK
<1>3. /\ \A k \in Keys \ {p.key} : status'[k] = status[k]
      /\ status'[p.key] # "running"
  BY <1>1 DEF End, Inv, ScheduleTypeOK
<1>4. /\ \A k \in Keys \ {p.key} : k \in torn' <=> k \in torn
      /\ torn' \subseteq Keys /\ cancelled' = cancelled \ {p.key}
      /\ pulls' = pulls \ {p} /\ running' = running \ {p.key}
  BY DEF End, Inv, ScheduleTypeOK
<1>5. faults' \in Nat
  BY DEF Inv, ScheduleTypeOK
<1>6. QED
  BY <1>2, <1>3, <1>4, <1>5, EndKeeps

\* The steps of a pull.
LEMMA PullSteps ==
  ASSUME Inv, NEW p \in pulls,
         \/ Check(p) \/ Connect(p) \/ EndUnrecorded(p)
         \/ \E result \in {"ok", "error"} : Streamed(p, result) \/ Refreshed(p, result)
  PROVE  Inv'
<1>0. p.key \in Keys /\ status[p.key] \in {"never", "running", "ok", "error"}
  BY PullHasType DEF Inv, ScheduleTypeOK
<1>1. CASE Check(p)
  <2>1. CASE p.key \in live
    <3>1. /\ Set(p, "pull") /\ status' = [status EXCEPT ![p.key] = "running"]
          /\ torn' = torn \ {p.key} /\ UNCHANGED <<running, cancelled>>
          /\ UNCHANGED <<live, loops, todo, faults, changes>>
      BY <1>1, <2>1 DEF Check
    <3>2. torn' \subseteq Keys /\ \A k \in Keys \ {p.key} : k \in torn' <=> k \in torn
      BY <3>1 DEF Inv, ScheduleTypeOK
    <3>3. "pull" \in Phases /\ "running" \in {"running", "ok"}
      BY DEF Phases
    <3>4. QED
      BY <3>1, <3>2, <3>3, SetKeeps
  <2>2. CASE p.key \notin live
    BY <1>1, <2>2, EndSteps DEF Check
  <2>3. QED
    BY <2>1, <2>2
<1>2. CASE Connect(p)
  <2>1. CASE End(p, "error")
    BY <1>2, <2>1, EndSteps DEF Connect
  <2>2. CASE Set(p, "stream") /\ UNCHANGED <<running, cancelled, status, torn>>
    <3>1. status[p.key] = "running"
      BY <1>0, <1>2 DEF Connect, Inv, StatusTrue
    <3>2. status' = [status EXCEPT ![p.key] = "running"]
      BY <2>2, <3>1 DEF Inv, ScheduleTypeOK
    <3>3. "stream" \in Phases /\ torn' \subseteq Keys
      BY <2>2 DEF Phases, Inv, ScheduleTypeOK
    <3>4. UNCHANGED <<live, running, cancelled, loops, todo, faults, changes>>
      BY <1>2, <2>2 DEF Connect
    <3>5. QED
      BY <2>2, <3>2, <3>3, <3>4, SetKeeps
  <2>3. QED
    BY <1>2, <2>1, <2>2 DEF Connect
<1>3. CASE EndUnrecorded(p)
  <2>1. /\ pulls' = pulls \ {p} /\ running' = running \ {p.key}
        /\ status' = status /\ cancelled' = cancelled \ {p.key}
        /\ UNCHANGED <<live, loops, todo, changes>>
        /\ torn' = IF status[p.key] = "running" THEN torn \cup {p.key} ELSE torn
    BY <1>3 DEF EndUnrecorded
  <2>2. faults' \in Nat
    BY <1>3 DEF EndUnrecorded, Inv, ScheduleTypeOK
  <2>3. /\ torn' \subseteq Keys /\ \A k \in Keys \ {p.key} : k \in torn' <=> k \in torn
        /\ status'[p.key] = "running" => p.key \in torn'
        /\ status' \in [Keys -> {"never", "running", "ok", "error"}]
    BY <1>0, <2>1 DEF Inv, ScheduleTypeOK
  <2>4. QED
    BY <2>1, <2>2, <2>3, EndKeeps
<1>4. ASSUME NEW result \in {"ok", "error"}, Streamed(p, result)
      PROVE  Inv'
  <2>1. CASE result = "error"
    BY <1>4, <2>1, EndSteps DEF Streamed
  <2>2. CASE result = "ok"
    <3>1. /\ Set(p, "refresh") /\ status' = [status EXCEPT ![p.key] = "ok"]
          /\ UNCHANGED <<running, cancelled, torn>>
          /\ UNCHANGED <<live, loops, todo, faults, changes>>
      BY <1>4, <2>2 DEF Streamed
    <3>2. "refresh" \in Phases /\ "ok" \in {"running", "ok"} /\ torn' \subseteq Keys
      BY <3>1 DEF Phases, Inv, ScheduleTypeOK
    <3>3. QED
      BY <3>1, <3>2, SetKeeps
  <2>3. QED
    BY <2>1, <2>2
<1>5. ASSUME NEW result \in {"ok", "error"}, Refreshed(p, result)
      PROVE  Inv'
  BY <1>5, EndSteps DEF Refreshed
<1>6. QED
  BY <1>1, <1>2, <1>3, <1>4, <1>5

\* Requests for one dataset, cancels, restarts and the registry.
LEMMA OtherSteps ==
  ASSUME Inv, \/ \E k \in Keys : RunOne(k) \/ cancelSync(k) \/ Change(k)
              \/ Restart
  PROVE  Inv'
<1>1. ASSUME NEW k \in Keys, RunOne(k)
      PROVE  Inv'
  <2>1. /\ Lock("direct", k) /\ k \notin running /\ "direct" \in Callers
        /\ UNCHANGED <<live, faults, changes>> /\ loops' = loops /\ todo' = todo
    BY <1>1 DEF RunOne, Callers
  <2>2. todo' \in [Loops -> SUBSET Keys]
    BY <2>1 DEF Inv, ScheduleTypeOK
  <2>3. QED
    BY <2>1, <2>2, LockKeeps
<1>2. ASSUME NEW k \in Keys, cancelSync(k)
      PROVE  Inv'
  BY <1>2 DEF cancelSync, Inv, ScheduleTypeOK, OneRunPerDataset, StatusTrue
<1>3. ASSUME NEW k \in Keys, Change(k)
      PROVE  Inv'
  <2>1. UNCHANGED <<running, pulls, status, torn>>
    BY <1>3 DEF Change
  <2>2. ScheduleTypeOK'
    BY <1>3 DEF Change, Inv, ScheduleTypeOK
  <2>3. QED
    BY <2>1, <2>2 DEF Inv, OneRunPerDataset, StatusTrue
<1>4. CASE Restart
  <2>1. pulls' = {} /\ running' = {} /\ status' = status
        /\ torn' = {k \in Keys : status[k] = "running"}
    BY <1>4 DEF Restart
  <2>2. ScheduleTypeOK'
    BY <1>4 DEF Restart, Inv, ScheduleTypeOK, Pulls
  <2>3. QED
    BY <2>1, <2>2 DEF Inv, OneRunPerDataset, StatusTrue
<1>5. QED
  BY <1>1, <1>2, <1>3, <1>4

\* ScheduleInit establishes the invariant and every step keeps it.
LEMMA InvIsInductive ==
  /\ ScheduleInit => Inv
  /\ Inv /\ [ScheduleNext]_scheduleVars => Inv'
<1>1. ScheduleInit => Inv
  BY DEF ScheduleInit, Inv, ScheduleTypeOK, OneRunPerDataset, StatusTrue, Pulls
<1>2. Inv /\ UNCHANGED scheduleVars => Inv'
  BY DEF scheduleVars, Inv, ScheduleTypeOK, OneRunPerDataset, StatusTrue
<1>3. Inv /\ ScheduleNext => Inv'
  <2> SUFFICES ASSUME Inv, ScheduleNext PROVE Inv'
    OBVIOUS
  <2>1. CASE \E l \in Loops : Tick(l) \/ RunAll(l) \/ syncableDatasets(l) \/ NextDataset(l) \/ LoopEnds(l)
    BY <2>1, LoopSteps
  <2>2. CASE \E k \in Keys : RunOne(k) \/ cancelSync(k) \/ Change(k)
    BY <2>2, OtherSteps
  <2>3. CASE \E p \in pulls :
               \/ Check(p) \/ Connect(p) \/ EndUnrecorded(p)
               \/ \E result \in {"ok", "error"} : Streamed(p, result) \/ Refreshed(p, result)
    BY <2>3, PullSteps
  <2>4. CASE Restart
    BY <2>4, OtherSteps
  <2>5. QED
    BY <2>1, <2>2, <2>3, <2>4 DEF ScheduleNext
<1>4. QED
  BY <1>1, <1>2, <1>3

\* No dataset is pulled by two calls at once, and it is locked exactly while it
\* is pulled, whichever of the timer's loops and requests ask for it (the set
\* `running' of DatasetSyncService).
THEOREM OnePull == ScheduleSpec => []OneRunPerDataset
<1>1. Inv => OneRunPerDataset
  BY DEF Inv
<1>2. QED
  BY <1>1, InvIsInductive, PTL DEF ScheduleSpec

\* The stored status says running while a pull is under way and not recorded, and
\* else only of a dataset whose last pull has no recorded end (setState).
THEOREM StatusIsTrue == ScheduleSpec => []StatusTrue
<1>1. Inv => StatusTrue
  BY DEF Inv
<1>2. QED
  BY <1>1, InvIsInductive, PTL DEF ScheduleSpec

\* Every variable keeps its type.
THEOREM ScheduleTypes == ScheduleSpec => []ScheduleTypeOK
<1>1. Inv => ScheduleTypeOK
  BY DEF Inv
<1>2. QED
  BY <1>1, InvIsInductive, PTL DEF ScheduleSpec

-----------------------------------------------------------------------------
(* The matviews: the inductive invariant *)

\* Where a request is about a chart, and where it needs the spec it read.
Specified == {"rebuild", "cached", "flag", "probe", "record", "view", "await",
              "live", "answer"}
Targeted == Specified \cup {"dropView", "dropScratch", "dropState"}

GoodCall == {r \in Call : /\ r.pc \in Targeted => r.chart \in Charts
                          /\ r.pc \in Specified => r.spec \in Specs}

GoodBuild == {r \in Build :
                r.pc # "idle" => r.chart \in Charts /\ r.spec \in Specs}

\* The build of a chart under way is the one on the map.
Mapped ==
  \A c \in Charts, b \in Builds :
    building[c] = b <=> build[b].pc # "idle" /\ build[b].chart = c

Plain ==
  /\ data \in Versions
  /\ widget \in [Charts -> Specs \cup {NotYet, Gone}]
  /\ mv \in [Charts -> View \cup {None}]
  /\ truncated \in [Charts -> {"unknown", "fits", "cut"}]
  /\ cache \in [Charts -> Answers \cup {None}]
  /\ sync \in [pc : {"idle", "list", "refresh"}, todo : SUBSET ViewNames]

Requested == call \in [Calls -> GoodCall]

Built ==
  /\ build \in [Builds -> GoodBuild]
  /\ building \in [Charts -> Builds \cup {None}]
  /\ scratch \in [Charts -> View \cup {None}]
  /\ Mapped
  /\ ScratchIsOwn

Sound == Plain /\ Requested /\ Built

LEMMA SoundIsTyped == Sound => TypeOK /\ ScratchIsOwn
BY DEF Sound, Plain, Requested, Built, Mapped, TypeOK, GoodCall, GoodBuild

-----------------------------------------------------------------------------
(* Records *)

LEMMA NoRowsType == NoRows \in Answers
BY ChartAssumption DEF Answers, NoRows

LEMMA IdleTypes ==
  /\ IdleCall \in GoodCall
  /\ IdleBuild \in GoodBuild
  /\ IdleBuild.pc = "idle"
<1>1. IdleCall \in Call
  BY NoRowsType DEF IdleCall, Call, Ops
<1>2. IdleBuild \in Build
  BY ChartAssumption DEF IdleBuild, Build, Versions
<1> QED
  BY <1>1, <1>2 DEF GoodCall, GoodBuild, IdleCall, IdleBuild, Targeted, Specified

\* A request that starts.
LEMMA StartedCall ==
  ASSUME NEW op \in Ops, NEW c \in Charts, NEW s \in Specs,
         NEW pc \in Specified
  PROVE  [IdleCall EXCEPT !.op = op, !.pc = pc, !.chart = c, !.spec = s]
           \in GoodCall
<1>1. IdleCall \in Call
  BY IdleTypes DEF GoodCall
<1> QED
  BY <1>1 DEF GoodCall, Call, Ops, Targeted, Specified

LEMMA InvalidatingCall ==
  [IdleCall EXCEPT !.op = "edit", !.pc = "invalidate"] \in GoodCall
<1>1. IdleCall \in Call
  BY IdleTypes DEF GoodCall
<1> QED
  BY <1>1 DEF GoodCall, Call, Ops, Targeted, Specified

\* A request that stays about its chart may go anywhere its spec allows.
LEMMA MovedCall ==
  ASSUME NEW r \in GoodCall, NEW pc \in Specified \cup {"dropScratch",
           "dropState", "cascade"},
         r.pc \in Targeted,
         pc \in Specified => r.pc \in Specified
  PROVE  [r EXCEPT !.pc = pc] \in GoodCall
<1>1. r \in Call
  BY DEF GoodCall
<1> QED
  BY <1>1 DEF GoodCall, Call, Targeted, Specified

LEMMA FlagType == \A cut : Flag(cut) \in {"cut", "fits"}
BY DEF Flag

LEMMA CutType == \A v \in View : Cut(v) \in BOOLEAN
BY ChartAssumption DEF View, Cut

-----------------------------------------------------------------------------
(* Frames: what a step that leaves a part alone keeps *)

LEMMA BuiltStays ==
  ASSUME Built, UNCHANGED <<build, building, scratch>> PROVE Built'
BY DEF Built, Mapped, ScratchIsOwn

\* The view refreshed or dropped under a scratch name.
LEMMA BuiltScratch ==
  ASSUME Built, UNCHANGED <<build, building>>,
         scratch' \in [Charts -> View \cup {None}],
         \A c \in Charts :
           \/ scratch'[c] = None \/ scratch'[c] = scratch[c]
           \/ scratch[c] # None /\ scratch'[c].spec = scratch[c].spec
  PROVE  Built'
<1>1. ASSUME NEW b \in Builds, build[b].pc \in {"count", "swap"}
      PROVE  \/ scratch'[build[b].chart] = None
             \/ scratch'[build[b].chart].spec = build[b].spec
  <2>1. build[b].chart \in Charts
    BY <1>1 DEF Built, GoodBuild
  <2>2. \/ scratch[build[b].chart] = None
        \/ scratch[build[b].chart].spec = build[b].spec
    BY <1>1 DEF Built, ScratchIsOwn
  <2> QED
    BY <2>1, <2>2
<1> QED
  BY <1>1 DEF Built, Mapped, ScratchIsOwn

LEMMA RequestedStep ==
  ASSUME Requested, NEW k \in Calls, NEW r \in GoodCall, Becomes(k, r)
  PROVE  Requested'
BY DEF Requested, Becomes

LEMMA RequestedGoto ==
  ASSUME Requested, NEW k \in Calls,
         NEW pc \in Specified \cup {"dropScratch", "dropState", "cascade"},
         Goto(k, pc),
         call[k].pc \in Targeted,
         pc \in Specified => call[k].pc \in Specified
  PROVE  Requested'
<1>1. call[k] \in GoodCall
  BY DEF Requested
<1>2. [call[k] EXCEPT !.pc = pc] \in GoodCall
  BY <1>1, MovedCall
<1> QED
  BY <1>2, RequestedStep DEF Goto

LEMMA RequestedDone ==
  ASSUME Requested, NEW k \in Calls, Done(k) \/ Invalidating(k)
  PROVE  Requested'
BY IdleTypes, InvalidatingCall, RequestedStep DEF Done, Invalidating

\* buildMatview: a build that starts is the only one of its chart.
LEMMA BuiltMatview ==
  ASSUME Built, NEW c \in Charts, NEW s \in Specs, BuildMatview(c, s),
         UNCHANGED scratch
  PROVE  Built'
<1>1. CASE s \in Records \/ building[c] # None
  BY <1>1, BuiltStays DEF BuildMatview
<1>2. CASE ~(s \in Records \/ building[c] # None)
  <2>1. NewBuild(c, s)
    BY <1>2 DEF BuildMatview
  <2> DEFINE b == CHOOSE x \in Free : TRUE
             r == [IdleBuild EXCEPT !.pc = "drop", !.chart = c, !.spec = s]
  <2>2. b \in Builds /\ build[b].pc = "idle"
    BY <2>1 DEF NewBuild, Free
  <2>3. /\ build' = [build EXCEPT ![b] = r]
        /\ building' = [building EXCEPT ![c] = b]
    BY <2>1 DEF NewBuild
  <2> HIDE DEF b
  <2>4. r \in GoodBuild /\ r.pc = "drop" /\ r.chart = c
    <3>1. IdleBuild \in Build
      BY IdleTypes DEF GoodBuild
    <3> QED
      BY <3>1 DEF GoodBuild, Build
  <2> HIDE DEF r
  <2>5. build' \in [Builds -> GoodBuild]
    BY <2>2, <2>3, <2>4 DEF Built
  <2>6. building' \in [Charts -> Builds \cup {None}]
    BY <2>2, <2>3 DEF Built
  <2>7. Mapped'
    <3> SUFFICES ASSUME NEW e \in Charts, NEW a \in Builds
                 PROVE  building'[e] = a <=>
                          build'[a].pc # "idle" /\ build'[a].chart = e
      BY DEF Mapped
    <3>1. building[e] = a <=> build[a].pc # "idle" /\ build[a].chart = e
      BY DEF Built, Mapped
    <3>2. CASE a = b
      BY <2>2, <2>3, <2>4, <3>1, <3>2 DEF Built
    <3>3. CASE a # b
      <4>1. build'[a] = build[a]
        BY <2>3, <3>3 DEF Built
      <4>2. CASE e = c
        <5>1. building[c] # a
          BY <1>2, ChartAssumption
        <5> QED
          BY <2>3, <3>1, <3>3, <4>1, <4>2, <5>1 DEF Built
      <4>3. CASE e # c
        BY <2>3, <3>1, <4>1, <4>3 DEF Built
      <4> QED
        BY <4>2, <4>3
    <3> QED
      BY <3>2, <3>3
  <2>8. ScratchIsOwn'
    <3> SUFFICES ASSUME NEW a \in Builds, build'[a].pc \in {"count", "swap"}
                 PROVE  \/ scratch[build'[a].chart] = None
                        \/ scratch[build'[a].chart].spec = build'[a].spec
      BY DEF ScratchIsOwn
    <3>1. a # b
      BY <2>2, <2>3, <2>4 DEF Built
    <3>2. build'[a] = build[a]
      BY <2>3, <3>1 DEF Built
    <3> QED
      BY <3>2 DEF Built, ScratchIsOwn
  <2> QED
    BY <2>5, <2>6, <2>7, <2>8 DEF Built
<1> QED
  BY <1>1, <1>2

\* A build that ends, whichever way, leaves the map.
LEMMA BuiltOver ==
  ASSUME Built, NEW b \in Builds, build[b].pc # "idle", BuildOver(b),
         scratch' \in [Charts -> View \cup {None}],
         \A c \in Charts : scratch'[c] = None \/ scratch'[c] = scratch[c]
  PROVE  Built'
<1> DEFINE d == build[b].chart
<1>1. /\ d \in Charts
      /\ build' = [build EXCEPT ![b] = IdleBuild]
      /\ building' = [building EXCEPT ![d] = None]
  BY DEF Built, GoodBuild, BuildOver
<1>2. building[d] = b
  BY <1>1 DEF Built, Mapped
<1> HIDE DEF d
<1>3. /\ build' \in [Builds -> GoodBuild]
      /\ building' \in [Charts -> Builds \cup {None}]
  BY <1>1, IdleTypes DEF Built
<1>4. Mapped'
  <2> SUFFICES ASSUME NEW e \in Charts, NEW a \in Builds
               PROVE  building'[e] = a <=>
                        build'[a].pc # "idle" /\ build'[a].chart = e
    BY DEF Mapped
  <2>1. building[e] = a <=> build[a].pc # "idle" /\ build[a].chart = e
    BY DEF Built, Mapped
  <2>2. building[e] = b <=> e = d
    BY <1>1 DEF Built, Mapped, d
  <2>3. None # a
    BY ChartAssumption
  <2>4. CASE a = b
    BY <1>1, <2>2, <2>3, <2>4, IdleTypes DEF Built
  <2>5. CASE a # b
    <3>1. build'[a] = build[a]
      BY <1>1, <2>5 DEF Built
    <3>2. CASE e = d
      BY <1>1, <1>2, <2>1, <2>3, <2>5, <3>1, <3>2 DEF Built
    <3>3. CASE e # d
      BY <1>1, <2>1, <3>1, <3>3 DEF Built
    <3> QED
      BY <3>2, <3>3
  <2> QED
    BY <2>4, <2>5
<1>5. ScratchIsOwn'
  <2> SUFFICES ASSUME NEW a \in Builds, build'[a].pc \in {"count", "swap"}
               PROVE  \/ scratch'[build'[a].chart] = None
                      \/ scratch'[build'[a].chart].spec = build'[a].spec
    BY DEF ScratchIsOwn
  <2>1. a # b
    BY <1>1, IdleTypes DEF Built
  <2>2. build'[a] = build[a]
    BY <1>1, <2>1 DEF Built
  <2>3. build[a].chart \in Charts
    BY <2>2 DEF Built, GoodBuild
  <2> QED
    BY <2>2, <2>3 DEF Built, ScratchIsOwn
<1> QED
  BY <1>3, <1>4, <1>5 DEF Built

\* A build that goes on: for the same chart and spec, with its own scratch view.
LEMMA BuiltGoto ==
  ASSUME Built, NEW b \in Builds, NEW r \in GoodBuild, BuildGoto(b, r),
         build[b].pc # "idle", r.pc # "idle", r.chart = build[b].chart,
         r.spec = build[b].spec,
         UNCHANGED building,
         scratch' \in [Charts -> View \cup {None}],
         \A c \in Charts : c # build[b].chart => scratch'[c] = scratch[c],
         r.pc \in {"count", "swap"} =>
           \/ scratch'[r.chart] = None
           \/ scratch'[r.chart].spec = r.spec
  PROVE  Built'
<1>1. /\ build' \in [Builds -> GoodBuild]
      /\ build'[b] = r
      /\ \A a \in Builds : a # b => build'[a] = build[a]
  BY DEF Built, BuildGoto
<1>2. Mapped'
  <2> SUFFICES ASSUME NEW e \in Charts, NEW a \in Builds
               PROVE  building'[e] = a <=>
                        build'[a].pc # "idle" /\ build'[a].chart = e
    BY DEF Mapped
  <2>1. building[e] = a <=> build[a].pc # "idle" /\ build[a].chart = e
    BY DEF Built, Mapped
  <2> QED
    BY <1>1, <2>1
<1>3. ScratchIsOwn'
  <2> SUFFICES ASSUME NEW a \in Builds, build'[a].pc \in {"count", "swap"}
               PROVE  \/ scratch'[build'[a].chart] = None
                      \/ scratch'[build'[a].chart].spec = build'[a].spec
    BY DEF ScratchIsOwn
  <2>1. CASE a = b
    BY <1>1, <2>1
  <2>2. CASE a # b
    <3>1. build'[a] = build[a]
      BY <1>1, <2>2
    <3>2. build[a].chart \in Charts /\ build[b].chart \in Charts
      BY <3>1 DEF Built, GoodBuild
    <3>3. build[a].chart # build[b].chart
      BY <2>2, <3>1, <3>2 DEF Built, Mapped
    <3>4. scratch'[build[a].chart] = scratch[build[a].chart]
      BY <3>2, <3>3
    <3> QED
      BY <3>1, <3>4 DEF Built, ScratchIsOwn
  <2> QED
    BY <2>1, <2>2
<1> QED
  BY <1>1, <1>2, <1>3 DEF Built

-----------------------------------------------------------------------------
(* The initial states and the steps *)

LEMMA SoundInit == Init => Sound
<1> SUFFICES ASSUME Init PROVE Sound
  OBVIOUS
<1>1. Plain
  BY ChartAssumption DEF Init, Plain, Versions, Answers, ViewNames
<1>2. Requested
  BY IdleTypes DEF Init, Requested
<1>3. Built
  BY IdleTypes, ChartAssumption
  DEF Init, Built, Mapped, ScratchIsOwn, IdleBuild
<1> QED
  BY <1>1, <1>2, <1>3 DEF Sound

\* A request begins.
LEMMA SoundRequest ==
  ASSUME Sound, NEW k \in Calls, Request(k) PROVE Sound'
<1> USE DEF Sound
<1>a. \A c \in Exists : c \in Charts /\ widget[c] \in Specs
  BY DEF Exists
<1>b. ASSUME NEW c \in Charts, NEW s \in Specs, SetConfig(c, s)
      PROVE  widget' \in [Charts -> Specs \cup {NotYet, Gone}]
  BY <1>b DEF SetConfig, Plain
<1>c. ASSUME NEW cs, Delete(cs)
      PROVE  widget' \in [Charts -> Specs \cup {NotYet, Gone}]
  BY <1>c DEF Delete, Plain
<1>1. ASSUME NEW c \in Charts, NEW s \in Specs, AddChart(k, c, s) PROVE Sound'
  <2>1. Requested'
    BY <1>1, StartedCall, RequestedStep DEF AddChart, Specified, Ops
  <2>2. Plain'
    BY <1>1 DEF AddChart, Plain
  <2> QED
    BY <1>1, <2>1, <2>2, BuiltStays DEF AddChart
<1>2. ASSUME NEW c \in Charts, NEW s \in Specs, UpdateChart(k, c, s)
      PROVE  Sound'
  <2>1. Requested'
    BY <1>2, StartedCall, RequestedStep DEF UpdateChart, Specified, Ops
  <2>2. Plain'
    BY <1>2, <1>b DEF UpdateChart, Plain
  <2> QED
    BY <1>2, <2>1, <2>2, BuiltStays DEF UpdateChart
<1>3. ASSUME NEW c \in Charts, NEW s \in Specs, AdminUpdateWidget(k, c, s)
      PROVE  Sound'
  <2>1. Requested'
    BY <1>3, RequestedDone DEF AdminUpdateWidget
  <2>2. Plain'
    BY <1>3, <1>b DEF AdminUpdateWidget, Plain
  <2> QED
    BY <1>3, <2>1, <2>2, BuiltStays DEF AdminUpdateWidget
<1>4. ASSUME NEW c \in Charts, AdminDeleteWidget(k, c) PROVE Sound'
  <2>1. Requested'
    BY <1>4, RequestedDone DEF AdminDeleteWidget
  <2>2. Plain'
    BY <1>4, <1>c DEF AdminDeleteWidget, Plain
  <2> QED
    BY <1>4, <2>1, <2>2, BuiltStays DEF AdminDeleteWidget
<1>5. ASSUME NEW c \in Charts, RemoveChart(k, c) PROVE Sound'
  <2> DEFINE r == [IdleCall EXCEPT !.op = "remove", !.pc = "dropView",
                                   !.chart = c]
  <2>1. r \in GoodCall
    BY IdleTypes DEF GoodCall, Call, Ops, Targeted, Specified
  <2>2. Becomes(k, r)
    BY <1>5 DEF RemoveChart
  <2> HIDE DEF r
  <2>3. Requested'
    BY <2>1, <2>2, RequestedStep
  <2>4. Plain'
    BY <1>5, <1>c DEF RemoveChart, Plain
  <2> QED
    BY <1>5, <2>3, <2>4, BuiltStays DEF RemoveChart
<1>6. ASSUME DeleteDashboard(k) PROVE Sound'
  <2>1. PICK c \in Exists :
          Becomes(k, [IdleCall EXCEPT !.op = "removeAll", !.pc = "dropView",
                                      !.chart = c, !.todo = Exists \ {c}])
    BY <1>6 DEF DeleteDashboard
  <2> DEFINE r == [IdleCall EXCEPT !.op = "removeAll", !.pc = "dropView",
                                   !.chart = c, !.todo = Exists \ {c}]
  <2>2. Exists \ {c} \in SUBSET Charts
    BY DEF Exists
  <2>3. r \in GoodCall
    BY <1>a, <2>2, IdleTypes DEF GoodCall, Call, Ops, Targeted, Specified
  <2> HIDE DEF r
  <2>4. Requested'
    BY <2>1, <2>3, RequestedStep DEF r
  <2>5. Plain'
    BY <1>6 DEF DeleteDashboard, Plain
  <2> QED
    BY <1>6, <2>4, <2>5, BuiltStays DEF DeleteDashboard
<1>7. ASSUME NEW c \in Charts, NEW op \in {"read", "drill"}, Open(k, c, op)
      PROVE  Sound'
  <2> DEFINE s == widget[c]
             pc == IF op = "read" /\ s \notin PerViewer
                   THEN "cached" ELSE Source(op, s)
             r == [IdleCall EXCEPT !.op = op, !.chart = c, !.spec = s,
                                   !.pc = pc]
  <2>1. s \in Specs
    BY <1>7, <1>a DEF Open
  <2>2. pc \in Specified
    BY DEF Specified, Source
  <2>3. Becomes(k, r)
    BY <1>7 DEF Open
  <2> HIDE DEF s, pc
  <2>4. r \in GoodCall
    BY <2>1, <2>2, IdleTypes DEF GoodCall, Call, Ops, Targeted, Specified
  <2> HIDE DEF r
  <2>5. Requested'
    BY <2>3, <2>4, RequestedStep
  <2>6. Plain'
    BY <1>7 DEF Open, Plain
  <2> QED
    BY <1>7, <2>5, <2>6, BuiltStays DEF Open
<1> QED
  BY <1>1, <1>2, <1>3, <1>4, <1>5, <1>6, <1>7 DEF Request

\* An edit or a removal goes on.
LEMMA SoundEdit ==
  ASSUME Sound, NEW k \in Calls, Edit(k) PROVE Sound'
<1> USE DEF Sound
<1>a. call[k] \in GoodCall
  BY DEF Requested
<1>b. Cleared => cache' \in [Charts -> Answers \cup {None}]
  BY DEF Cleared, Plain
<1>c. ASSUME NextChart(k), call[k].pc \in Targeted PROVE Requested'
  <2>1. CASE call[k].op = "remove"
    BY <1>c, <2>1, RequestedDone DEF NextChart
  <2>2. CASE call[k].op # "remove" /\ call[k].todo = {}
    BY <1>c, <2>2, RequestedGoto DEF NextChart, Specified
  <2>3. CASE call[k].op # "remove" /\ call[k].todo # {}
    <3>1. PICK c \in call[k].todo :
            Becomes(k, [call[k] EXCEPT !.pc = "dropView", !.chart = c,
                                       !.todo = call[k].todo \ {c}])
      BY <1>c, <2>3 DEF NextChart
    <3> DEFINE left == call[k].todo \ {c}
               r == [call[k] EXCEPT !.pc = "dropView", !.chart = c,
                                    !.todo = left]
    <3>2. c \in Charts /\ left \in SUBSET Charts
      BY <1>a DEF GoodCall, Call
    <3>3. Becomes(k, r)
      BY <3>1
    <3> HIDE DEF left
    <3>4. r \in GoodCall
      BY <1>a, <3>2 DEF GoodCall, Call, Targeted, Specified
    <3> HIDE DEF r
    <3> QED
      BY <3>3, <3>4, RequestedStep
  <2> QED
    BY <2>1, <2>2, <2>3
<1>1. ASSUME Rebuild(k) PROVE Sound'
  <2>1. call[k].chart \in Charts /\ call[k].spec \in Specs
    BY <1>1, <1>a DEF Rebuild, At, GoodCall, Targeted, Specified
  <2>2. Built'
    BY <1>1, <2>1, BuiltMatview DEF Rebuild
  <2>3. Requested'
    BY <1>1, RequestedDone DEF Rebuild
  <2> QED
    BY <1>1, <2>2, <2>3 DEF Rebuild, Plain
<1>2. ASSUME Invalidate(k) PROVE Sound'
  <2>1. Requested'
    BY <1>2, RequestedDone DEF Invalidate
  <2>2. Plain'
    BY <1>2, <1>b DEF Invalidate, Plain
  <2> QED
    BY <1>2, <2>1, <2>2, BuiltStays DEF Invalidate
<1>3. ASSUME DropView(k) PROVE Sound'
  <2>1. Requested'
    BY <1>3, RequestedGoto DEF DropView, At, Targeted, Specified
  <2>2. Plain'
    BY <1>3 DEF DropView, Plain
  <2> QED
    BY <1>3, <2>1, <2>2, BuiltStays DEF DropView
<1>4. ASSUME DropBuild(k) PROVE Sound'
  <2>1. Requested'
    BY <1>4, RequestedGoto DEF DropBuild, At, Targeted, Specified
  <2>2. Plain'
    BY <1>4 DEF DropBuild, Plain
  <2>3. /\ scratch' \in [Charts -> View \cup {None}]
        /\ \A c \in Charts : scratch'[c] = None \/ scratch'[c] = scratch[c]
    BY <1>4 DEF DropBuild, Built
  <2>4. Built'
    BY <1>4, <2>3, BuiltScratch DEF DropBuild
  <2> QED
    BY <2>1, <2>2, <2>4
<1>5. ASSUME DropState(k) PROVE Sound'
  <2>1. Requested'
    BY <1>5, <1>c DEF DropState, At, Targeted
  <2>2. Plain'
    BY <1>5 DEF DropState, Plain
  <2> QED
    BY <1>5, <2>1, <2>2, BuiltStays DEF DropState
<1>6. ASSUME DropFails(k) PROVE Sound'
  <2>1. Requested'
    BY <1>6, <1>c DEF DropFails, Targeted
  <2> QED
    BY <1>6, <2>1, BuiltStays DEF DropFails, Plain
<1>7. ASSUME Cascade(k) PROVE Sound'
  <2>1. Requested'
    BY <1>7, RequestedDone DEF Cascade
  <2>2. Plain'
    BY <1>7 DEF Cascade, Delete, Plain
  <2> QED
    BY <1>7, <2>1, <2>2, BuiltStays DEF Cascade
<1> QED
  BY <1>1, <1>2, <1>3, <1>4, <1>5, <1>6, <1>7 DEF Edit

\* A read or a drill goes on.
LEMMA SoundRead ==
  ASSUME Sound, NEW k \in Calls, Read(k) PROVE Sound'
<1> USE DEF Sound
<1>a. call[k] \in GoodCall /\ call[k] \in Call
  BY DEF Requested, GoodCall
<1>b. call[k].pc \in Specified =>
        call[k].chart \in Charts /\ call[k].spec \in Specs
  BY <1>a DEF GoodCall, Targeted
<1>1. ASSUME CacheHit(k) PROVE Sound'
  <2>1. Requested'
    BY <1>1, RequestedDone DEF CacheHit
  <2> QED
    BY <1>1, <2>1, BuiltStays DEF CacheHit, Plain
<1>2. ASSUME CacheMiss(k) PROVE Sound'
  <2>1. Source(call[k].op, call[k].spec) \in Specified
    BY DEF Source, Specified
  <2>2. Requested'
    BY <1>2, <2>1, RequestedGoto DEF CacheMiss, At, Targeted, Specified
  <2> QED
    BY <1>2, <2>2, BuiltStays DEF CacheMiss, Plain
<1>3. ASSUME ReadFlag(k) PROVE Sound'
  <2> DEFINE pc == CASE truncated[call[k].chart] = "cut" -> "live"
                     [] truncated[call[k].chart] = "fits" -> "view"
                     [] OTHER -> "probe"
  <2>1. pc \in Specified
    BY DEF Specified
  <2>2. Goto(k, pc)
    BY <1>3 DEF ReadFlag
  <2> HIDE DEF pc
  <2>3. Requested'
    BY <1>3, <2>1, <2>2, RequestedGoto DEF ReadFlag, At, Targeted, Specified
  <2> QED
    BY <1>3, <2>3, BuiltStays DEF ReadFlag, Plain
<1>4. ASSUME Probe(k) PROVE Sound'
  <2> DEFINE cut == Cut(mv[call[k].chart])
             r == [call[k] EXCEPT !.pc = "record", !.cut = cut]
  <2>1. call[k].chart \in Charts /\ call[k].spec \in Specs
    BY <1>4, <1>b DEF Probe, At, Specified
  <2>2. mv[call[k].chart] \in View
    BY <1>4, <2>1 DEF Probe, Plain
  <2>3. cut \in BOOLEAN
    BY <2>2, CutType
  <2>4. Becomes(k, r)
    BY <1>4 DEF Probe
  <2> HIDE DEF cut
  <2>5. r \in GoodCall
    BY <1>a, <2>1, <2>3 DEF GoodCall, Call, Targeted, Specified
  <2> HIDE DEF r
  <2>6. Requested'
    BY <2>4, <2>5, RequestedStep
  <2> QED
    BY <1>4, <2>6, BuiltStays DEF Probe, Plain
<1>5. ASSUME RecordFlag(k) PROVE Sound'
  <2> DEFINE pc == IF call[k].cut THEN "live" ELSE "view"
             r == [call[k] EXCEPT !.pc = pc, !.cut = FALSE]
  <2>1. call[k].chart \in Charts /\ call[k].spec \in Specs
    BY <1>5, <1>b DEF RecordFlag, At, Specified
  <2>2. pc \in {"live", "view"}
    OBVIOUS
  <2>3. Becomes(k, r)
    BY <1>5 DEF RecordFlag
  <2> HIDE DEF pc
  <2>4. r \in GoodCall
    BY <1>a, <2>1, <2>2 DEF GoodCall, Call, Targeted, Specified
  <2> HIDE DEF r
  <2>5. Requested'
    BY <2>3, <2>4, RequestedStep
  <2>6. Plain'
    BY <1>5, FlagType DEF RecordFlag, Plain
  <2> QED
    BY <1>5, <2>5, <2>6, BuiltStays DEF RecordFlag
<1>6. ASSUME ReadView(k) PROVE Sound'
  <2> DEFINE v == mv[call[k].chart]
             rows == [spec |-> v.spec, data |-> v.data, cut |-> Cut(v)]
             r == [call[k] EXCEPT !.pc = "answer", !.rows = rows]
  <2>1. call[k].chart \in Charts /\ call[k].spec \in Specs
    BY <1>6, <1>b DEF ReadView, At, Specified
  <2>2. v \in View
    BY <1>6, <2>1 DEF ReadView, Plain
  <2>3. Becomes(k, r)
    BY <1>6 DEF ReadView
  <2> HIDE DEF v
  <2>4. rows \in Answers
    BY <2>2, CutType DEF View, Answers, Answer
  <2> HIDE DEF rows
  <2>5. r \in GoodCall
    BY <1>a, <2>1, <2>4 DEF GoodCall, Call, Targeted, Specified
  <2> HIDE DEF r
  <2>6. Requested'
    BY <2>3, <2>5, RequestedStep
  <2> QED
    BY <1>6, <2>6, BuiltStays DEF ReadView, Plain
<1>7. ASSUME Missing(k) PROVE Sound'
  <2>1. call[k].pc \in Specified
    BY <1>7 DEF Missing, Specified
  <2>2. Built'
    <3>1. CASE call[k].retried
      BY <1>7, <3>1, BuiltStays DEF Missing
    <3>2. CASE ~call[k].retried
      BY <1>7, <1>b, <2>1, <3>2, BuiltMatview DEF Missing
    <3> QED
      BY <3>1, <3>2
  <2> DEFINE pc == IF call[k].op = "drill" /\ ~call[k].retried
                   THEN "await" ELSE "live"
  <2>3. pc \in Specified /\ Goto(k, pc)
    BY <1>7 DEF Missing, Specified
  <2> HIDE DEF pc
  <2>4. Requested'
    BY <2>1, <2>3, RequestedGoto DEF Targeted
  <2> QED
    BY <1>7, <2>2, <2>4 DEF Missing, Plain
<1>8. ASSUME AwaitOver(k) PROVE Sound'
  <2> DEFINE r == [call[k] EXCEPT !.pc = "flag", !.retried = TRUE]
  <2>1. call[k].chart \in Charts /\ call[k].spec \in Specs
    BY <1>8, <1>b DEF AwaitOver, At, Specified
  <2>2. r \in GoodCall
    BY <1>a, <2>1 DEF GoodCall, Call, Targeted, Specified
  <2>3. Requested'
    BY <1>8, <2>2, RequestedStep DEF AwaitOver
  <2> QED
    BY <1>8, <2>3, BuiltStays DEF AwaitOver, Plain
<1>9. ASSUME Live(k) PROVE Sound'
  <2>1. call[k].chart \in Charts /\ call[k].spec \in Specs
    BY <1>9, <1>b DEF Live, At, Specified
  <2>2. PICK rows \in {NoRows, [spec |-> call[k].spec, data |-> data,
                                cut |-> FALSE]} :
          Becomes(k, [call[k] EXCEPT !.pc = "answer", !.rows = rows])
    BY <1>9 DEF Live
  <2>3. rows \in Answers
    <3>1. [spec |-> call[k].spec, data |-> data, cut |-> FALSE] \in Answer
      BY <2>1 DEF Answer, Plain
    <3> QED
      BY <2>2, <3>1 DEF Answers
  <2> DEFINE r == [call[k] EXCEPT !.pc = "answer", !.rows = rows]
  <2>4. r \in GoodCall
    BY <1>a, <2>1, <2>3 DEF GoodCall, Call, Targeted, Specified
  <2>5. Requested'
    BY <2>2, <2>4, RequestedStep
  <2> QED
    BY <1>9, <2>5, BuiltStays DEF Live, Plain
<1>10. ASSUME Reply(k) PROVE Sound'
  <2>1. Requested'
    BY <1>10, RequestedDone DEF Reply
  <2>2. call[k].rows \in Answers
    BY <1>a DEF Call
  <2>3. Plain'
    BY <1>10, <2>2 DEF Reply, Plain
  <2> QED
    BY <1>10, <2>1, <2>3, BuiltStays DEF Reply
<1> QED
  BY <1>1, <1>2, <1>3, <1>4, <1>5, <1>6, <1>7, <1>8, <1>9, <1>10 DEF Read

\* A build goes on, or ends.
LEMMA SoundBuild ==
  ASSUME Sound, NEW b \in Builds, BuildStep(b) PROVE Sound'
<1> USE DEF Sound
<1> DEFINE c == build[b].chart
<1>a. build[b] \in GoodBuild /\ build[b] \in Build
  BY DEF Built, GoodBuild
<1>b. build[b].pc # "idle" => c \in Charts /\ build[b].spec \in Specs
  BY <1>a DEF GoodBuild
<1>1. ASSUME DropScratch(b) PROVE Sound'
  <2> DEFINE r == [build[b] EXCEPT !.pc = "create"]
  <2>1. /\ r \in GoodBuild /\ r.pc = "create"
        /\ r.chart = c /\ r.spec = build[b].spec
    BY <1>1, <1>a, <1>b DEF DropScratch, GoodBuild, Build
  <2>2. BuildGoto(b, r)
    BY <1>1 DEF DropScratch
  <2> HIDE DEF r
  <2>3. Built'
    BY <1>1, <2>1, <2>2, BuiltGoto DEF DropScratch, Built
  <2> QED
    BY <1>1, <2>3 DEF DropScratch, Plain, Requested
<1>2. ASSUME Snapshot(b) PROVE Sound'
  <2> DEFINE r == [build[b] EXCEPT !.pc = "populate", !.data = data]
  <2>1. /\ r \in GoodBuild /\ r.pc = "populate"
        /\ r.chart = c /\ r.spec = build[b].spec
    BY <1>2, <1>a, <1>b DEF Snapshot, GoodBuild, Build, Plain
  <2>2. BuildGoto(b, r)
    BY <1>2 DEF Snapshot
  <2> HIDE DEF r
  <2>3. Built'
    BY <1>2, <2>1, <2>2, BuiltGoto DEF Snapshot, Built
  <2> QED
    BY <1>2, <2>3 DEF Snapshot, Plain, Requested
<1>3. ASSUME Populated(b) PROVE Sound'
  <2> DEFINE v == [spec |-> build[b].spec, data |-> build[b].data]
             r == [build[b] EXCEPT !.pc = "count", !.data = 0]
  <2>0. 0 \in Versions
    BY ChartAssumption DEF Versions
  <2>1. /\ r \in GoodBuild /\ r.pc = "count"
        /\ r.chart = c /\ r.spec = build[b].spec
    BY <1>3, <1>a, <1>b, <2>0 DEF Populated, GoodBuild, Build
  <2>2. v \in View /\ v.spec = build[b].spec /\ c \in Charts
    BY <1>3, <1>a, <1>b DEF Populated, Build, View
  <2>3. scratch' = [scratch EXCEPT ![c] = v] /\ BuildGoto(b, r)
    BY <1>3 DEF Populated
  <2> HIDE DEF r, v
  <2>4. Built'
    BY <1>3, <2>1, <2>2, <2>3, BuiltGoto DEF Populated, Built
  <2> QED
    BY <1>3, <2>4 DEF Populated, Plain, Requested
<1>4. ASSUME CountRows(b) PROVE Sound'
  <2> DEFINE cut == Cut(scratch[c])
             r == [build[b] EXCEPT !.pc = "swap", !.cut = cut]
  <2>1. scratch[c] \in View
    BY <1>4, <1>b DEF CountRows, Built
  <2>2. cut \in BOOLEAN
    BY <2>1, CutType
  <2>3. BuildGoto(b, r)
    BY <1>4 DEF CountRows
  <2> HIDE DEF cut
  <2>4. /\ r \in GoodBuild /\ r.pc = "swap"
        /\ r.chart = c /\ r.spec = build[b].spec
    BY <1>4, <1>a, <1>b, <2>2 DEF CountRows, GoodBuild, Build
  <2> HIDE DEF r
  <2>5. scratch[c] = None \/ scratch[c].spec = build[b].spec
    BY <1>4 DEF CountRows, Built, ScratchIsOwn
  <2>6. Built'
    BY <1>4, <2>3, <2>4, <2>5, BuiltGoto DEF CountRows, Built
  <2> QED
    BY <1>4, <2>6 DEF CountRows, Plain, Requested
<1>5. ASSUME Swap(b) PROVE Sound'
  <2>1. c \in Charts /\ build[b].pc # "idle"
    BY <1>5, <1>b DEF Swap
  <2>2. /\ scratch' \in [Charts -> View \cup {None}]
        /\ \A e \in Charts : scratch'[e] = None \/ scratch'[e] = scratch[e]
    BY <1>5 DEF Swap, Built
  <2>3. Built'
    BY <1>5, <2>1, <2>2, BuiltOver DEF Swap
  <2>4. Plain'
    BY <1>5, <2>1, FlagType DEF Swap, Plain, Built
  <2> QED
    BY <1>5, <2>3, <2>4 DEF Swap, Requested
<1>6. ASSUME BuildFails(b) PROVE Sound'
  <2>1. Built'
    BY <1>6, BuiltOver DEF BuildFails, Built
  <2> QED
    BY <1>6, <2>1 DEF BuildFails, Plain, Requested
<1> QED
  BY <1>1, <1>2, <1>3, <1>4, <1>5, <1>6 DEF BuildStep

\* A refreshed view is a view of the same spec.
LEMMA RefreshedView ==
  \A v \in View, d \in Versions :
    /\ [v EXCEPT !.data = d] \in View
    /\ [v EXCEPT !.data = d].spec = v.spec
    /\ [v EXCEPT !.data = d] # None
BY ChartAssumption DEF View

\* A sync commits or refreshes, an entry expires, the backend restarts.
LEMMA SoundAround ==
  ASSUME Sound,
         \/ SyncCommit \/ SyncStep
         \/ \E c \in Charts : Expire(c)
         \/ Crash
  PROVE  Sound'
<1> USE DEF Sound
<1>1. ASSUME SyncCommit PROVE Sound'
  <2>1. Plain'
    BY <1>1, ChartAssumption DEF SyncCommit, Plain, Versions
  <2> QED
    BY <1>1, <2>1, BuiltStays DEF SyncCommit, Requested
<1>2. ASSUME SyncList PROVE Sound'
  <2>1. Plain'
    BY <1>2 DEF SyncList, Plain
  <2> QED
    BY <1>2, <2>1, BuiltStays DEF SyncList, Requested
<1>3. ASSUME NEW n \in ViewNames, SyncRefresh(n) PROVE Sound'
  <2>1. n[1] \in Charts
    BY DEF ViewNames
  <2>2. sync' \in [pc : {"idle", "list", "refresh"}, todo : SUBSET ViewNames]
    BY <1>3 DEF SyncRefresh, Plain
  <2>3. CASE UNCHANGED <<mv, scratch>>
    BY <1>3, <2>2, <2>3, BuiltStays DEF SyncRefresh, Plain, Requested
  <2>4. CASE /\ mv[n[1]] # None
             /\ mv' = [mv EXCEPT ![n[1]].data = data]
             /\ UNCHANGED scratch
    <3>1. mv[n[1]] \in View
      BY <2>1, <2>4 DEF Plain
    <3>2. mv' \in [Charts -> View \cup {None}]
      BY <2>4, <3>1, RefreshedView DEF Plain
    <3> QED
      BY <1>3, <2>2, <2>4, <3>2, BuiltStays DEF SyncRefresh, Plain, Requested
  <2>5. CASE /\ scratch[n[1]] # None
             /\ scratch' = [scratch EXCEPT ![n[1]].data = data]
             /\ UNCHANGED mv
    <3> DEFINE v == [scratch[n[1]] EXCEPT !.data = data]
    <3>1. scratch[n[1]] \in View
      BY <2>1, <2>5 DEF Built
    <3>2. v \in View /\ v.spec = scratch[n[1]].spec
      BY <3>1, RefreshedView DEF Plain
    <3>3. scratch' = [scratch EXCEPT ![n[1]] = v]
      BY <2>5
    <3> HIDE DEF v
    <3>4. /\ scratch' \in [Charts -> View \cup {None}]
          /\ \A c \in Charts :
               \/ scratch'[c] = scratch[c]
               \/ scratch[c] # None /\ scratch'[c].spec = scratch[c].spec
      BY <2>1, <2>5, <3>2, <3>3 DEF Built
    <3>5. Built'
      BY <1>3, <3>4, BuiltScratch DEF SyncRefresh
    <3> QED
      BY <1>3, <2>2, <2>5, <3>5 DEF SyncRefresh, Plain, Requested
  <2> QED
    BY <1>3, <2>3, <2>4, <2>5 DEF SyncRefresh
<1>4. ASSUME SyncInvalidate PROVE Sound'
  <2>1. cache' \in [Charts -> Answers \cup {None}]
    BY <1>4 DEF SyncInvalidate, Cleared, Plain
  <2>2. Plain'
    BY <1>4, <2>1 DEF SyncInvalidate, Plain
  <2> QED
    BY <1>4, <2>2, BuiltStays DEF SyncInvalidate, Requested
<1>5. ASSUME NEW c \in Charts, Expire(c) PROVE Sound'
  <2>1. Plain'
    BY <1>5 DEF Expire, Plain
  <2> QED
    BY <1>5, <2>1, BuiltStays DEF Expire, Requested
<1>6. ASSUME Crash PROVE Sound'
  <2>1. Requested'
    BY <1>6, IdleTypes DEF Crash, Requested
  <2>2. Plain'
    BY <1>6 DEF Crash, Plain
  <2>3. Built'
    BY <1>6, IdleTypes, ChartAssumption
    DEF Crash, Built, Mapped, ScratchIsOwn, IdleBuild
  <2> QED
    BY <2>1, <2>2, <2>3
<1> QED
  BY <1>1, <1>2, <1>3, <1>4, <1>5, <1>6 DEF SyncStep

LEMMA SoundNext == Sound /\ [Next]_vars => Sound'
<1> SUFFICES ASSUME Sound, [Next]_vars PROVE Sound'
  OBVIOUS
<1>1. CASE Next
  BY <1>1, SoundRequest, SoundEdit, SoundRead, SoundBuild, SoundAround DEF Next
<1>2. CASE UNCHANGED vars
  BY <1>2, BuiltStays DEF vars, Sound, Plain, Requested
<1> QED
  BY <1>1, <1>2

LEMMA AlwaysSound == Spec => []Sound
<1>1. Init => Sound
  BY SoundInit
<1>2. Sound /\ [Next]_vars => Sound'
  BY SoundNext
<1> QED
  BY <1>1, <1>2, PTL DEF Spec

-----------------------------------------------------------------------------
(* The theorems *)

\* Every variable keeps its type, and the in-memory map names exactly the
\* builds under way (dashboard.service.ts 132-149).
THEOREM ChartTypes == Spec => []TypeOK
BY AlwaysSound, SoundIsTyped, PTL

\* From the count of its rows on, what has a build's scratch name was made by
\* that build, whatever is edited, removed and refreshed meanwhile.
THEOREM ScratchViewsAreOwn == Spec => []ScratchIsOwn
BY AlwaysSound, SoundIsTyped, PTL

\* Only a removal, a swap and a refresh change the views that are read.
LEMMA ViewChanges ==
  ASSUME [Next]_vars, mv' # mv
  PROVE  \/ \E k \in Calls : DropView(k)
         \/ \E b \in Builds : Swap(b)
         \/ \E n \in ViewNames : SyncRefresh(n)
<1>1. ASSUME NEW k \in Calls, Request(k) PROVE UNCHANGED mv
  BY <1>1 DEF Request, AddChart, UpdateChart, AdminUpdateWidget,
              AdminDeleteWidget, RemoveChart, DeleteDashboard, Open
<1>2. ASSUME NEW k \in Calls, Edit(k) PROVE DropView(k) \/ UNCHANGED mv
  BY <1>2 DEF Edit, Rebuild, Invalidate, DropBuild, DropState, DropFails,
              Cascade
<1>3. ASSUME NEW k \in Calls, Read(k) PROVE UNCHANGED mv
  BY <1>3 DEF Read, CacheHit, CacheMiss, ReadFlag, Probe, RecordFlag, ReadView,
              Missing, AwaitOver, Live, Reply
<1>4. ASSUME NEW b \in Builds, BuildStep(b) PROVE Swap(b) \/ UNCHANGED mv
  BY <1>4 DEF BuildStep, DropScratch, Snapshot, Populated, CountRows, BuildFails
<1>5. ASSUME SyncCommit \/ SyncList \/ SyncInvalidate \/ Crash
      PROVE  UNCHANGED mv
  BY <1>5 DEF SyncCommit, SyncList, SyncInvalidate, Crash
<1>6. ASSUME NEW c \in Charts, Expire(c) PROVE UNCHANGED mv
  BY <1>6 DEF Expire
<1> QED
  BY <1>1, <1>2, <1>3, <1>4, <1>5, <1>6 DEF Next, SyncStep, vars

\* A build swaps in a view of the spec it was started for.
THEOREM BuildsSwapTheirOwn == Spec => SwapsOwnBuild
<1>1. Sound /\ [Next]_vars =>
        \A b \in Builds :
          /\ build[b].pc = "swap"
          /\ build'[b].pc = "idle"
          /\ mv'[build[b].chart] # mv[build[b].chart]
          => mv'[build[b].chart].spec = build[b].spec
  <2> SUFFICES ASSUME Sound, [Next]_vars, NEW b \in Builds,
                      build[b].pc = "swap", build'[b].pc = "idle",
                      mv'[build[b].chart] # mv[build[b].chart]
               PROVE  mv'[build[b].chart].spec = build[b].spec
    OBVIOUS
  <2>1. build' # build
    OBVIOUS
  <2>2. PICK a \in Builds : Swap(a)
    BY <2>1, ViewChanges DEF DropView, SyncRefresh
  <2>3. build' = [build EXCEPT ![a] = IdleBuild]
    BY <2>2 DEF Swap, BuildOver
  <2>4. a = b
    BY <2>3 DEF Sound, Built
  <2>5. build[b].chart \in Charts
    BY DEF Sound, Built, GoodBuild
  <2>6. scratch[build[b].chart].spec = build[b].spec
    BY <2>2, <2>4 DEF Sound, Built, ScratchIsOwn, Swap
  <2> QED
    BY <2>2, <2>4, <2>5, <2>6 DEF Swap, Sound, Plain
<1> QED
  BY <1>1, AlwaysSound, PTL DEF Spec, SwapsOwnBuild

\* A view that can be read is taken away by a removal of its chart only.
THEOREM ViewsStay == Spec => StaysReadable
<1>1. Sound /\ [Next]_vars =>
        \A c \in Charts :
          mv[c] # None /\ mv'[c] = None
            => \E k \in Calls : At(k, "dropView") /\ call[k].chart = c
  <2> SUFFICES ASSUME Sound, [Next]_vars, NEW c \in Charts,
                      mv[c] # None, mv'[c] = None
               PROVE  \E k \in Calls : At(k, "dropView") /\ call[k].chart = c
    OBVIOUS
  <2>0. mv \in [Charts -> View \cup {None}]
    BY DEF Sound, Plain
  <2>1. ASSUME NEW k \in Calls, DropView(k)
        PROVE  At(k, "dropView") /\ call[k].chart = c
    BY <2>0, <2>1 DEF DropView
  <2>2. ASSUME NEW b \in Builds, Swap(b) PROVE FALSE
    BY <2>0, <2>2 DEF Swap
  <2>3. ASSUME NEW n \in ViewNames, SyncRefresh(n) PROVE FALSE
    <3>1. mv' = [mv EXCEPT ![n[1]].data = data]
      BY <2>3 DEF SyncRefresh
    <3>2. c = n[1] /\ mv[c] \in View /\ data \in Versions
      BY <2>0, <3>1 DEF Sound, Plain
    <3>3. mv'[c] = [mv[c] EXCEPT !.data = data]
      BY <2>0, <3>1, <3>2
    <3> QED
      BY <3>2, <3>3, RefreshedView
  <2> QED
    BY <2>1, <2>2, <2>3, ViewChanges
<1> QED
  BY <1>1, AlwaysSound, PTL DEF Spec, StaysReadable
=============================================================================
