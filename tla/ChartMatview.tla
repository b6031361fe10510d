---------------------------- MODULE ChartMatview ----------------------------
(***************************************************************************)
(* The charts of backend/src/dashboard.  A query-builder chart is a row of *)
(* dashboard_widgets; its data come from a materialized view of its own,   *)
(* mv_chart_<id>, that DashboardService builds in the background, swaps in *)
(* by a rename, and joins the readers of; a sync refreshes every one of    *)
(* them; Redis keeps the rows last served.  Where no view can be read, the *)
(* chart is answered live.                                                 *)
(*                                                                         *)
(* A step is the code between two awaits.  The charts here are those of    *)
(* one dashboard over one dataset.  Data are abstracted: rows are the spec *)
(* they answer and the version of the dataset they were computed from.     *)
(***************************************************************************)
EXTENDS Naturals, FiniteSets

CONSTANTS
  Charts,          \* the widget ids
  Specs,           \* chart specs, resolved
  Records,         \* the specs of type "table": record lists, without a view
  Drilling,        \* the specs whose view holds the breakdown of every level
  PerViewer,       \* the specs with a viewKey: their rows are not cached
  Layout(_),       \* the columns the view of a drilling spec has
  Overflows(_, _), \* whether a breakdown exceeds BREAKDOWN_MATVIEW_CAP
  Calls,           \* the requests being served: how many, a bound
  Builds,          \* the builds under way: how many, a bound
  MaxData,         \* bound: how many times a sync commits
  NotYet,          \* the state of a widget id that has not been given out
  Gone,            \* the state of a widget that was deleted
  None             \* no view, no rows, no build, no spec, no chart

VARIABLES
  data,      \* the version of the dataset's table
  widget,    \* dashboard_widgets: the spec of each chart
  mv,        \* the views mv_chart_<id>
  scratch,   \* the views mv_chart_<id>_build
  truncated, \* chart_matview_state.truncated, of each chart
  building,  \* the in-memory map from a widget to its running build
  build,     \* the local variables of each syncChartMatview call
  cache,     \* the rows in Redis for each chart
  call,      \* the local variables of each request
  sync       \* refreshDerived of the dataset's sync

vars == <<data, widget, mv, scratch, truncated, building, build, cache, call,
          sync>>

Versions == 0..MaxData

View == [spec : Specs, data : Versions]

ASSUME ChartAssumption ==
  /\ Records \subseteq Specs /\ Drilling \subseteq Specs \ Records
  /\ PerViewer \subseteq Specs
  /\ MaxData \in Nat
  /\ {NotYet, Gone, None} \cap (Specs \cup Charts \cup Builds) = {}
  /\ None \notin View
  /\ \A s \in Specs, v \in Versions : Overflows(s, v) \in BOOLEAN

-----------------------------------------------------------------------------
(* Views, rows and the calls *)

\* The build asks for one row more than the cap: such a view is cut off.
Cut(v) == v.spec \in Drilling /\ Overflows(v.spec, v.data)

\* Rows a chart is answered with; chartData answers an error with no rows.
Answer == [spec : Specs, data : Versions, cut : BOOLEAN]
NoRows == [spec |-> None, data |-> 0, cut |-> FALSE]

Answers == Answer \cup {NoRows}

\* Reading a breakdown needs the columns of the reader's spec; a plain view is
\* read with SELECT *, whatever it holds.
CanRead(s, v) ==
  s \in Drilling => v.spec \in Drilling /\ Layout(v.spec) = Layout(s)

Ops == {"read", "drill", "edit", "remove", "removeAll"}

Call == [op : Ops,
         pc : {"idle", "rebuild", "invalidate", "dropView", "dropScratch",
               "dropState", "cascade", "cached", "flag", "probe", "record",
               "view", "await", "live", "answer"},
         chart : Charts \cup {None}, spec : Specs \cup {None},
         rows : Answers, cut : BOOLEAN, retried : BOOLEAN,
         todo : SUBSET Charts]

IdleCall == [op |-> "read", pc |-> "idle", chart |-> None, spec |-> None,
             rows |-> NoRows, cut |-> FALSE, retried |-> FALSE, todo |-> {}]

Build == [pc : {"idle", "drop", "create", "populate", "count", "swap"},
          chart : Charts \cup {None}, spec : Specs \cup {None},
          data : Versions, cut : BOOLEAN]

IdleBuild == [pc |-> "idle", chart |-> None, spec |-> None, data |-> 0,
              cut |-> FALSE]

\* pg_matviews, as refreshDerived lists it: the scratch views match as well.
ViewNames == Charts \X {"view", "scratch"}

Exists == {c \in Charts : widget[c] \in Specs}

Becomes(k, r) == call' = [call EXCEPT ![k] = r]
Goto(k, pc) == Becomes(k, [call[k] EXCEPT !.pc = pc])
Done(k) == Becomes(k, IdleCall)
Invalidating(k) ==
  Becomes(k, [IdleCall EXCEPT !.op = "edit", !.pc = "invalidate"])
At(k, pc) == call[k].pc = pc

Init ==
  /\ data = 0
  /\ widget = [c \in Charts |-> NotYet]
  /\ mv = [c \in Charts |-> None]
  /\ scratch = [c \in Charts |-> None]
  /\ truncated = [c \in Charts |-> "unknown"]
  /\ building = [c \in Charts |-> None]
  /\ build = [b \in Builds |-> IdleBuild]
  /\ cache = [c \in Charts |-> None]
  /\ call = [k \in Calls |-> IdleCall]
  /\ sync = [pc |-> "idle", todo |-> {}]

-----------------------------------------------------------------------------
(* Builds *)

Free == {b \in Builds : build[b].pc = "idle"}

\* syncChartMatview starts up to its first await, and the map remembers it.
NewBuild(c, s) ==
  LET b == CHOOSE b \in Free : TRUE IN
  /\ Free # {}
  /\ build' = [build EXCEPT ![b] =
       [IdleBuild EXCEPT !.pc = "drop", !.chart = c, !.spec = s]]
  /\ building' = [building EXCEPT ![c] = b]

\* A slip: every caller starts a build of its own.
BuildMatviewSlip(c, s) ==
  IF s \in Records
  THEN UNCHANGED <<build, building>>
  ELSE NewBuild(c, s)

\* buildMatview: a caller joins the chart's running build, whatever spec that
\* one was started for.
BuildMatview(c, s) ==
  IF s \in Records \/ building[c] # None
  THEN UNCHANGED <<build, building>>
  ELSE NewBuild(c, s)

BuildGoto(b, r) == build' = [build EXCEPT ![b] = r]

\* syncChartMatview catches every error; finally takes the build off the map.
BuildOver(b) ==
  /\ build' = [build EXCEPT ![b] = IdleBuild]
  /\ building' = [building EXCEPT ![build[b].chart] = None]

DropScratch(b) ==
  /\ build[b].pc = "drop"
  /\ scratch' = [scratch EXCEPT ![build[b].chart] = None]
  /\ BuildGoto(b, [build[b] EXCEPT !.pc = "create"])
  /\ UNCHANGED <<data, widget, mv, truncated, building, cache, call, sync>>

\* CREATE MATERIALIZED VIEW reads the table as it is now ..
Snapshot(b) ==
  /\ build[b].pc = "create"
  /\ BuildGoto(b, [build[b] EXCEPT !.pc = "populate", !.data = data])
  /\ UNCHANGED <<data, widget, mv, scratch, truncated, building, cache, call,
                 sync>>

\* .. and minutes later the view is there.
Populated(b) ==
  /\ build[b].pc = "populate"
  /\ scratch[build[b].chart] = None
  /\ scratch' = [scratch EXCEPT ![build[b].chart] =
       [spec |-> build[b].spec, data |-> build[b].data]]
  /\ BuildGoto(b, [build[b] EXCEPT !.pc = "count", !.data = 0])
  /\ UNCHANGED <<data, widget, mv, truncated, building, cache, call, sync>>

CountRows(b) ==
  /\ build[b].pc = "count"
  /\ scratch[build[b].chart] # None
  /\ BuildGoto(b, [build[b] EXCEPT !.pc = "swap",
                                   !.cut = Cut(scratch[build[b].chart])])
  /\ UNCHANGED <<data, widget, mv, scratch, truncated, building, cache, call,
                 sync>>

Flag(cut) == IF cut THEN "cut" ELSE "fits"

\* A slip: the old view is dropped before the transaction that renames.
SwapSlip(b) ==
  LET c == build[b].chart IN
  /\ build[b].pc = "swap"
  /\ mv' = [mv EXCEPT ![c] = scratch[c]]
  /\ scratch' = [scratch EXCEPT ![c] = None]
  /\ truncated' = [truncated EXCEPT ![c] = Flag(build[b].cut)]
  /\ BuildOver(b)
  /\ UNCHANGED <<data, widget, cache, call, sync>>

\* One transaction: DROP the old view, RENAME the new one, record the flag.
Swap(b) ==
  LET c == build[b].chart IN
  /\ build[b].pc = "swap"
  /\ scratch[c] # None
  /\ mv' = [mv EXCEPT ![c] = scratch[c]]
  /\ scratch' = [scratch EXCEPT ![c] = None]
  /\ truncated' = [truncated EXCEPT ![c] = Flag(build[b].cut)]
  /\ BuildOver(b)
  /\ UNCHANGED <<data, widget, cache, call, sync>>

\* A slip: the map entry is deleted only by a build that succeeds.
BuildFailsSlip(b) ==
  /\ build[b].pc # "idle"
  /\ BuildGoto(b, IdleBuild)
  /\ UNCHANGED <<data, widget, mv, scratch, truncated, building, cache, call,
                 sync>>

\* Any statement may fail (a scratch view dropped by a removal, a timeout, a
\* column that is gone); what was done stays.
BuildFails(b) ==
  /\ build[b].pc # "idle"
  /\ BuildOver(b)
  /\ UNCHANGED <<data, widget, mv, scratch, truncated, cache, call, sync>>

BuildStep(b) ==
  \/ DropScratch(b) \/ Snapshot(b) \/ Populated(b) \/ CountRows(b) \/ Swap(b)
  \/ BuildFails(b)

-----------------------------------------------------------------------------
(* Editing charts *)

\* addChart: the widget row, then the tail it shares with updateChart.
AddChart(k, c, s) ==
  /\ At(k, "idle")
  /\ widget[c] = NotYet
  /\ widget' = [widget EXCEPT ![c] = s]
  /\ Becomes(k, [IdleCall EXCEPT !.op = "edit", !.pc = "rebuild",
                                 !.chart = c, !.spec = s])
  /\ UNCHANGED <<data, mv, scratch, truncated, building, build, cache, sync>>

\* UPDATE .. WHERE id: a widget that is gone stays gone.
SetConfig(c, s) ==
  widget' = IF c \in Exists THEN [widget EXCEPT ![c] = s] ELSE widget

UpdateChart(k, c, s) ==
  /\ At(k, "idle")
  /\ widget[c] # NotYet
  /\ SetConfig(c, s)
  /\ Becomes(k, [IdleCall EXCEPT !.op = "edit", !.pc = "rebuild",
                                 !.chart = c, !.spec = s])
  /\ UNCHANGED <<data, mv, scratch, truncated, building, build, cache, sync>>

\* The build is started, not awaited; then the page cache is invalidated.
Rebuild(k) ==
  /\ At(k, "rebuild")
  /\ BuildMatview(call[k].chart, call[k].spec)
  /\ Invalidating(k)
  /\ UNCHANGED <<data, widget, mv, scratch, truncated, cache, sync>>

\* The administrator's updateWidget: no build.  (With the same spec: a change of
\* the title or the order, which updateChart makes in the same way.)
AdminUpdateWidget(k, c, s) ==
  /\ At(k, "idle")
  /\ widget[c] # NotYet
  /\ SetConfig(c, s)
  /\ Invalidating(k)
  /\ UNCHANGED <<data, mv, scratch, truncated, building, build, cache, sync>>

Delete(cs) ==
  widget' = [c \in Charts |-> IF c \in cs THEN Gone ELSE widget[c]]

AdminDeleteWidget(k, c) ==
  /\ At(k, "idle")
  /\ c \in Exists
  /\ Delete({c})
  /\ Invalidating(k)
  /\ UNCHANGED <<data, mv, scratch, truncated, building, build, cache, sync>>

\* removeChart deletes the row, then what dropChartMatview drops.
RemoveChart(k, c) ==
  /\ At(k, "idle")
  /\ c \in Exists
  /\ Delete({c})
  /\ Becomes(k, [IdleCall EXCEPT !.op = "remove", !.pc = "dropView",
                                 !.chart = c])
  /\ UNCHANGED <<data, mv, scratch, truncated, building, build, cache, sync>>

\* deleteMine lists the dashboard's charts and drops what belongs to each; the
\* rows go last.
DeleteDashboard(k) ==
  /\ At(k, "idle")
  /\ Exists # {}
  /\ \E c \in Exists :
       Becomes(k, [IdleCall EXCEPT !.op = "removeAll", !.pc = "dropView",
                                   !.chart = c, !.todo = Exists \ {c}])
  /\ UNCHANGED <<data, widget, mv, scratch, truncated, building, build, cache,
                 sync>>

DropView(k) ==
  /\ At(k, "dropView")
  /\ mv' = [mv EXCEPT ![call[k].chart] = None]
  /\ Goto(k, "dropScratch")
  /\ UNCHANGED <<data, widget, scratch, truncated, building, build, cache,
                 sync>>

DropBuild(k) ==
  /\ At(k, "dropScratch")
  /\ scratch' = [scratch EXCEPT ![call[k].chart] = None]
  /\ Goto(k, "dropState")
  /\ UNCHANGED <<data, widget, mv, truncated, building, build, cache, sync>>

\* What follows dropChartMatview: the next chart, or the end.
NextChart(k) ==
  IF call[k].op = "remove"
  THEN Invalidating(k)
  ELSE IF call[k].todo = {}
  THEN Goto(k, "cascade")
  ELSE \E c \in call[k].todo :
         Becomes(k, [call[k] EXCEPT !.pc = "dropView", !.chart = c,
                                    !.todo = call[k].todo \ {c}])

DropState(k) ==
  /\ At(k, "dropState")
  /\ truncated' = [truncated EXCEPT ![call[k].chart] = "unknown"]
  /\ NextChart(k)
  /\ UNCHANGED <<data, widget, mv, scratch, building, build, cache, sync>>

\* A drop that fails ends dropChartMatview, and is ignored.
DropFails(k) ==
  /\ call[k].pc \in {"dropView", "dropScratch", "dropState"}
  /\ NextChart(k)
  /\ UNCHANGED <<data, widget, mv, scratch, truncated, building, build, cache,
                 sync>>

\* deleteByIdCascade: every chart the dashboard has by now.
Cascade(k) ==
  /\ At(k, "cascade")
  /\ Delete(Exists)
  /\ Invalidating(k)
  /\ UNCHANGED <<data, mv, scratch, truncated, building, build, cache, sync>>

\* invalidatePrefix clears the dashboard's entries, or, best effort, some.
Cleared == \E cs \in SUBSET Charts :
  cache' = [c \in Charts |-> IF c \in cs THEN None ELSE cache[c]]

Invalidate(k) ==
  /\ At(k, "invalidate")
  /\ Cleared
  /\ Done(k)
  /\ UNCHANGED <<data, widget, mv, scratch, truncated, building, build, sync>>

Edit(k) ==
  \/ Rebuild(k) \/ Invalidate(k)
  \/ DropView(k) \/ DropBuild(k) \/ DropState(k) \/ DropFails(k) \/ Cascade(k)

-----------------------------------------------------------------------------
(* Reading charts *)

\* Where the rows are looked for first.
Source(op, s) ==
  IF s \in Drilling THEN "flag"
  ELSE IF s \in Records \/ op = "drill" THEN "live" ELSE "view"

\* getWidgetData and drill read the chart's spec once.
Open(k, c, op) ==
  /\ At(k, "idle")
  /\ c \in Exists
  /\ LET s == widget[c]
     IN  Becomes(k, [IdleCall EXCEPT
           !.op = op, !.chart = c, !.spec = s,
           !.pc = IF op = "read" /\ s \notin PerViewer
                  THEN "cached" ELSE Source(op, s)])
  /\ UNCHANGED <<data, widget, mv, scratch, truncated, building, build, cache,
                 sync>>

CacheHit(k) ==
  /\ At(k, "cached")
  /\ cache[call[k].chart] # None
  /\ Done(k)
  /\ UNCHANGED <<data, widget, mv, scratch, truncated, building, build, cache,
                 sync>>

\* Nothing there, or no Redis.
CacheMiss(k) ==
  /\ At(k, "cached")
  /\ Goto(k, Source(call[k].op, call[k].spec))
  /\ UNCHANGED <<data, widget, mv, scratch, truncated, building, build, cache,
                 sync>>

\* breakdownTruncated: the recorded flag, or a probe of the view ..
ReadFlag(k) ==
  /\ At(k, "flag")
  /\ Goto(k, CASE truncated[call[k].chart] = "cut" -> "live"
               [] truncated[call[k].chart] = "fits" -> "view"
               [] OTHER -> "probe")
  /\ UNCHANGED <<data, widget, mv, scratch, truncated, building, build, cache,
                 sync>>

Probe(k) ==
  /\ At(k, "probe")
  /\ mv[call[k].chart] # None
  /\ Becomes(k, [call[k] EXCEPT !.pc = "record",
                                !.cut = Cut(mv[call[k].chart])])
  /\ UNCHANGED <<data, widget, mv, scratch, truncated, building, build, cache,
                 sync>>

\* .. whose outcome is recorded.
RecordFlag(k) ==
  /\ At(k, "record")
  /\ truncated' = [truncated EXCEPT ![call[k].chart] = Flag(call[k].cut)]
  /\ Becomes(k, [call[k] EXCEPT !.pc = IF call[k].cut THEN "live" ELSE "view",
                                !.cut = FALSE])
  /\ UNCHANGED <<data, widget, mv, scratch, building, build, cache, sync>>

ReadView(k) ==
  LET v == mv[call[k].chart] IN
  /\ At(k, "view")
  /\ v # None
  /\ CanRead(call[k].spec, v)
  /\ Becomes(k, [call[k] EXCEPT
       !.pc = "answer",
       !.rows = [spec |-> v.spec, data |-> v.data, cut |-> Cut(v)]])
  /\ UNCHANGED <<data, widget, mv, scratch, truncated, building, build, cache,
                 sync>>

\* The view is not there, has other columns, or the query fails.  A page read
\* starts a build and answers live; a drill waits for the build, once.
Missing(k) ==
  /\ call[k].pc \in {"flag", "probe", "record", "view"}
  /\ IF call[k].retried
     THEN UNCHANGED <<build, building>>
     ELSE BuildMatview(call[k].chart, call[k].spec)
  /\ Goto(k, IF call[k].op = "drill" /\ ~call[k].retried
             THEN "await" ELSE "live")
  /\ UNCHANGED <<data, widget, mv, scratch, truncated, cache, sync>>

\* A slip: the drill reads again as if for the first time.
AwaitOverSlip(k) ==
  /\ At(k, "await")
  /\ Goto(k, "flag")
  /\ UNCHANGED <<data, widget, mv, scratch, truncated, building, build, cache,
                 sync>>

\* The build has ended, or the 20 seconds are over; the drill reads once more.
AwaitOver(k) ==
  /\ At(k, "await")
  /\ Becomes(k, [call[k] EXCEPT !.pc = "flag", !.retried = TRUE])
  /\ UNCHANGED <<data, widget, mv, scratch, truncated, building, build, cache,
                 sync>>

\* A live aggregation; a page read whose query fails gets no rows.
Live(k) ==
  /\ At(k, "live")
  /\ \E rows \in {NoRows, [spec |-> call[k].spec, data |-> data,
                           cut |-> FALSE]} :
       Becomes(k, [call[k] EXCEPT !.pc = "answer", !.rows = rows])
  /\ UNCHANGED <<data, widget, mv, scratch, truncated, building, build, cache,
                 sync>>

\* The rows are returned; a page read that may be shared caches them first, the
\* empty answer to an error included.
Reply(k) ==
  LET c == call[k].chart IN
  /\ At(k, "answer")
  /\ \/ UNCHANGED cache
     \/ /\ call[k].op = "read" /\ call[k].spec \notin PerViewer
        /\ cache' = [cache EXCEPT ![c] = call[k].rows]
  /\ Done(k)
  /\ UNCHANGED <<data, widget, mv, scratch, truncated, building, build, sync>>

Read(k) ==
  \/ CacheHit(k) \/ CacheMiss(k)
  \/ ReadFlag(k) \/ Probe(k) \/ RecordFlag(k) \/ ReadView(k) \/ Missing(k)
  \/ AwaitOver(k) \/ Live(k) \/ Reply(k)

-----------------------------------------------------------------------------
(* The dataset's sync, the cache's clock, a crash *)

\* A sync commits rows.  It goes on to refreshDerived unless it fails.
SyncCommit ==
  /\ sync.pc = "idle"
  /\ data < MaxData
  /\ data' = data + 1
  /\ \E pc \in {"idle", "list"} : sync' = [sync EXCEPT !.pc = pc]
  /\ UNCHANGED <<widget, mv, scratch, truncated, building, build, cache, call>>

SyncList ==
  /\ sync.pc = "list"
  /\ sync' = [pc |-> "refresh",
              todo |-> {n \in ViewNames :
                          IF n[2] = "view" THEN mv[n[1]] # None
                                           ELSE scratch[n[1]] # None}]
  /\ UNCHANGED <<data, widget, mv, scratch, truncated, building, build, cache,
                 call>>

\* REFRESH runs the view's own definition; chart_matview_state is left alone.
\* One that fails, or whose view is gone, is logged and passed over.
SyncRefresh(n) ==
  /\ sync.pc = "refresh"
  /\ n \in sync.todo
  /\ sync' = [sync EXCEPT !.todo = sync.todo \ {n}]
  /\ \/ UNCHANGED <<mv, scratch>>
     \/ /\ n[2] = "view" /\ mv[n[1]] # None
        /\ mv' = [mv EXCEPT ![n[1]].data = data]
        /\ UNCHANGED scratch
     \/ /\ n[2] = "scratch" /\ scratch[n[1]] # None
        /\ scratch' = [scratch EXCEPT ![n[1]].data = data]
        /\ UNCHANGED mv
  /\ UNCHANGED <<data, widget, truncated, building, build, cache, call>>

SyncInvalidate ==
  /\ sync.pc = "refresh"
  /\ sync.todo = {}
  /\ Cleared
  /\ sync' = [sync EXCEPT !.pc = "idle"]
  /\ UNCHANGED <<data, widget, mv, scratch, truncated, building, build, call>>

Expire(c) ==
  /\ cache[c] # None
  /\ cache' = [cache EXCEPT ![c] = None]
  /\ UNCHANGED <<data, widget, mv, scratch, truncated, building, build, call,
                 sync>>

\* The backend restarts: what is in memory is gone.
Crash ==
  /\ building' = [c \in Charts |-> None]
  /\ build' = [b \in Builds |-> IdleBuild]
  /\ call' = [k \in Calls |-> IdleCall]
  /\ sync' = [pc |-> "idle", todo |-> {}]
  /\ UNCHANGED <<data, widget, mv, scratch, truncated, cache>>

-----------------------------------------------------------------------------
(* The specification *)

Request(k) ==
  \/ \E c \in Charts, s \in Specs :
       AddChart(k, c, s) \/ UpdateChart(k, c, s) \/ AdminUpdateWidget(k, c, s)
  \/ \E c \in Charts : AdminDeleteWidget(k, c) \/ RemoveChart(k, c)
  \/ DeleteDashboard(k)
  \/ \E c \in Charts, op \in {"read", "drill"} : Open(k, c, op)

SyncStep ==
  SyncList \/ (\E n \in ViewNames : SyncRefresh(n)) \/ SyncInvalidate

Next ==
  \/ \E k \in Calls : Request(k) \/ Edit(k) \/ Read(k)
  \/ \E b \in Builds : BuildStep(b)
  \/ SyncCommit \/ SyncStep
  \/ \E c \in Charts : Expire(c)
  \/ Crash

Spec == Init /\ [][Next]_vars

\* Promises settle and Postgres finishes its statements: a request under way
\* and a build under way go on.
FairSpec ==
  /\ Spec
  /\ \A k \in Calls : WF_vars(Edit(k) \/ Read(k))
  /\ \A b \in Builds : WF_vars(BuildStep(b))

-----------------------------------------------------------------------------
(* Properties *)

\* Every variable has its type, and the map holds exactly the builds under way.
TypeOK ==
  /\ data \in Versions
  /\ widget \in [Charts -> Specs \cup {NotYet, Gone}]
  /\ mv \in [Charts -> View \cup {None}]
  /\ scratch \in [Charts -> View \cup {None}]
  /\ truncated \in [Charts -> {"unknown", "fits", "cut"}]
  /\ building \in [Charts -> Builds \cup {None}]
  /\ build \in [Builds -> Build]
  /\ cache \in [Charts -> Answers \cup {None}]
  /\ call \in [Calls -> Call]
  /\ sync \in [pc : {"idle", "list", "refresh"}, todo : SUBSET ViewNames]
  /\ \A c \in Charts, b \in Builds :
       building[c] = b <=> build[b].pc # "idle" /\ build[b].chart = c

\* From the count of its rows on, what has a build's scratch name is what that
\* build made, or was dropped: builds of one chart are joined, so that they do
\* not drop and create under each other (137-149 of dashboard.service.ts).
ScratchIsOwn ==
  \A b \in Builds :
    build[b].pc \in {"count", "swap"} =>
      LET v == scratch[build[b].chart]
      IN  v = None \/ v.spec = build[b].spec

\* What a build swaps in is what it built, for the spec it was started for:
\* two builds never share the scratch name (132-149 of dashboard.service.ts).
SwapsOwnBuild ==
  [][\A b \in Builds :
       /\ build[b].pc = "swap"
       /\ build'[b].pc = "idle"
       /\ mv'[build[b].chart] # mv[build[b].chart]
       => mv'[build[b].chart].spec = build[b].spec]_vars

\* A view that can be read stays there while it is rebuilt: only a removal
\* takes one away (118-128 of dashboard.repository.ts).
StaysReadable ==
  [][\A c \in Charts :
       mv[c] # None /\ mv'[c] = None
         => \E k \in Calls : At(k, "dropView") /\ call[k].chart = c]_vars

\* Every build ends and leaves the map, so that a later read may start another
\* (145-147).
BuildEnds == \A c \in Charts : building[c] # None ~> building[c] = None

\* Every request is answered: a drill that finds no view waits for the build
\* once, not for ever (151-155, 560-576).
RequestEnds == \A k \in Calls : ~At(k, "idle") ~> At(k, "idle")
=============================================================================
