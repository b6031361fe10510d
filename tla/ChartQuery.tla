----------------------------- MODULE ChartQuery -----------------------------
(***************************************************************************)
(* What the bars of a chart say: backend/src/dashboard/query-builder.ts,   *)
(* the reading of a breakdown matview (dashboard.repository.ts) and the    *)
(* previews of the chart designer (dashboard.service.ts), behind the       *)
(* drill-down panel of the frontend (DrilldownChart.tsx).                  *)
(*                                                                         *)
(* A table is a set of rows with an `id`.  An answer is a set of bars      *)
(* [x, s, y]; a level can be answered from the table or from the matview   *)
(* that holds the counts of the deepest groups.  Averages are in tenths.   *)
(***************************************************************************)
EXTENDS FilterLogic, FiniteSetsExt

CONSTANTS Measures,        \* name -> [agg, col, test]
          Tables,          \* contents the dataset's table may have
          Questions,       \* pairs of a view's scope and a chart read through it
          ChartTopGroups,  \* CHART_TOP_GROUPS, 200 in the code
          MaxExportRecords,
          DefaultLimit, MaxLimit,
          MaxGroupLevels, MaxSeriesLevels, MaxDrillLevels,
          SampleFrom, Scale  \* the table size that is sampled; one row in Scale

None == "none"  \* no such setting
Single == -5    \* the x of a single number
Other == -6     \* "Other (n more)"
Dash == -7      \* what the screen sends for a bar without a label
Refused == {[refused |-> TRUE]}  \* no answer: a 400, or nothing asked yet

\* filter(Boolean), and what concat_ws leaves out.
Without(seq, gap) ==
  LET upTo[n \in 0..Len(seq)] ==
        IF n = 0 THEN <<>>
        ELSE IF seq[n] = gap THEN upTo[n - 1] ELSE Append(upTo[n - 1], seq[n])
  IN upTo[Len(seq)]

\* What can be asked: ChartSpec (query-builder.ts), and a view's scope.
ChartSpec ==
  [type : STRING, mode : STRING, dimension : STRING, groupBy : Seq(STRING),
   series : STRING, compareField : STRING, measure : STRING, groupAgg : STRING,
   drilldown : Seq(STRING), conds : Seq(Condition), logic : Seq(Lexeme),
   filters : Seq([field : STRING, value : Int]), openOnly : BOOLEAN, limit : Int]
ViewScope == [conds : Seq(Condition), logic : Seq(Lexeme), rowLimit : Int]

ASSUME QuestionsAssumption == Questions \subseteq [view : ViewScope, chart : ChartSpec]
ASSUME LimitsAssumption ==
  /\ MaxConditions \in Nat /\ MaxExportRecords \in Nat
  /\ ChartTopGroups \in Nat \ {0} /\ Scale \in Nat \ {0}

\* Values are naturals.  A measure that tests a column counts records: the code
\* writes round(...) FILTER for any other, which PostgreSQL does not read.
Measure == [agg : {"count", "sum", "avg", "min", "max"},
            col : STRING, test : STRING, on : STRING]
ASSUME CatalogAssumption ==
  /\ "count" \in DOMAIN Measures /\ Measures["count"].agg = "count"
  /\ Measures["count"].test = "none" /\ None \notin DOMAIN Dimensions
  /\ \A name \in DOMAIN Measures :
       /\ Measures[name] \in Measure
       /\ Measures[name].test # "none" => Measures[name].agg = "count"
ASSUME TablesAssumption ==
  \A rows \in Tables :
    /\ IsFiniteSet(rows)
    /\ \A r \in rows :
         /\ \A name \in DOMAIN Measures : r[Measures[name].col] \in Nat \cup {Null}
         /\ \A dim \in DOMAIN Dimensions : r[Dimensions[dim].col] \in Nat \cup {Null}
         /\ r.id \in Nat

VARIABLES table,     \* the rows of the dataset
          view,      \* the scope of the view the chart reads, and its row limit
          chart,     \* the spec of the chart
          steps,     \* the clicks so far
          bars,      \* the level on screen
          records,   \* the rows behind the last click, or Refused before one
          preview    \* what the designer last drew: [bars, rolledUp, sampled]

vars == <<table, view, chart, steps, bars, records, preview>>

(***************************************************************************)
(* The chart's own settings.                                               *)
(***************************************************************************)
supportsSeries(type) == type \in {"column", "bar", "line", "area"}
needsDimension(type) == type \notin {"number", "table"}

groupByKeys(spec) ==
  IF spec.groupBy # <<>> THEN spec.groupBy
  ELSE IF spec.series # None THEN <<spec.series>> ELSE <<>>

drillSequence(spec) ==
  IF spec.mode = "clause" THEN groupByKeys(spec)
  ELSE Without(<<spec.dimension>> \o spec.drilldown, None)

isClauseChart(spec) == spec.mode = "clause" /\ spec.groupBy # <<>>
groupAggOf(spec) ==
  IF spec.groupAgg \in {"sum", "avg", "min", "max"} THEN spec.groupAgg ELSE "count"

Dims(keys) == ToSet(keys) \subseteq DOMAIN Dimensions

validateSpec(spec) ==
  \/ spec.type = "table"
  \/ /\ CASE spec.mode = "clause" ->
               /\ Len(groupByKeys(spec)) =< MaxGroupLevels
               /\ Dims(groupByKeys(spec))
               /\ spec.measure \in DOMAIN Measures
               /\ spec.groupAgg \in {None, "count", "sum", "avg", "min", "max"}
          [] spec.mode = "compare" ->
               supportsSeries(spec.type) /\ Dims(<<spec.dimension, spec.compareField>>)
          [] OTHER ->
               /\ spec.measure \in DOMAIN Measures
               /\ needsDimension(spec.type) => Dims(<<spec.dimension>>)
               /\ groupByKeys(spec) # <<>> => /\ supportsSeries(spec.type)
                                             /\ Len(groupByKeys(spec)) =< MaxSeriesLevels
                                             /\ Dims(groupByKeys(spec))
     /\ Len(spec.drilldown) =< MaxDrillLevels /\ Dims(spec.drilldown)

\* The chart's numbered conditions, or the equalities of a chart saved before
\* there were any.
specConditions(spec) ==
  IF spec.conds # <<>> THEN [conds |-> spec.conds, logic |-> spec.logic]
  ELSE LET cond(field, op, v) == [field |-> field, operator |-> op, value |-> v,
                                  value2 |-> Unset, values |-> <<>>]
           open == cond("is_open", "is_true", Unset)
           equal(f) == cond(f.field, "eq", f.value)
           upTo[n \in 0..Len(spec.filters)] ==
             IF n = 0 THEN <<>>
             ELSE IF spec.filters[n].value = Unset THEN upTo[n - 1]
             ELSE Append(upTo[n - 1], equal(spec.filters[n]))
       IN [conds |-> upTo[Len(spec.filters)] \o (IF spec.openOnly THEN <<open>> ELSE <<>>),
           logic |-> <<>>]

\* The chart with the scope of the view it reads; a view that shows n rows
\* caps the records of a table chart only.
resolveSpec(scope, spec) ==
  LET m == mergeScope(scope, [conds |-> spec.conds, logic |-> spec.logic])
  IN [spec EXCEPT !.conds = m.conds, !.logic = m.logic,
                  !.limit = IF scope.rowLimit = Null THEN @
                            ELSE IF @ = Null THEN scope.rowLimit
                            ELSE Min({@, scope.rowLimit})]

Where(spec, path) == buildChartWhere(specConditions(spec), path)

recordsLimit(limit) ==
  IF limit = Null THEN DefaultLimit ELSE Min({MaxLimit, Max({1, limit})})

(***************************************************************************)
(* Aggregates.  A value column ignores its NULLs.                          *)
(***************************************************************************)
Tenths(sum, n) == (20 * sum + n) \div (2 * n)
ColumnSum(rows, col) == MapThenSumSet(LAMBDA r : r[col], rows)

\* y of a set of rows under a measure of the catalog.
MeasureOf(m, rows) ==
  LET in == {r \in rows : CASE m.test = "is_null" -> r[m.on] = Null
                            [] m.test = "is_not_null" -> r[m.on] # Null
                            [] OTHER -> TRUE}
      with == {r \in in : r[m.col] # Null}
  IN IF m.agg = "count" THEN Cardinality(in)
     ELSE IF with = {} THEN Null
     ELSE CASE m.agg = "sum" -> ColumnSum(with, m.col)
            [] m.agg = "avg" -> Tenths(ColumnSum(with, m.col), Cardinality(with))
            [] m.agg = "min" -> Min({r[m.col] : r \in with})
            [] m.agg = "max" -> Max({r[m.col] : r \in with})

measure(spec) ==
  Measures[IF spec.measure \in DOMAIN Measures THEN spec.measure ELSE "count"]

Values(keys, row) == [i \in DOMAIN keys |-> DimExpr(keys[i], row)]
Bar(x, s, y) == [x |-> x, s |-> s, y |-> y]

\* One row of the breakdown per combination of levels and series, with what
\* is needed to recombine the measure: a value, and for an average the count.
Cells(spec, levels, series, rows) ==
  LET key(r) == <<Values(levels, r), Values(series, r)>>
      m == measure(spec)
  IN {LET in == {r \in rows : key(r) = k}
          counted == spec.mode = "clause"
          avg == ~counted /\ m.agg = "avg"
      IN [g |-> k[1], s |-> Without(k[2], Null), key |-> k,
          v |-> IF counted THEN Cardinality(in)
                ELSE MeasureOf(IF avg THEN [m EXCEPT !.agg = "sum"] ELSE m, in),
          n |-> IF avg THEN Cardinality({r \in in : r[m.col] # Null}) ELSE 1]
      : k \in {key(r) : r \in rows}}

Over(cells, agg) ==
  LET with == {c \in cells : c.v # Null} IN
  IF with = {} THEN Null
  ELSE CASE agg = "min" -> Min({c.v : c \in with})
         [] agg = "max" -> Max({c.v : c \in with})
         [] OTHER -> ColumnSum(with, "v")

\* Grouping rolls up the counts of the deepest groups.
clauseMeasureParts(spec, cells) ==
  IF groupAggOf(spec) = "avg" THEN Tenths(Over(cells, "sum"), Cardinality(cells))
  ELSE Over(cells, groupAggOf(spec))

\* Mutant: an average of averages.
MeanOfMeans(spec, cells) ==
  IF measure(spec).agg # "avg" \/ Over(cells, "sum") = Null THEN Over(cells, measure(spec).agg)
  ELSE LET with == {c \in cells : c.n > 0}
       IN Tenths(MapThenSumSet(LAMBDA c : c.v \div c.n, with), Cardinality(with))

\* A measure is recombined from its parts, an average from its sum and count.
measureReaggParts(spec, cells) ==
  IF measure(spec).agg # "avg" THEN Over(cells, measure(spec).agg)
  ELSE LET n == ColumnSum(cells, "n")
       IN IF n = 0 THEN Null ELSE Tenths(Over(cells, "sum"), n)

Reagg(spec, cells) ==
  IF isClauseChart(spec) THEN clauseMeasureParts(spec, cells)
  ELSE measureReaggParts(spec, cells)

(***************************************************************************)
(* A level answered from the table.                                        *)
(***************************************************************************)
seriesKeys(spec, dropSeries) ==
  IF dropSeries \/ spec.mode = "clause" THEN <<>>
  ELSE IF spec.mode = "compare" THEN <<spec.compareField>>
  ELSE groupByKeys(spec)

Aggregated(spec, rows, override, dropSeries) ==
  LET clause == spec.mode = "clause"
      levels == groupByKeys(spec)
      dim == IF override # None THEN override
             ELSE IF clause THEN levels[1] ELSE spec.dimension
      series == seriesKeys(spec, dropSeries)
      groups == {<<DimExpr(dim, r), Values(series, r)>> : r \in rows}
      nested == Cells(spec, levels, <<>>, rows)
      at == CHOOSE i \in DOMAIN levels : levels[i] = dim
      one == override = None /\ IF clause THEN levels = <<>> ELSE ~needsDimension(spec.type)
  IN IF one THEN {Bar(Single, <<>>, MeasureOf(measure(spec), rows))}
     ELSE IF clause /\ groupAggOf(spec) \in {"avg", "min", "max"}
     THEN {Bar(x, <<>>, clauseMeasureParts(spec, {c \in nested : c.g[at] = x}))
           : x \in {c.g[at] : c \in nested}}
     ELSE {Bar(k[1], Without(k[2], Null),
               MeasureOf(measure(spec),
                         {r \in rows : <<DimExpr(dim, r), Values(series, r)>> = k}))
           : k \in groups}

Answered(spec, from, w, override, dropSeries) ==
  IF ~validateSpec(spec) \/ w.bad THEN Refused
  ELSE Aggregated(spec, Selected(from, w), override, dropSeries)

buildAggregationCore(spec, from, path, override, dropSeries) ==
  Answered(spec, from, Where(spec, path), override, dropSeries)

buildAggregation(spec, from) == buildAggregationCore(spec, from, <<>>, None, FALSE)

OnPath(spec, path) ==
  /\ Len(path) =< Len(drillSequence(spec))
  /\ \A i \in DOMAIN path : path[i].dimension = drillSequence(spec)[i]

buildDrill(spec, from, path) ==
  IF ~OnPath(spec, path) THEN Refused
  ELSE IF Len(path) >= Len(drillSequence(spec)) THEN {}
  ELSE buildAggregationCore(spec, from, path, drillSequence(spec)[Len(path) + 1], TRUE)

(***************************************************************************)
(* A level answered from the breakdown.                                    *)
(***************************************************************************)
\* Which charts keep one: those with levels that exist (also
\* buildBreakdownMatviewInline, which gives none without).
breakdownFor(spec) ==
  /\ spec.type # "table" /\ drillSequence(spec) # <<>> /\ Dims(drillSequence(spec))
  /\ isClauseChart(spec) \/ (spec.mode # "compare" /\ spec.drilldown # <<>>)

breakdownSeries(spec) == IF isClauseChart(spec) THEN <<>> ELSE groupByKeys(spec)

buildBreakdownMatview(spec, from) ==
  Cells(spec, drillSequence(spec), breakdownSeries(spec), Selected(from, Where(spec, <<>>)))

\* ORDER BY y DESC NULLS LAST, x.
Before(a, b) ==
  \/ a.y # Null /\ b.y = Null
  \/ a.y = b.y /\ a.x # Null /\ (b.x = Null \/ a.x < b.x)
  \/ a.y # Null /\ b.y # Null /\ a.y > b.y

Top(level) == {b \in level : Cardinality({c \in level : Before(c, b)}) < ChartTopGroups}

\* ORDER BY min(o) LIMIT n: the first n bars in the order of the axis, NULL
\* last; which of those that share an x is PostgreSQL's to choose.
Sooner(x, z) == x # Null /\ (z = Null \/ x < z)
Foremost(level, n) ==
  {kept \in SUBSET level :
     Cardinality(kept) = n /\ \A b \in kept, c \in level \ kept : ~Sooner(c.x, b.x)}

\* One level of the breakdown, as the set of the answers it may give.  Past
\* CHART_TOP_GROUPS groups the rest are one bar, recombined from its cells; the
\* bars of a chart with series are cut off instead.
aggregateChartMatview(spec, cells, path, withSeries) ==
  LET at == Len(path) + 1
      under == {c \in cells : \A i \in DOMAIN path : c.g[i] # Null /\ c.g[i] = path[i].value}
      bar(x, s) == Bar(x, s, Reagg(spec, {c \in under : c.g[at] = x
                                                       /\ (withSeries => c.s = s)}))
      level == {bar(c.g[at], IF withSeries THEN c.s ELSE <<>>) : c \in under}
      tail == {b.x : b \in level \ Top(level)}
  IN IF Cardinality(level) =< ChartTopGroups THEN {level}
     ELSE IF withSeries THEN Foremost(level, ChartTopGroups + 1)
     ELSE {Top(level) \cup {Bar(Other, <<>>, Reagg(spec, {c \in under : c.g[at] \in tail}))}}

(***************************************************************************)
(* The requests of the panel.  A level comes from the matview when there   *)
(* is one, or from the table while it is not built; ReadLevel is the set   *)
(* of the answers there may be.                                            *)
(***************************************************************************)
Resolved == resolveSpec(view, chart)

ReadLevel(path, built) ==
  IF ~validateSpec(Resolved) \/ Where(Resolved, <<>>).bad THEN {Refused}
  ELSE IF built /\ breakdownFor(Resolved)
  THEN aggregateChartMatview(Resolved, buildBreakdownMatview(Resolved, table), path,
                             path = <<>> /\ breakdownSeries(Resolved) # <<>>)
  ELSE IF path = <<>> THEN {buildAggregation(Resolved, table)}
  ELSE {buildDrill(Resolved, table, path)}

Newest(rows, n) == {r \in rows : Cardinality({q \in rows : q.id > r.id}) < n}

\* Mutant: the records under the level that is left, not under the bar.
RecordsOfLevel(spec, from, path) ==
  LET w == Where(spec, SubSeq(path, 1, Len(path) - 1))
  IN IF w.bad \/ ~OnPath(spec, path) THEN Refused
     ELSE Newest(Selected(from, w), MaxExportRecords)

\* Every record under the path, newest first, up to the ceiling of an export.
buildRecordsQuery(spec, from, path) ==
  LET w == Where(spec, path)
  IN IF w.bad \/ ~OnPath(spec, path) THEN Refused
     ELSE Newest(Selected(from, w), MaxExportRecords)

\* A table chart: the newest records, no aggregation.
buildRecordsChartQuery(spec, from) ==
  LET w == Where(spec, <<>>)
  IN IF w.bad THEN Refused ELSE Newest(Selected(from, w), recordsLimit(spec.limit))

NoPreview == [bars |-> {}, rolledUp |-> FALSE, sampled |-> FALSE, path |-> <<>>]

Init ==
  /\ table \in Tables
  /\ \E q \in Questions : view = q.view /\ chart = q.chart
  /\ steps = <<>> /\ bars = Refused /\ records = Refused /\ preview = NoPreview

\* The panel loads its widget.
Open(built) ==
  /\ steps = <<>> /\ records = Refused
  /\ IF chart.type = "table"
     THEN records' = buildRecordsChartQuery(Resolved, table) /\ UNCHANGED bars
     ELSE bars' \in ReadLevel(<<>>, built) /\ UNCHANGED records
  /\ UNCHANGED <<table, view, chart, steps, preview>>

\* The step a bar stands for; "Other (n more)" stands for none.
StepOf(b) ==
  [dimension |-> drillSequence(chart)[Len(steps) + 1],
   value |-> IF b.x = Null THEN Dash ELSE b.x]

Clickable(b) == b.x # Other /\ records = Refused /\ Len(drillSequence(chart)) > 1

onSectionClick(b, built) ==
  /\ Clickable(b) /\ Len(steps) < Len(drillSequence(chart)) - 1
  /\ steps' = Append(steps, StepOf(b))
  /\ bars' \in ReadLevel(steps', built)
  /\ UNCHANGED <<table, view, chart, records, preview>>

ShowRecords(b) ==
  /\ Clickable(b) /\ Len(steps) = Len(drillSequence(chart)) - 1
  /\ records' = buildRecordsQuery(Resolved, table, Append(steps, StepOf(b)))
  /\ UNCHANGED <<table, view, chart, steps, bars, preview>>

jumpTo(level, built) ==
  /\ steps # <<>>
  /\ steps' = SubSeq(steps, 1, level)
  /\ bars' \in ReadLevel(steps', built)
  /\ records' = Refused
  /\ UNCHANGED <<table, view, chart, preview>>

(***************************************************************************)
(* The designer's preview: the same query on the table, or on a sample of  *)
(* it whose counts and sums are scaled up.                                 *)
(***************************************************************************)
sampledCatalog(from) == Cardinality(from) >= SampleFrom
Sample(from) == {r \in from : r.id % Scale = 0}

\* Mutant: every measure is scaled up.
AlwaysAdditive(spec) == TRUE

isAdditive(spec) == measure(spec).agg \in {"count", "sum"}

Scaled(level) == {[b EXCEPT !.y = IF @ = Null THEN 0 ELSE @ * Scale] : b \in level}

\* sort by Number(y), a NULL counting as 0, and groups in their own order.
Drawn(b) == IF b.y = Null THEN 0 ELSE b.y
DrawnSum(level) == MapThenSumSet(Drawn, level)
DrawnFirst(level) ==
  LET ahead(c, b) == \/ Drawn(c) > Drawn(b)
                     \/ Drawn(c) = Drawn(b) /\ c.x < b.x
  IN {b \in level : Cardinality({c \in level : ahead(c, b)}) < ChartTopGroups}

previewTopGroups(level, spec) ==
  LET top == DrawnFirst(level)
      tail == level \ top
      agg == IF isClauseChart(spec) THEN groupAggOf(spec) ELSE measure(spec).agg
      fold == CASE agg \in {"count", "sum"} -> DrawnSum(tail)
                [] agg = "min" -> Min({Drawn(b) : b \in tail})
                [] agg = "max" -> Max({Drawn(b) : b \in tail})
  IN IF Cardinality(level) =< ChartTopGroups \/ seriesKeys(spec, FALSE) # <<>>
     THEN [bars |-> level, rolledUp |-> TRUE]
     ELSE IF agg = "avg" THEN [bars |-> top, rolledUp |-> FALSE]
     ELSE [bars |-> top \cup {Bar(Other, <<>>, fold)}, rolledUp |-> TRUE]

Looked == IF sampledCatalog(table) THEN Sample(table) ELSE table
Corrected(level, additive) ==
  IF sampledCatalog(table) /\ additive THEN Scaled(level) ELSE level
Shown(level, path) ==
  preview' = [bars |-> level.bars, rolledUp |-> level.rolledUp,
              sampled |-> sampledCatalog(table), path |-> path]

ShowQuery(spec, level) ==
  /\ level # Refused
  /\ Shown(previewTopGroups(Corrected(level, isAdditive(spec)), spec), <<>>)

previewQuery ==
  /\ chart.type # "table"
  /\ ShowQuery(Resolved, buildAggregation(Resolved, Looked))
  /\ UNCHANGED <<table, view, chart, steps, bars, records>>

\* A drill of the chart that is being designed, which is not trimmed.
ShowDrill(spec, level) ==
  /\ level # Refused
  /\ LET additive == IF isClauseChart(spec) THEN groupAggOf(spec) \in {"count", "sum"}
                     ELSE isAdditive(spec)
     IN Shown([bars |-> Corrected(level, additive), rolledUp |-> TRUE], steps)

previewDrill ==
  /\ chart.type # "table" /\ steps # <<>>
  /\ ShowDrill(Resolved, buildDrill(Resolved, Looked, steps))
  /\ UNCHANGED <<table, view, chart, steps, bars, records>>

Bars == IF bars = Refused THEN {} ELSE bars

Next ==
  \/ \E built \in BOOLEAN :
       \/ Open(built)
       \/ \E b \in Bars : onSectionClick(b, built)
       \/ \E level \in 0..(Len(steps) - 1) : jumpTo(level, built)
  \/ \E b \in Bars : ShowRecords(b)
  \/ previewQuery \/ previewDrill

Spec == Init /\ [][Next]_vars

(***************************************************************************)
(* Properties.                                                             *)
(***************************************************************************)
\* What the designer writes: a chart without a dimension and a grouping have no
\* drill path of their own, and a grouping counts records (ChartEditor.tsx).
Designed(spec) ==
  /\ spec.mode = "clause" \/ ~needsDimension(spec.type) => spec.drilldown = <<>>
  /\ spec.mode = "clause" => spec.measure = "count"

\* Series can be told apart by their labels, which leave missing values out:
\* "A / (nothing) / B" and "A / B / (nothing)" are both shown as "A / B".
Label(series, r) == Without(Values(series, r), Null)
Labelled(series, rows) ==
  \A r \in rows, q \in rows :
    Label(series, r) = Label(series, q) => Values(series, r) = Values(series, q)

\* A chart read through a view selects the rows that satisfy the view's scope
\* and the chart's own filter, each with its own logic: no parenthesis,
\* condition number or parameter number of one leaks into the other; together
\* they are refused only for having too many conditions.  Without a
\* view the chart is answered exactly when its filter is an expression over
\* conditions that can be read (mergeScope, buildExpressionWhere, parseLogic).
ScopeHonoured ==
  LET own == specConditions(chart)
      w == Where(Resolved, <<>>)
  IN /\ view.conds = <<>> => (w.bad <=> ~Answerable(own))
     /\ Answerable(view) /\ Answerable(own)
          /\ (chart.conds = <<>> => chart.filters = <<>> /\ ~chart.openOnly)
        => IF Len(view.conds) + Len(own.conds) > MaxConditions THEN w.bad
           ELSE ~w.bad /\ Selected(table, w) = {r \in table : Meaning(view, r) /\ Meaning(own, r)}

\* The first level of a chart that is split into series.
Split == steps = <<>> /\ breakdownSeries(Resolved) # <<>>

\* Whatever answers it, the matview or the table, a level shows the same bars;
\* when the tail is rolled up, the bars that are left are the live ones and
\* "Other" is the measure of all the records outside them, never an average of
\* averages; bars of a split chart are live ones, of which only those past the
\* 201st are missing (aggregateChartMatview, measureReaggParts,
\* clauseMeasureParts).
LevelsAgree ==
  LET rows == Selected(table, Where(Resolved, steps))
      live == IF steps = <<>> THEN buildAggregation(Resolved, table)
              ELSE buildDrill(Resolved, table, steps)
      at == Len(steps) + 1
      dim == drillSequence(Resolved)[at]
      named == {b \in bars : b.x # Other}
      rest == {r \in rows : \A b \in named : b.x # DimExpr(dim, r)}
      other == IF isClauseChart(Resolved)
               THEN clauseMeasureParts(Resolved, Cells(Resolved, drillSequence(Resolved),
                                                       <<>>, rest))
               ELSE MeasureOf(measure(Resolved), rest)
  IN bars # Refused /\ bars # live =>
       IF Split THEN bars \subseteq live /\ Cardinality(bars) = ChartTopGroups + 1
       ELSE /\ named \subseteq live /\ Cardinality(named) = ChartTopGroups
            /\ bars \ named = {Bar(Other, <<>>, other)}

\* Totals a bar has in common with the level below it.
Total(level, agg) ==
  LET with == {b \in level : b.y # Null} IN
  IF with = {} THEN Null
  ELSE CASE agg = "min" -> Min({b.y : b \in with})
         [] agg = "max" -> Max({b.y : b \in with})
         [] OTHER -> ColumnSum(with, "y")

AggOf(spec) ==
  IF isClauseChart(spec) THEN groupAggOf(spec) ELSE measure(spec).agg

\* Clicking a bar breaks that bar down: the bars of the next level, whoever
\* answers it, add up to it (or have its minimum or maximum), over the series
\* of a split chart too if none is cut off (buildDrill, buildChartWhere,
\* onSectionClick).
BarsPartition ==
  [][\A b \in Bars :
       (/\ Split => bars = buildAggregation(Resolved, table)
        /\ Len(steps') > Len(steps) /\ steps' = Append(steps, StepOf(b))
        /\ b.x \notin {Null, Other} /\ AggOf(Resolved) # "avg")
       => Total(bars', AggOf(Resolved)) = Total({c \in Bars : c.x = b.x}, AggOf(Resolved))]_vars

\* The records shown behind a bar are the records it stands for: measured
\* again they give its value, unless there are more than an export holds
\* (buildRecordsQuery).
RecordsBehindBar ==
  [][\A b \in Bars :
       ShowRecords(b) /\ b.x # Null /\ ~isClauseChart(Resolved)
         /\ Cardinality(records') < MaxExportRecords
         /\ {c \in Bars : c.x = b.x} = {b}
       => MeasureOf(measure(Resolved), records') = b.y]_vars

\* A preview never invents: on the whole table its bars add up to the chart's
\* unless it says that groups are left out, and on a sample a minimum, maximum
\* or average is never scaled out of the range of the column; only "Other"
\* may be 0, when one of the groups had no value (previewTopGroups,
\* previewQuery, previewDrill).
PreviewHonest ==
  LET m == measure(Resolved)
      live == IF preview.path = <<>> THEN buildAggregation(Resolved, table)
              ELSE buildDrill(Resolved, table, preview.path)
      column == {r[m.col] : r \in table} \ {Null}
      unit == IF m.agg = "avg" THEN 10 ELSE 1
  IN preview # NoPreview =>
     /\ ~preview.sampled /\ preview.rolledUp /\ AggOf(Resolved) \in {"count", "sum"}
        => DrawnSum(preview.bars) = DrawnSum(live)
     /\ preview.sampled /\ m.agg \in {"min", "max", "avg"}
          /\ (Resolved.mode = "clause" => groupByKeys(Resolved) = <<>>)
        => \A b \in preview.bars :
             \/ b.y = Null
             \/ unit * Min(column) =< b.y /\ b.y =< unit * Max(column)
             \/ b.x = Other /\ b.y = 0
                  /\ \E c \in buildAggregation(Resolved, Looked) : c.y = Null
=============================================================================
