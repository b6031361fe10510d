---------------------------- MODULE ChartScreens ----------------------------
(***************************************************************************)
(* A dashboard on the screen (DashboardView): its shell, one card per      *)
(* chart that loads on its own, one chart that is drilled into             *)
(* (DrilldownChart, the card of Drilled) and the chart designer with its   *)
(* live preview (ChartEditor).  A drill path is the tuple of the values    *)
(* clicked.  Which charts a dashboard has is the server's to say: others   *)
(* edit it too.                                                            *)
(***************************************************************************)
EXTENDS ApiClient

CONSTANTS
  Widgets,     \* charts a dashboard may have
  Drilled,     \* the one whose drill-down is followed
  Bars,        \* values its bars stand for
  Levels,      \* levels of its drill path
  Sources,     \* what a chart can be built on: datasets, or views for a user
  Dimensions,  \* fields to group by: every source has these
  MaxEdits     \* what a user does in the designer at most

VARIABLES screen, acts

Show(to, asks, cs) ==
  /\ screen' = to
  /\ calls' = Send(cs, asks)
  /\ UNCHANGED <<stored, refreshing, acts>>

Use(to, asks, cs) ==
  /\ acts > 0 /\ acts' = acts - 1
  /\ screen' = to
  /\ calls' = Send(cs, asks)
  /\ UNCHANGED <<stored, refreshing>>

\* A component that is not there.
Closed == [open |-> FALSE]

---------------------------------------------------------------------------
(* The dashboard. *)

\* The cards are there: neither a loading line, nor an error, nor the designer.
OnBoard == screen.at = "board" /\ screen.loaded /\ ~screen.failed /\ ~screen.editor.open

\* The drill-down chart as a component starts; raced is no state of the code:
\* a jump or a switch was made while a click waited for its answer.
NewDrill ==
  [open |-> TRUE, on |-> FALSE, steps |-> <<>>, rows |-> <<>>, records |-> Closed,
   busy |-> FALSE, raced |-> FALSE]

\* hidden: adding or editing while a loading line or an error takes the
\* designer's place, {} or {existing}.
NewBoard(k) ==
  [at |-> "board", src |-> k, shell |-> {}, loaded |-> FALSE, pending |-> {}, data |-> {}, failed |-> FALSE,
   drill |-> Closed, editor |-> Closed, hidden |-> {}]

OpenBoard(k) == [to |-> NewBoard(k), asks |-> {Ask("shell", <<k>>)}]

BoardCalls == {"shell", "widget", "unchart", "drill", "records", "fields", "preview", "save"}
DrillCalls == {"drill", "records"}
DesignCalls == {"fields", "preview"}

\* A card shows its chart once its data came, or a loading line.
CardOf(b) ==
  IF Drilled \in b.shell \ b.pending /\ ~b.editor.open /\ ~b.failed /\ b.hidden = {} THEN NewDrill ELSE Closed

\* A new chart has no X axis yet, a saved one has its spec.
NewEditor(existing, k) ==
  [open |-> TRUE, existing |-> existing, src |-> k, schema |-> "", type |-> "column",
   mode |-> "aggregate", dim |-> IF existing THEN CHOOSE d \in Dimensions : TRUE ELSE "",
   groups |-> <<>>, compare |-> "", path |-> <<>>, cond |-> "",
   steps |-> <<>>, timer |-> FALSE, result |-> <<>>, failed |-> FALSE]

\* A designer starts with the first source, or with its chart's: one stands for all.
FirstSource == CHOOSE k \in Sources : TRUE

\* What adding and editing call for is drawn, from its start, once nothing
\* takes its place.
Drawing(b, asks) ==
  IF b.hidden = {} THEN [to |-> b, asks |-> asks]
  ELSE [to |-> [b EXCEPT !.editor = NewEditor(TRUE \in b.hidden, FirstSource), !.drill = Closed, !.hidden = {}],
        asks |-> asks \cup {Ask("fields", <<FirstSource>>)}]

\* load(): ask for the shell again; what an error hid is drawn again.
Reload(b) ==
  LET r == [b EXCEPT !.failed = FALSE]
  IN  Drawing([r EXCEPT !.drill = IF @.open THEN @ ELSE CardOf(r)], {Ask("shell", <<b.src>>)})

\* The shell clears the cards and asks for each of them; an error takes the
\* place of everything, but adding and editing stay set.
ShellLands(c, ok) ==
  /\ c.kind = "shell"
  /\ \/ /\ ~ok
        /\ Show([screen EXCEPT !.failed = TRUE, !.drill = Closed, !.editor = Closed,
                               !.hidden = IF screen.editor.open THEN {screen.editor.existing} ELSE @], {},
                Without(calls \ {c}, DrillCalls \cup DesignCalls))
     \/ /\ ok
        /\ \E ws \in SUBSET Widgets :
             LET b == [screen EXCEPT !.shell = ws, !.loaded = TRUE, !.data = {}, !.pending = ws]
                 asks == {Ask("widget", <<w>>) : w \in ws}
                 turn == IF b.failed THEN [to |-> b, asks |-> asks] ELSE Drawing(b, asks)
             IN  Show([turn.to EXCEPT !.drill = CardOf(turn.to)], turn.asks, Without(calls \ {c}, DrillCalls))

\* A card's answer, good or bad, ends its loading; rows that come to a chart
\* already drawn send it back to the top of its drill path.
WidgetLands(c, ok) ==
  /\ c.kind = "widget"
  /\ LET w == c.arg[1]
         b == [screen EXCEPT !.pending = @ \ {w}, !.data = IF ok THEN @ \cup {w} ELSE @ \ {w}]
         d == IF w = Drilled /\ b.drill.open
                THEN [b.drill EXCEPT !.rows = <<>>, !.steps = <<>>, !.records = Closed,
                                     !.raced = @ \/ b.drill.busy]
              ELSE IF w = Drilled THEN CardOf(b) ELSE b.drill
     IN  Show([b EXCEPT !.drill = d], {}, calls \ {c})

RemoveChart(w) ==
  /\ OnBoard /\ w \in screen.shell
  /\ Use(screen, {Ask("unchart", <<w>>)}, calls)

RemovalLands(c, ok) ==
  /\ c.kind = "unchart"
  /\ LET turn == Reload(screen)
     IN  IF ok THEN Show(turn.to, turn.asks, calls \ {c}) ELSE Show(screen, {}, calls \ {c})

---------------------------------------------------------------------------
(* Drilling into a chart. *)

Drill(d) == [screen EXCEPT !.drill = d]
Drawn == OnBoard /\ screen.drill.open

AtLeaf(d) == Len(d.steps) >= Levels - 1

\* A click on a bar: the next level, or the records of the last one.
SectionClick(v) ==
  LET d == screen.drill
      path == Append(d.steps, v)
  IN  /\ Drawn /\ d.on /\ ~d.busy /\ ~d.records.open
      /\ Use(Drill([d EXCEPT !.busy = TRUE]),
             {Ask(IF AtLeaf(d) THEN "records" ELSE "drill", path)}, calls)

\* The switch: turned off, the chart is at the top again.
ToggleDrill ==
  LET d == screen.drill
  IN  /\ Drawn
      /\ Use(Drill(IF d.on THEN [d EXCEPT !.on = FALSE, !.steps = <<>>, !.rows = <<>>,
                                          !.records = Closed, !.raced = @ \/ d.busy]
                   ELSE [d EXCEPT !.on = TRUE]), {}, calls)

\* The breadcrumbs: of the records' path while records are shown.
Crumbs(d) == IF d.records.open THEN d.records.path ELSE d.steps

\* A breadcrumb, live for the levels of steps only; it does not wait for a
\* click under way.
JumpTo(level) ==
  LET d == screen.drill
      next == SubSeq(d.steps, 1, level)
      quiet == [d EXCEPT !.records = Closed, !.raced = @ \/ d.busy]
  IN  /\ Drawn /\ d.on /\ Crumbs(d) # <<>> /\ level <= Len(d.steps)
      /\ IF next = <<>>
           THEN Use(Drill([quiet EXCEPT !.rows = <<>>, !.steps = <<>>, !.busy = FALSE]), {}, calls)
           ELSE Use(Drill([quiet EXCEPT !.busy = TRUE]), {Ask("drill", next)}, calls)

BackToChart ==
  /\ Drawn /\ screen.drill.records.open
  /\ Use(Drill([screen.drill EXCEPT !.records = Closed]), {}, calls)

\* Mutant: the new level is drawn under the old crumbs.
RowsOnly(d, path) == [d EXCEPT !.rows = path, !.busy = FALSE]

\* The path and its rows change together, when the answer is there.
Descended(d, path) == [d EXCEPT !.steps = path, !.rows = path, !.busy = FALSE]

DrillLands(c, ok) ==
  /\ c.kind = "drill"
  /\ Show(Drill(IF ok THEN Descended(screen.drill, c.arg) ELSE [screen.drill EXCEPT !.busy = FALSE]),
          {}, calls \ {c})

RecordsLand(c, ok) ==
  /\ c.kind = "records"
  /\ Show(Drill([screen.drill EXCEPT !.busy = FALSE,
                                     !.records = IF ok THEN [open |-> TRUE, path |-> c.arg] ELSE @]),
          {}, calls \ {c})

---------------------------------------------------------------------------
(* The chart designer. *)

Designing == screen.at = "board" /\ screen.editor.open

NeedsDimension(e) == e.type # "number"
SupportsSeries(e) == e.type = "column"
IsCompare(e) == e.mode = "compare" /\ SupportsSeries(e)
IsClause(e) == e.mode = "clause" /\ SupportsSeries(e)

\* `spec' without its looks: fields that the mode does not use are not sent.
QuerySpec(e) ==
  <<e.src, e.type,
    CASE IsClause(e) -> "clause" [] IsCompare(e) -> "compare" [] OTHER -> "aggregate",
    IF NeedsDimension(e) /\ ~IsClause(e) THEN e.dim ELSE "",
    IF IsClause(e) \/ (SupportsSeries(e) /\ ~IsCompare(e)) THEN e.groups ELSE <<>>,
    IF IsCompare(e) THEN e.compare ELSE "",
    IF NeedsDimension(e) /\ ~IsClause(e) THEN e.path ELSE <<>>,
    e.cond>>

\* The drill path the saved chart will have.
DrillSequence(e) ==
  IF IsClause(e) THEN e.groups ELSE SelectSeq(<<e.dim>> \o e.path, LAMBDA d : d # "")

\* The preview effect leaves a spec alone that is not complete.
Complete(e) ==
  /\ e.schema # ""
  /\ NeedsDimension(e) /\ ~IsClause(e) => e.dim # ""
  /\ IsCompare(e) => e.compare # ""
  /\ IsClause(e) => e.groups # <<>>

Deps(e) == <<QuerySpec(e), e.steps, e.schema, e.dim, e.compare, e.groups>>

\* The effects after a change from e to f: another drill path, type or source
\* ends a drill; whatever the preview depends on starts its 250 ms afresh.
Effects(e, f) ==
  LET g == IF /\ DrillSequence(f) = DrillSequence(e)
              /\ f.type = e.type /\ f.src = e.src
             THEN f ELSE [f EXCEPT !.steps = <<>>]
  IN  IF Deps(g) = Deps(e) THEN g ELSE [g EXCEPT !.timer = Complete(g)]

Design(f) == [screen EXCEPT !.editor = Effects(screen.editor, f)]
Edit(f) == Designing /\ f # screen.editor /\ Use(Design(f), {}, calls)

OpenEditor(existing, k) ==
  /\ OnBoard /\ acts > 0 /\ (existing => screen.shell # {})
  /\ acts' = IF acts > MaxEdits THEN MaxEdits ELSE acts - 1
  /\ screen' = [screen EXCEPT !.editor = NewEditor(existing, k), !.drill = Closed]
  /\ calls' = Send(Without(calls, DrillCalls), {Ask("fields", <<k>>)})
  /\ UNCHANGED <<stored, refreshing>>

\* "+ Add chart" stands above the dashboard, also while that loads or has failed.
AddChart ==
  /\ screen.at = "board" /\ ~OnBoard /\ ~screen.editor.open /\ screen.hidden = {}
  /\ acts > 0 /\ acts' = IF acts > MaxEdits THEN MaxEdits ELSE acts - 1
  /\ screen' = [screen EXCEPT !.hidden = {FALSE}, !.drill = Closed]
  /\ calls' = Without(calls, DrillCalls)
  /\ UNCHANGED <<stored, refreshing>>

ChooseType(t) == Edit([screen.editor EXCEPT !.type = t])
ChooseFilter(f) == Edit([screen.editor EXCEPT !.cond = f])
ChooseDimension(d) == Edit([screen.editor EXCEPT !.dim = d])
ChooseCompare(d) == IsCompare(screen.editor) /\ Edit([screen.editor EXCEPT !.compare = d])

\* Another mode clears what belongs to the others; grouping starts with one level.
ChangeMode(m) ==
  /\ m # screen.editor.mode
  /\ Edit([screen.editor EXCEPT !.mode = m, !.compare = "",
             !.groups = IF m = "clause" THEN <<CHOOSE d \in Dimensions : TRUE>> ELSE <<>>])

\* The pickers offer a field once, and what is on the X axis not at all.
ChooseGroups(gs) ==
  /\ \A i \in DOMAIN gs : gs[i] # screen.editor.dim \/ IsClause(screen.editor)
  /\ Edit([screen.editor EXCEPT !.groups = gs])

ChoosePath(ds) ==
  /\ \A i \in DOMAIN ds : ds[i] # screen.editor.dim
  /\ Edit([screen.editor EXCEPT !.path = ds])

\* Another source: every field chosen so far is void, the preview is emptied.
ChangeSource(k) ==
  LET e == screen.editor
  IN  /\ Designing /\ k # e.src
      /\ Use(Design([e EXCEPT !.src = k, !.schema = "", !.dim = "", !.groups = <<>>, !.compare = "",
                              !.path = <<>>, !.cond = "", !.result = <<>>, !.failed = FALSE]),
             {Ask("fields", <<k>>)}, calls)

\* The source's fields; whichever answer lands last.  A new chart takes the
\* first of them for its X axis.
FieldsLand(c, ok) ==
  LET e == screen.editor
  IN  /\ c.kind = "fields"
      /\ Show(IF ok THEN Design([e EXCEPT !.schema = c.arg[1],
                                   !.dim = IF e.existing \/ @ # "" THEN @ ELSE CHOOSE d \in Dimensions : TRUE])
              ELSE screen, {}, calls \ {c})

CanPreviewDrill(e) ==
  ~IsCompare(e) /\ e.type # "number" /\ Len(e.steps) < Len(DrillSequence(e)) - 1

PreviewClick(v) ==
  /\ Designing /\ CanPreviewDrill(screen.editor)
  /\ Edit([screen.editor EXCEPT !.steps = Append(@, v)])

PreviewBack(n) ==
  /\ Designing /\ n < Len(screen.editor.steps)
  /\ Edit([screen.editor EXCEPT !.steps = SubSeq(@, 1, n)])

PreviewOf(e) == <<QuerySpec(e), e.steps>>

\* 250 ms without a change: the preview is asked for.
PreviewFires ==
  /\ Designing /\ screen.editor.timer
  /\ Show([screen EXCEPT !.editor.timer = FALSE, !.editor.failed = FALSE],
          {Ask("preview", PreviewOf(screen.editor))}, calls)

\* Only the newest answer counts; a drill the server refuses goes back to the top.
PreviewLands(c, ok) ==
  LET e == screen.editor
  IN  /\ c.kind = "preview"
      /\ Show(CASE ~c.newest -> screen
                [] c.newest /\ ok -> Design([e EXCEPT !.result = c.arg])
                [] OTHER -> Design([e EXCEPT !.failed = TRUE, !.steps = <<>>]), {}, calls \ {c})

Save == Designing /\ screen.editor.schema # "" /\ Use(screen, {Ask("save", <<>>)}, calls)

\* Saved: the designer that is open closes, and the dashboard is loaded again.
SaveLands(c, ok) ==
  /\ c.kind = "save"
  /\ LET turn == Reload([screen EXCEPT !.editor = Closed, !.hidden = {}])
     IN  IF ok THEN Show(turn.to, turn.asks, Without(calls \ {c}, DesignCalls))
               ELSE Show(screen, {}, calls \ {c})

Cancel ==
  LET b == [screen EXCEPT !.editor = Closed]
  IN  /\ Designing
      /\ Use([b EXCEPT !.drill = CardOf(b)], {}, Without(calls, DesignCalls))

---------------------------------------------------------------------------
Lists(S) == {<<>>} \cup {<<d>> : d \in S} \cup {p \in S \X S : p[1] # p[2]}

ChartStep ==
  \/ \E w \in Widgets : RemoveChart(w)
  \/ \E v \in Bars : SectionClick(v)
  \/ ToggleDrill \/ BackToChart
  \/ \E n \in 0..Levels : JumpTo(n)
  \/ \E k \in Sources : ChangeSource(k)

OpenStep == AddChart \/ \E existing \in BOOLEAN : OpenEditor(existing, FirstSource)

DesignStep ==
  /\ Designing /\ screen.editor.schema # ""
  /\ \/ \E t \in {"column", "pie", "number"} : ChooseType(t)
     \/ \E m \in {"aggregate", "compare", "clause"} : ChangeMode(m)
     \/ \E d \in Dimensions : ChooseDimension(d) \/ ChooseCompare(d)
     \/ \E ds \in Lists(Dimensions) : ChooseGroups(ds) \/ ChoosePath(ds)
     \/ \E f \in {"", "f"} : ChooseFilter(f)
     \/ \E v \in Bars : PreviewClick(v)
     \/ \E n \in 0..1 : PreviewBack(n)
     \/ Save \/ Cancel

ChartLands(c, ok) ==
  \/ ShellLands(c, ok) \/ WidgetLands(c, ok) \/ RemovalLands(c, ok)
  \/ DrillLands(c, ok) \/ RecordsLand(c, ok)
  \/ FieldsLand(c, ok) \/ PreviewLands(c, ok) \/ SaveLands(c, ok)

---------------------------------------------------------------------------
PreviewIsCurrent(e) ==
  Complete(e) /\ ~e.timer /\ ~(\E c \in calls : c.kind = "preview" /\ c.newest)
    => e.failed \/ e.result = PreviewOf(e)

\* Everything between the crumbs and the chart agrees.
PathHolds(d) ==
  /\ d.rows = d.steps
  /\ ~d.on => d.steps = <<>> /\ ~d.records.open
  /\ d.records.open => SubSeq(d.records.path, 1, Len(d.records.path) - 1) = d.steps
=============================================================================
