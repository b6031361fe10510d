---------------------------- MODULE TableScreens ----------------------------
(***************************************************************************)
(* The two big tables: a view's records (ReportView) and a dataset's rows  *)
(* (DatasetTable).  What the user chooses makes a query; every change of   *)
(* the query is asked at once, typing 300 ms after the last key; only the  *)
(* answer to the newest request is shown.  The table's own state is the    *)
(* record `screen', whose field `at' says which screen is open.            *)
(***************************************************************************)
EXTENDS ApiClient

CONSTANTS
  Views,     \* keys of the views the user may open
  Datasets,  \* keys of the datasets
  Columns,   \* columns a table can be sorted by; the sort order is part of it
  FirstSort, \* the column a table opens with
  LastPage,  \* the pages of a table are 1..LastPage
  MaxEdits   \* what a user does on a table at most

VARIABLES screen,  \* the screen that is open
          acts     \* what the user will still do: bounds the behaviours

\* A screen does something of its own accord: `asks' go out.
Turn(to, asks, cs) ==
  /\ screen' = to
  /\ calls' = Send(cs, asks)
  /\ UNCHANGED <<stored, refreshing, acts>>

\* What is left to do on another screen.
Left == IF acts > MaxEdits THEN MaxEdits ELSE acts - 1

\* The user does something on the screen.
Act(to, asks, cs) ==
  /\ acts > 0 /\ acts' = acts - 1
  /\ screen' = to
  /\ calls' = Send(cs, asks)
  /\ UNCHANGED <<stored, refreshing>>

OnTable == screen.at \in {"report", "dataset"}

\* A dataset's table waits for its schema; a view's rows are asked at once.
Ready(s) == s.at = "report" \/ s.about # ""

\* useMemo `query': the source, and what page, size, sort, filters and search ask for.
Query(s) == <<s.src, s.sort, s.search, s.applied, s.page>>

\* The table as a component starts: no rows; the debounce effect runs at mount too.
NewTable(at, src) ==
  [at |-> at, src |-> src, about |-> "", sort |-> FirstSort, page |-> 1,
   typed |-> "", search |-> "", applied |-> "", timer |-> TRUE, fresh |-> TRUE,
   shown |-> <<>>, failed |-> FALSE]

OpenReport(k) == [to |-> NewTable("report", k),
                  asks |-> {Ask("config", <<k>>), Ask("data", Query(NewTable("report", k)))}]
OpenDataset(k) == [to |-> NewTable("dataset", k), asks |-> {Ask("schema", <<k>>)}]

TableCalls == {"data", "config", "schema"}

\* The effect on the query: a new one is asked when the query is another, or
\* the same made anew (renewed).
Asked(s, renewed) ==
  IF Ready(s) /\ (renewed \/ Query(s) # Query(screen))
    THEN [to |-> [s EXCEPT !.failed = FALSE], asks |-> {Ask("data", Query(s))}]
    ELSE [to |-> s, asks |-> {}]

Requery(s, renewed) == LET turn == Asked(s, renewed) IN Act(turn.to, turn.asks, calls)

---------------------------------------------------------------------------
(* What the user does. *)

TypeSearch(t) ==
  /\ OnTable /\ Ready(screen) /\ t # screen.typed
  /\ Act([screen EXCEPT !.typed = t, !.timer = TRUE], {}, calls)

\* 300 ms without a key.  The first time the column filters are a new object.
Debounced ==
  /\ OnTable /\ screen.timer
  /\ LET s == [screen EXCEPT !.search = screen.typed,
                             !.timer = FALSE, !.fresh = FALSE, !.page = 1]
         turn == Asked(s, screen.fresh)
     IN  Turn(turn.to, turn.asks, calls)

TurnPage(p) == OnTable /\ Ready(screen) /\ p # screen.page /\ Requery([screen EXCEPT !.page = p], FALSE)

\* A view keeps its page when it is sorted anew, a dataset goes to page 1.
ToggleSort(c) ==
  /\ OnTable /\ Ready(screen) /\ c # screen.sort
  /\ Requery([screen EXCEPT !.sort = c, !.page = IF screen.at = "dataset" THEN 1 ELSE @], FALSE)

\* Applying makes a new object even of the same conditions.
ApplyFilters(f) ==
  OnTable /\ Ready(screen) /\ Requery([screen EXCEPT !.applied = f, !.page = 1], f # "")

\* Another view in the same component: its search, sort, filters and page stay.
PickView(k) ==
  /\ screen.at = "report" /\ k # screen.src
  /\ LET turn == Asked([screen EXCEPT !.src = k], FALSE)
     IN  Act(turn.to, turn.asks \cup {Ask("config", <<k>>)}, calls)

\* Another dataset is another component.
PickDataset(k) ==
  /\ screen.at = "dataset" /\ k # screen.src
  /\ Act(OpenDataset(k).to, OpenDataset(k).asks, Without(calls, TableCalls))

---------------------------------------------------------------------------
(* Answers. *)

\* Mutant: any answer is shown, not only the newest request's.
AnyDataLands(c, ok) ==
  /\ c.kind = "data"
  /\ Turn(IF ok THEN [screen EXCEPT !.shown = c.arg] ELSE [screen EXCEPT !.failed = TRUE], {}, calls \ {c})

\* fetchReportData and fetchRows count their requests: an older answer is dropped.
DataLands(c, ok) ==
  /\ c.kind = "data"
  /\ Turn(CASE ~c.newest -> screen
            [] c.newest /\ ok -> [screen EXCEPT !.shown = c.arg]
            [] OTHER -> [screen EXCEPT !.failed = TRUE], {}, calls \ {c})

\* Whichever configuration lands last is shown, asked for this view or for another.
ConfigLands(c, ok) ==
  /\ c.kind = "config"
  /\ Turn(IF ok THEN [screen EXCEPT !.about = c.arg[1]] ELSE screen, {}, calls \ {c})

\* The schema comes with the dataset's own default sort, and opens the table.
SchemaLands(c, ok) ==
  /\ c.kind = "schema"
  /\ IF ok THEN LET turn == Asked([screen EXCEPT !.about = c.arg[1], !.sort = FirstSort], TRUE)
                IN  Turn(turn.to, turn.asks, calls \ {c})
           ELSE Turn([screen EXCEPT !.failed = TRUE], {}, calls \ {c})

TableStep ==
  \/ \E t \in {"", "x"} : TypeSearch(t)
  \/ \E p \in 1..LastPage : TurnPage(p)
  \/ \E c \in Columns : ToggleSort(c)
  \/ \E f \in {"", "f"} : ApplyFilters(f)
  \/ \E k \in Views : PickView(k)
  \/ \E k \in Datasets : PickDataset(k)

TableLands(c, ok) == DataLands(c, ok) \/ ConfigLands(c, ok) \/ SchemaLands(c, ok)

\* Nothing is under way that could still change the rows.
TableAtRest(s) == ~s.timer /\ ~\E c \in calls : c.kind = "data" /\ c.newest

TableIsCurrent(s) == Ready(s) /\ TableAtRest(s) => s.failed \/ s.shown = Query(s)
=============================================================================
