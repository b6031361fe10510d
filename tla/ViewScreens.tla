---------------------------- MODULE ViewScreens ----------------------------
(***************************************************************************)
(* The administrator's Views tab (ViewsTab): a draft of a view over one    *)
(* dataset, and the matching records shown beside it while it is edited.   *)
(* Unlike the tables and the chart designer it does not count its          *)
(* requests: whatever lands last is shown.                                 *)
(***************************************************************************)
EXTENDS ApiClient

CONSTANTS
  Datasets,     \* what a view can be built on
  FieldsOf(_)   \* the columns of a dataset

VARIABLES screen, acts

Goes(to, asks, cs) ==
  /\ screen' = to
  /\ calls' = Send(cs, asks)
  /\ UNCHANGED <<stored, refreshing, acts>>

Does(to, asks, cs) ==
  /\ acts > 0 /\ acts' = acts - 1
  /\ screen' = to
  /\ calls' = Send(cs, asks)
  /\ UNCHANGED <<stored, refreshing>>

NoDraft == [open |-> FALSE]

\* A draft: cols is the set of columns ticked.
Draft(saved, k, cond, cols) == [open |-> TRUE, saved |-> saved, src |-> k, cond |-> cond, cols |-> cols]

OpenViews ==
  [to |-> [at |-> "views", draft |-> NoDraft, schema |-> "", timer |-> FALSE, loading |-> FALSE,
           preview |-> <<>>, err |-> FALSE],
   asks |-> {Ask("views", <<>>)}]

ViewCalls == {"views", "columns", "matches", "saveView", "deleteView"}

\* What the draft selects: the effects on it run when this changes.
ScopeKey(d) == IF d.open THEN <<d.src, d.cond, d.cols>> ELSE <<>>

\* The effects of a new draft: another dataset loads its columns, another rule
\* clears the preview and starts its 400 ms afresh.
Drafted(d) ==
  LET other == d.open /\ (~screen.draft.open \/ screen.draft.src # d.src)
      s == [screen EXCEPT !.draft = d, !.schema = IF other THEN "" ELSE @]
  IN  [to |-> IF ScopeKey(d) = ScopeKey(screen.draft) THEN s
              ELSE IF d.open THEN [s EXCEPT !.timer = TRUE, !.loading = TRUE, !.preview = <<>>]
              ELSE [s EXCEPT !.timer = FALSE],
       asks |-> IF other THEN {Ask("columns", <<d.src>>)} ELSE {}]

Redraft(d) == LET turn == Drafted(d) IN Does([turn.to EXCEPT !.err = FALSE], turn.asks, calls)

OnViews == screen.at = "views"
Drafting == OnViews /\ screen.draft.open

OpenCreate(k) == OnViews /\ ~screen.draft.open /\ Redraft(Draft(FALSE, k, "", {}))
OpenEdit(k, cols) == OnViews /\ ~screen.draft.open /\ Redraft(Draft(TRUE, k, "f", cols))
\* A saved view keeps its dataset.
ChangeDataset(k) ==
  Drafting /\ ~screen.draft.saved /\ k # screen.draft.src /\ Redraft(Draft(FALSE, k, "", {}))
ChangeCondition(f) == Drafting /\ f # screen.draft.cond /\ Redraft([screen.draft EXCEPT !.cond = f])
ToggleCol(f) ==
  /\ Drafting /\ screen.schema # "" /\ f \in FieldsOf(screen.schema)
  /\ Redraft([screen.draft EXCEPT !.cols = IF f \in @ THEN @ \ {f} ELSE @ \cup {f}])
CloseDraft == Drafting /\ Redraft(NoDraft)

\* 400 ms after the last change.
MatchesFire ==
  /\ OnViews /\ screen.timer
  /\ Goes([screen EXCEPT !.timer = FALSE], {Ask("matches", ScopeKey(screen.draft))}, calls)

MatchesLand(c, ok) ==
  /\ c.kind = "matches"
  /\ Goes([screen EXCEPT !.loading = FALSE, !.preview = IF ok THEN c.arg ELSE <<>>], {}, calls \ {c})

\* The columns of whichever dataset lands last; all are ticked when none is yet.
ColumnsLand(c, ok) ==
  /\ c.kind = "columns"
  /\ LET k == c.arg[1]
         d == screen.draft
         turn == Drafted(IF d.open /\ d.cols = {} THEN [d EXCEPT !.cols = FieldsOf(k)] ELSE d)
     IN  IF ok THEN Goes([turn.to EXCEPT !.schema = k], turn.asks, calls \ {c})
               ELSE Goes([screen EXCEPT !.err = TRUE], {}, calls \ {c})

\* A view needs a column; its name and row limit are checked here too.
SaveView ==
  /\ Drafting
  /\ IF screen.draft.cols = {} THEN Does([screen EXCEPT !.err = TRUE], {}, calls)
     ELSE Does([screen EXCEPT !.err = FALSE], {Ask("saveView", <<>>)}, calls)

ViewSaved(c, ok) ==
  /\ c.kind = "saveView"
  /\ IF ok THEN Goes(Drafted(NoDraft).to, {Ask("views", <<>>)}, calls \ {c})
           ELSE Goes([screen EXCEPT !.err = TRUE], {}, calls \ {c})

DeleteView == OnViews /\ ~screen.draft.open /\ Does(screen, {Ask("deleteView", <<>>)}, calls)

ViewDeleted(c, ok) ==
  /\ c.kind = "deleteView"
  /\ IF ok THEN Goes(screen, {Ask("views", <<>>)}, calls \ {c})
           ELSE Goes([screen EXCEPT !.err = TRUE], {}, calls \ {c})

ViewsLand(c, ok) ==
  /\ c.kind = "views"
  /\ Goes(IF ok THEN screen ELSE [screen EXCEPT !.err = TRUE], {}, calls \ {c})

ViewStep ==
  \/ \E k \in Datasets : OpenCreate(k) \/ ChangeDataset(k)
  \/ \E k \in Datasets : \E cols \in SUBSET FieldsOf(k) \ {{}} : OpenEdit(k, cols)
  \/ \E f \in {"", "f"} : ChangeCondition(f)
  \/ \E f \in UNION {FieldsOf(k) : k \in Datasets} : ToggleCol(f)
  \/ CloseDraft \/ SaveView \/ DeleteView

ViewLands(c, ok) ==
  \/ MatchesLand(c, ok) \/ ColumnsLand(c, ok) \/ ViewSaved(c, ok)
  \/ ViewDeleted(c, ok) \/ ViewsLand(c, ok)
=============================================================================
