----------------------------- MODULE MCReports -----------------------------
(***************************************************************************)
(* Instance of Reports: four rows with ties, NULLs and ids that look like  *)
(* texts, two views and the dataset itself, and requests that combine a    *)
(* filter, a search and a search in a column.                              *)
(***************************************************************************)
EXTENDS Reports

Field(type, searched, options) ==
  [type |-> type, dimension |-> FALSE, measurable |-> FALSE, searchable |-> searched,
   options |-> options]
MCFields == [owner |-> Field("text", TRUE, TRUE), note |-> Field("text", TRUE, FALSE),
             score |-> Field("number", FALSE, FALSE)]
MCFieldType == filterFields(MCFields)
MCDimensions == dimensions(MCFields, [f \in {} |-> f])

Row(id, owner, note, score) ==
  [record_id |-> id, owner |-> owner, note |-> note, score |-> score]
MCStart == {Row(1, 1, 3, 4), Row(2, 2, 1, Null), Row(3, 1, Null, 4), Row(4, 2, 2, 1)}
MCVersions == {Row(2, 1, 1, 2), Row(5, 1, 1, 4)}

Cond(field, op, v) ==
  [field |-> field, operator |-> op, value |-> v, value2 |-> Unset, values |-> <<>>]
NoScope == [conds |-> <<>>, logic |-> <<>>]
Scope == [conds |-> <<Cond("owner", "eq", 1), Cond("score", "gt", 1)>>,
          logic |-> <<Num(1), Word("OR"), Num(2)>>]
View(scope, limit) ==
  [scope |-> scope, limit |-> limit, columns |-> {"owner"}, granted |-> TRUE,
   browse |-> FALSE]
Browse == [View(NoScope, None) EXCEPT !.columns = {}, !.browse = TRUE]

Blank == [text |-> 0, number |-> None]
Find(col, text) == [col |-> col, term |-> [text |-> text, number |-> None]]
Query(page) ==
  [conds |-> <<>>, logic |-> <<>>, search |-> Blank, cols |-> <<>>, sort |-> "score",
   order |-> "desc", page |-> page, size |-> 2]
Pages(q) == {[q EXCEPT !.page = p] : p \in 1..2}
MCQueries ==
  Pages(Query(1))
  \cup {[Query(1) EXCEPT !.conds = <<Cond("owner", "neq", 2), Cond("score", "gte", 4)>>,
                         !.logic = <<Num(2), Word("AND"), Num(1)>>, !.order = "asc",
                         !.search = [text |-> 1, number |-> None],
                         !.cols = <<Find("owner", 1), Find("score", 4), Find("note", 0)>>],
        [Query(1) EXCEPT !.conds = <<Cond("owner", "neq", 3)>>],
        [Query(1) EXCEPT !.conds = <<Cond("owner", "eq", 2)>>],
        [Query(1) EXCEPT !.conds = <<Cond("owner", "neq", 2)>>, !.sort = "nothing",
                         !.search = [text |-> 2, number |-> 3]],
        [Query(1) EXCEPT !.conds = <<Cond("owner", "eq", 1)>>,
                         !.cols = <<[col |-> "record_id", term |-> [text |-> 3, number |-> 3]]>>]}

MCViews == {View(Scope, None), View(NoScope, 2), Browse}
MCTopThree == {View(NoScope, 3)}
MCEdits == {[View(Scope, 2) EXCEPT !.columns = {"note"}]}
=============================================================================
