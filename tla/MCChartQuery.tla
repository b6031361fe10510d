---------------------------- MODULE MCChartQuery ----------------------------
(***************************************************************************)
(* Instance of ChartQuery: a dataset of five fields, three contents of its *)
(* table, every logic expression of at most five lexemes over two          *)
(* conditions (four, read through a scope), and every shape of chart the   *)
(* designer offers.                                                        *)
(***************************************************************************)
EXTENDS ChartQuery, FieldCatalog

Field(type, dim) == [type |-> type, dimension |-> dim, measurable |-> TRUE,
                     searchable |-> FALSE, options |-> FALSE]
Fields == [owner |-> [Field("text", TRUE) EXCEPT !.options = TRUE],
           tags |-> Field("json", TRUE),
           note |-> Field("text", FALSE),
           score |-> Field("number", FALSE),
           found |-> Field("timestamp", FALSE)]

Generated ==
  [n \in {"sum", "avg", "min", "max"} |->
     [agg |-> n, col |-> "score", test |-> "none", on |-> "score"]]
Registry == [open |-> [agg |-> "count", col |-> "score", test |-> "is_null", on |-> "score"]]

MCFieldType == filterFields(Fields)
MCDimensions == dimensions(Fields, [f \in DOMAIN Fields |-> "month"])
MCMeasures == measures(Fields, Generated, Registry)

Row(id, owner, tags, note, score, found) ==
  [id |-> id, record_id |-> id, owner |-> owner, tags |-> tags, note |-> note,
   score |-> score, found |-> found]
MCTables ==
  {{Row(1, 1, 1, 3, 4, 0), Row(2, 1, 2, 0, 3, 5), Row(3, 2, Null, 1, Null, Null),
    Row(4, 2, 1, Null, 6, 4), Row(5, Null, 2, 2, 1, 7), Row(6, 3, 1, 3, 2, Null)},
   {Row(1, 1, 1, 1, Null, 0), Row(2, Null, 1, 2, 5, 1)},
   {Row(1, 1, 1, 1, 5, 0), Row(2, 1, 1, 1, 4, 0), Row(4, 2, 1, 2, 6, 1), Row(6, 3, 2, 1, Null, 1)}}

Cond(field, op, v, v2, list) ==
  [field |-> field, operator |-> op, value |-> v, value2 |-> v2, values |-> list]
Big == Cond("score", "gt", 2, Unset, <<>>)
Mine == Cond("owner", "in", Unset, Unset, <<1, 2>>)
Typing == Cond("note", "contains", Unset, Unset, <<>>)
Between == Cond("score", "between", 2, 4, <<>>)

\* Every operator of every type, with operands that fit, that are missing,
\* that cannot be read and that are in the wrong slot.
Conditions ==
  {Cond(f, op, v, v2, list) :
     f \in {"owner", "note", "score", "found"},
     op \in {"eq", "neq", "contains", "ends_with", "not_contains", "starts_with", "gt",
             "lte", "on", "before", "between", "in", "not_in", "empty", "not_empty",
             "is_true"},
     v \in {Unset, NotANumber, 1, 4}, v2 \in {Unset, 5}, list \in {<<>>, <<Unset, 1>>}}

Lexemes == {Num(1), Num(2), Word("AND"), Word("or"), Word("!"), Word("("), Word(")")}
Logics(longest) == UNION {[1..n -> Lexemes] : n \in 0..longest}

Plain ==
  [type |-> "column", mode |-> "aggregate", dimension |-> "owner", groupBy |-> <<>>,
   series |-> None, compareField |-> "tags", measure |-> "count", groupAgg |-> None,
   drilldown |-> <<>>, conds |-> <<>>, logic |-> <<>>, filters |-> <<>>,
   openOnly |-> FALSE, limit |-> Null]
Whole == [conds |-> <<>>, logic |-> <<>>, rowLimit |-> Null]
Scope == [conds |-> <<Big, Mine>>, logic |-> <<Num(1), Word("OR"), Word("not"), Num(2)>>,
          rowLimit |-> 2]

Filtered(longest) ==
  {[Plain EXCEPT !.conds = <<Between, Mine>>, !.logic = l] : l \in Logics(longest)}
  \cup {[Plain EXCEPT !.conds = c] : c \in {<<c>> : c \in Conditions}}
  \cup {[Plain EXCEPT !.conds = <<Typing, c, Big>>] : c \in {Mine, Typing}}
  \cup {[Plain EXCEPT !.conds = <<Mine, Big, Between, Typing>>],
        [Plain EXCEPT !.filters = <<[field |-> "owner", value |-> 1],
                                    [field |-> "note", value |-> Unset]>>],
        [Plain EXCEPT !.openOnly = TRUE],
        [Plain EXCEPT !.type = "table", !.limit = 1], [Plain EXCEPT !.type = "table"]}

Shapes ==
  {[Plain EXCEPT !.dimension = d, !.drilldown = path, !.series = s, !.measure = m] :
     d \in {"owner", "month"}, path \in {<<>>, <<"tags">>, <<"tags", "month">>, <<"month">>},
     s \in {None, "tags"}, m \in DOMAIN MCMeasures}
  \cup {[Plain EXCEPT !.mode = "clause", !.groupBy = g, !.groupAgg = a] :
          g \in {<<>>, <<"owner">>, <<"owner", "tags">>, <<"tags", "month", "owner">>},
          a \in {None, "sum", "avg", "min", "max"}}
  \cup {[Plain EXCEPT !.mode = "compare", !.dimension = d, !.drilldown = path] :
          d \in {"owner", "month"}, path \in {<<>>, <<"month">>}}
  \cup {[Plain EXCEPT !.type = "number", !.measure = m] : m \in {"avg", "none"}}
  \cup {[Plain EXCEPT !.type = "pie", !.series = "tags"],
        [Plain EXCEPT !.drilldown = <<"tags", "month", "owner">>]}

MCQuestions ==
  [view : {Whole}, chart : Filtered(5)]
  \cup [view : {Scope}, chart : Filtered(4)]
  \cup [view : {Whole, [Whole EXCEPT !.conds = <<Between>>]},
        chart : Shapes \cup {[c EXCEPT !.conds = <<Mine>>] : c \in Shapes}]

\* The charts and tables above are what LevelsAreTheSame and BarsBreakDown are
\* about: charts as the designer writes them, with series that can be told
\* apart by their labels.
ASSUME DesignedAssumption == \A q \in MCQuestions : Designed(q.chart)
ASSUME LabelledAssumption ==
  \A q \in MCQuestions : \A rows \in MCTables : Labelled(seriesKeys(q.chart, FALSE), rows)
=============================================================================
