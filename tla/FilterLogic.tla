---------------------------- MODULE FilterLogic ----------------------------
(***************************************************************************)
(* Numbered filter conditions and the logic expression that combines them: *)
(* backend/src/reports/filterable-fields.ts, and the statements built from *)
(* it for a chart (query-builder.ts, mergeScope and buildChartWhere).      *)
(* Module Reports builds those of a report from the same clauses.          *)
(*                                                                         *)
(* A WHERE clause is what the code writes: a sequence of SQL words whose   *)
(* tests name their parameters by number, next to the sequence of          *)
(* parameters.  What it selects is found the way PostgreSQL finds it, from *)
(* the words, with the precedence of SQL and three truth values.           *)
(*                                                                         *)
(* Values are naturals.  In a text 0 is the empty string and 3 is the text *)
(* 1 followed by the text 2; a datetime is 2 * day + half of the day.      *)
(***************************************************************************)
EXTENDS Integers, Sequences, FiniteSets, SequencesExt, FiniteSetsExt

CONSTANTS FieldType,      \* the dataset's filter fields: name -> type
          Dimensions,     \* its dimensions: name -> [col, kind], where kind is
                          \* "column", "json" or "bucket" (month, year)
          MaxConditions   \* MAX_CONDITIONS, 100 in the code

\* (True of any strings: the provers have no rule for what is in STRING.)
ASSUME WordsAssumption ==
  {"AND", "(", ")", "contains", "eq", "is_true", "is_open", "record_id",
   "dim_null", "dim_eq", "expr_eq"} \subseteq STRING

Null == -1          \* SQL NULL, in a row
Unset == -2         \* an operand left empty in the builder: undefined or ''
NotANumber == -3    \* an operand that Number() cannot read
NoneText == -4      \* '(none)', the label a NULL is shown under

(***************************************************************************)
(* The operators of each field type and the operands each of them reads.   *)
(***************************************************************************)
OPERATORS(type) ==
  CASE type = "text" -> {"contains", "not_contains", "eq", "neq",
                         "starts_with", "ends_with", "empty", "not_empty"}
    [] type = "enum" -> {"eq", "neq", "in", "not_in", "empty", "not_empty"}
    [] type = "number" -> {"eq", "neq", "gt", "gte", "lt", "lte", "between",
                           "empty", "not_empty"}
    [] type = "boolean" -> {"is_true", "is_false"}
    [] OTHER -> {"on", "before", "after", "between", "empty", "not_empty"}

Arity(op) ==
  CASE op \in {"empty", "not_empty", "is_true", "is_false"} -> 0
    [] op \in {"in", "not_in"} -> -1
    [] op = "between" -> 2
    [] OTHER -> 1

\* Operands in a slot the operator does not read.
Stray(c) ==
  \/ Arity(c.operator) # -1 /\ c.values # <<>>
  \/ Arity(c.operator) # 2 /\ c.value2 # Unset
  \/ Arity(c.operator) \notin {1, 2} /\ c.value # Unset

Rejected == [kind |-> "rejected"]
Skipped == [kind |-> "skipped"]
Clause(operands) == [kind |-> "clause", operands |-> operands]

\* The operands of a list that are filled in.
Filled(values) ==
  LET upTo[n \in 0..Len(values)] ==
        IF n = 0 THEN <<>>
        ELSE IF values[n] = Unset THEN upTo[n - 1] ELSE Append(upTo[n - 1], values[n])
  IN upTo[Len(values)]

\* One condition: rejected, skipped while its operand is still missing, or a
\* test with the operands to be bound, a list being one array parameter.
buildClause(c) ==
  LET type == FieldType[c.field]
      list == Filled(c.values)
      both == {c.value, c.value2}
  IN CASE Stray(c) -> Rejected
       [] Arity(c.operator) = 0 -> Clause(<<>>)
       [] Arity(c.operator) = -1 ->
            IF list = <<>> THEN Skipped ELSE Clause(<<list>>)
       [] c.operator = "between" ->
            IF type = "number"
            THEN IF both \cap {Unset, NotANumber} # {}
                 THEN Rejected ELSE Clause(<< <<c.value>>, <<c.value2>> >>)
            ELSE IF Unset \in both
                 THEN Skipped ELSE Clause(<< <<c.value>>, <<c.value2>> >>)
       [] c.value = Unset -> Skipped
       [] type = "number" /\ c.value = NotANumber -> Rejected
       [] OTHER -> Clause(<< <<c.value>> >>)

(***************************************************************************)
(* What a test yields for a column value x: 0 false, 1 unknown, 2 true.    *)
(***************************************************************************)
Truth(b) == IF b THEN 2 ELSE 0

\* f::date of a datetime.
Day(type, v) == IF type = "datetime" THEN v \div 2 ELSE v

Like(op, x, v) ==
  CASE op \in {"contains", "not_contains"} -> x = v \/ x = 3
    [] op = "starts_with" -> x = v \/ (x = 3 /\ v = 1)
    [] op = "ends_with" -> x = v \/ (x = 3 /\ v = 2)

\* The comparison of a value that is not NULL with operand lists a.
Compare(type, op, x, a) ==
  LET v == a[1][1] IN
  CASE op = "eq" -> x = v
    [] op = "neq" -> x # v
    [] op \in {"contains", "starts_with", "ends_with"} -> Like(op, x, v)
    [] op = "not_contains" -> ~Like(op, x, v)
    [] op \in {"gt", "after"} -> x > v
    [] op = "gte" -> x >= v
    [] op \in {"lt", "before"} -> x < v
    [] op = "lte" -> x =< v
    [] op = "on" -> Day(type, x) = Day(type, v)
    [] op = "between" -> v =< x /\ x =< a[2][1]
    [] op = "in" -> \E i \in DOMAIN a[1] : a[1][i] = x
    [] op = "not_in" -> \A i \in DOMAIN a[1] : a[1][i] # x

TestValue(type, op, x, a) ==
  CASE op = "empty" -> Truth(x = Null \/ (x = 0 /\ type \in {"text", "enum"}))
    [] op = "not_empty" ->
         Truth(x # Null /\ (x # 0 \/ type \notin {"text", "enum"}))
    [] op = "is_true" -> Truth(x = 1)
    [] op = "is_false" -> Truth(x = 0)
    [] op = "neq" /\ type \in {"text", "enum"} -> Truth(x # a[1][1])
    [] x = Null -> 1
    [] OTHER -> Truth(Compare(type, op, x, a))

(***************************************************************************)
(* The logic expression.  Lexemes become tokens; a recursive descent over  *)
(* the tokens writes SQL words, and binds the parameters of a condition at *)
(* the moment its number is met.                                           *)
(***************************************************************************)
Tok(type) == [type |-> type]
Num(n) == [type |-> "NUM", value |-> n]
Test(field, op, ps) == [type |-> "TEST", field |-> field, op |-> op, ps |-> ps]

Lexeme == [type : {"NUM"}, value : Nat] \cup [type : {"WORD"}, text : STRING]

\* Words for the three operators in any case, their symbols, parentheses
\* and numbers; anything else is refused.
TokenOf(l) ==
  IF l.type = "NUM" THEN Num(l.value)
  ELSE CASE l.text \in {"AND", "and", "&&", "&"} -> Tok("AND")
         [] l.text \in {"OR", "or", "||", "|"} -> Tok("OR")
         [] l.text \in {"NOT", "not", "!"} -> Tok("NOT")
         [] l.text = "(" -> Tok("LP")
         [] l.text = ")" -> Tok("RP")
         [] OTHER -> Tok("BAD")
tokenizeLogic(lexemes) == [i \in DOMAIN lexemes |-> TokenOf(lexemes[i])]

\* The parser's state: what is left to read, and what it has written.
Token == [type : {"AND", "OR", "NOT", "LP", "RP", "TRUE", "BAD"}]
         \cup [type : {"NUM"}, value : Int]
SqlWord == Token \cup [type : {"TEST"}, field : STRING, op : STRING, ps : Seq(Nat)]
Condition ==
  [field : STRING, operator : STRING, value : Int, value2 : Int, values : Seq(Int)]
ParserState ==
  [rest : Seq(Token), conds : Seq(Condition), offset : Nat,
   params : Seq(Seq(Int)), sql : Seq(SqlWord), bad : BOOLEAN]

At(s, type) == s.rest # <<>> /\ Head(s.rest).type = type
Eat(s) == [s EXCEPT !.rest = Tail(@)]
Fail(s) == [s EXCEPT !.bad = TRUE]

\* buildOne: the condition's test, its parameters numbered after those
\* already bound; TRUE for a condition that is skipped.
Bound(s, c, clause) ==
  CASE clause = Rejected -> Fail(s)
    [] clause = Skipped -> [s EXCEPT !.sql = <<Tok("TRUE")>>]
    [] OTHER ->
         [s EXCEPT !.params = @ \o clause.operands,
                   !.sql = << Test(c.field, c.operator,
                                   [i \in DOMAIN clause.operands |->
                                      s.offset + Len(s.params) + i]) >>]
Bind(s, c) == Bound(s, c, buildClause(c))

Paren(sql) == <<Tok("LP")>> \o sql \o <<Tok("RP")>>
Joined(left, type, right) ==
  [right EXCEPT !.sql = Paren(left.sql \o <<Tok(type)>> \o @)]

Negated(f) == [f EXCEPT !.sql = <<Tok("NOT")>> \o @]
Numbered(s) ==
  LET n == Head(s.rest).value
  IN IF n < 1 \/ n > Len(s.conds) THEN Fail(s) ELSE Bind(Eat(s), s.conds[n])

\* What follows an expression: its closing parenthesis, or the end.
Closed(e) ==
  IF e.bad \/ ~At(e, "RP") THEN Fail(e) ELSE [Eat(e) EXCEPT !.sql = Paren(@)]
Complete(e) == IF e.bad \/ e.rest # <<>> THEN Fail(e) ELSE e

\* parse of a rule in a state: parseExpr, parseTerm and parseFactor, and the
\* loops of the first two.
Rules == {"expr", "ors", "term", "ands", "factor"}
parse[p \in Rules \X ParserState] ==
  LET rule == p[1]
      s == p[2]
  IN IF s.bad THEN s
     ELSE CASE rule = "expr" -> parse[<<"ors", parse[<<"term", s>>]>>]
            [] rule = "ors" ->
                 IF ~At(s, "OR") THEN s
                 ELSE parse[<<"ors", Joined(s, "OR", parse[<<"term", Eat(s)>>])>>]
            [] rule = "term" -> parse[<<"ands", parse[<<"factor", s>>]>>]
            [] rule = "ands" ->
                 IF ~At(s, "AND") THEN s
                 ELSE parse[<<"ands", Joined(s, "AND", parse[<<"factor", Eat(s)>>])>>]
            [] rule = "factor" ->
                 CASE At(s, "NOT") -> Negated(parse[<<"factor", Eat(s)>>])
                   [] At(s, "LP") -> Closed(parse[<<"expr", Eat(s)>>])
                   [] At(s, "NUM") -> Numbered(s)
                   [] OTHER -> Fail(s)

\* The whole expression, with nothing left over.
parseLogic(s) == Complete(parse[<<"expr", s>>])

\* Conditions that no expression combines are ANDed, the skipped ones left out.
Anded(acc, b) ==
  IF acc.bad \/ (~b.bad /\ b.sql = <<Tok("TRUE")>>) THEN acc
  ELSE IF b.bad \/ acc.sql = <<>> THEN b
  ELSE [b EXCEPT !.sql = acc.sql \o <<Tok("AND")>> \o @]
AndAll(s) ==
  LET upTo[n \in 0..Len(s.conds)] ==
        IF n = 0 THEN s ELSE Anded(upTo[n - 1], Bind(upTo[n - 1], s.conds[n]))
  IN upTo[Len(s.conds)]

\* Every condition names a field of the dataset and an operator of its type.
Known(c) ==
  c.field \in DOMAIN FieldType /\ c.operator \in OPERATORS(FieldType[c.field])

Written(s) ==
  IF Len(s.conds) > MaxConditions \/ \E i \in DOMAIN s.conds : ~Known(s.conds[i])
  THEN Fail(s)
  ELSE IF s.rest = <<>> THEN AndAll(s) ELSE parseLogic(s)

buildExpressionWhere(conds, logic, offset) ==
  Written([rest |-> tokenizeLogic(logic), conds |-> conds, offset |-> offset,
           params |-> <<>>, sql |-> <<>>, bad |-> FALSE])

(***************************************************************************)
(* The statements.  `bad` stands for the 400 that answers the request.     *)
(***************************************************************************)
\* Two scopes as one: the numbers of the second are shifted past the first.
Word(text) == [type |-> "WORD", text |-> text]

\* Mutant: a filter that is not set apart by parentheses.
ShiftedBare(scope, offset) ==
  LET count == Len(scope.conds)
      body == IF scope.logic # <<>> THEN scope.logic
              ELSE [i \in 1..(2 * count - 1) |->
                      IF i % 2 = 1 THEN Num((i + 1) \div 2) ELSE Word("AND")]
  IN [i \in DOMAIN body |-> IF body[i].type = "NUM"
                           THEN Num(body[i].value + offset) ELSE body[i]]

Shifted(scope, offset) ==
  LET count == Len(scope.conds)
      body == IF scope.logic # <<>> THEN scope.logic
              ELSE [i \in 1..(2 * count - 1) |->
                      IF i % 2 = 1 THEN Num((i + 1) \div 2) ELSE Word("AND")]
  IN <<Word("(")>>
       \o [i \in DOMAIN body |-> IF body[i].type = "NUM"
                                 THEN Num(body[i].value + offset) ELSE body[i]]
       \o <<Word(")")>>

mergeScope(base, chart) ==
  IF base.conds = <<>> THEN chart
  ELSE IF chart.conds = <<>> THEN base
  ELSE [conds |-> base.conds \o chart.conds,
        logic |-> Shifted(base, 0) \o <<Word("AND")>>
                    \o Shifted(chart, Len(base.conds))]

\* Clauses joined with AND; a clause that is empty is not added.
And(a, b) ==
  IF a = <<>> THEN b ELSE IF b = <<>> THEN a ELSE a \o <<Tok("AND")>> \o b

\* Mutant: '(none)' is looked for as a text.
NoneAsText(scope, steps) ==
  FoldLeft(LAMBDA w, step :
             [w EXCEPT !.sql = And(@, << Test(step.dimension,
                                    IF Dimensions[step.dimension].kind = "column"
                                    THEN "dim_eq" ELSE "expr_eq",
                                    << Len(w.params) + 1 >>) >>),
                       !.params = Append(@, << step.value >>)],
           buildExpressionWhere(scope.conds, scope.logic, 0), steps)

\* A chart: its conditions, then one equality per drill step, whose dimension
\* must exist.  A plain column is compared as it is and '(none)' asks for NULL;
\* a computed dimension, a month or a value inside a json, is compared by its
\* expression.
buildChartWhere(scope, steps) ==
  LET first == buildExpressionWhere(scope.conds, scope.logic, 0)
      more(w, step) ==
        LET plain == Dimensions[step.dimension].kind = "column" IN
        IF step.dimension \notin DOMAIN Dimensions THEN Fail(w)
        ELSE IF plain /\ step.value = NoneText
        THEN [w EXCEPT !.sql = And(@, << Test(step.dimension, "dim_null", <<>>) >>)]
        ELSE [w EXCEPT !.sql = And(@, << Test(step.dimension,
                                              IF plain THEN "dim_eq" ELSE "expr_eq",
                                              << Len(w.params) + 1 >>) >>),
                       !.params = Append(@, << step.value >>)]
      upTo[n \in 0..Len(steps)] == IF n = 0 THEN first ELSE more(upTo[n - 1], steps[n])
  IN upTo[Len(steps)]

(***************************************************************************)
(* PostgreSQL: what a sequence of words means.  OR binds least, then AND,  *)
(* then NOT; the same precedence is the grammar the logic is written in.   *)
(***************************************************************************)
Depth(t, i) ==
  Cardinality({j \in 1..i : t[j].type = "LP"})
    - Cardinality({j \in 1..i : t[j].type = "RP"})
TopLevel(t, type) == {i \in DOMAIN t : t[i].type = type /\ Depth(t, i) = 0}
Least(S) == CHOOSE i \in S : \A j \in S : i =< j

Value[t \in Seq(Token)] ==
  LET ors == TopLevel(t, "OR")
      ands == TopLevel(t, "AND")
      split == Least(IF ors # {} THEN ors ELSE ands)
      left == Value[SubSeq(t, 1, split - 1)]
      right == Value[SubSeq(t, split + 1, Len(t))]
      unary == t # <<>> /\ ors \cup ands = {}
  IN CASE t = <<>> -> 2
       [] ors # {} -> Max({left, right})
       [] ors = {} /\ ands # {} -> Min({left, right})
       [] unary /\ t[1].type = "NOT" -> 2 - Value[Tail(t)]
       [] unary /\ t[1].type = "LP" -> Value[SubSeq(t, 2, Len(t) - 1)]
       [] OTHER -> t[1].value

\* What a dimension makes of its column: a NULL is labelled, except in the
\* buckets of a date.
DimExpr(dim, row) ==
  LET x == row[Dimensions[dim].col]
  IN IF Dimensions[dim].kind = "bucket"
     THEN IF x = Null THEN Null ELSE x \div 4
     ELSE IF x = Null THEN NoneText ELSE x

Equal(x, v) == IF x = Null THEN 1 ELSE Truth(x = v)

\* The type of a column; the record id is no filter field.
TypeOf(column) ==
  IF column \in DOMAIN FieldType THEN FieldType[column] ELSE "number"

\* The value of one word of a statement for a row.
WordValue(w, params, row) ==
  LET a == [i \in DOMAIN w.ps |-> params[w.ps[i]]] IN
  IF w.type = "TRUE" THEN Num(2)
  ELSE IF w.type # "TEST" THEN w
  ELSE Num(CASE w.op = "dim_null" -> Truth(row[Dimensions[w.field].col] = Null)
             [] w.op = "dim_eq" -> Equal(row[Dimensions[w.field].col], a[1][1])
             [] w.op = "expr_eq" -> Equal(DimExpr(w.field, row), a[1][1])
             [] OTHER -> TestValue(TypeOf(w.field), w.op, row[w.field], a))

\* The rows a statement selects: those its WHERE is true of.
Selected(rows, w) ==
  {r \in rows :
     Value[[i \in DOMAIN w.sql |-> WordValue(w.sql[i], w.params, r)]] = 2}

(***************************************************************************)
(* The same, said without statements or parameters: which token sequences  *)
(* are expressions, and what an expression over conditions means.          *)
(***************************************************************************)
WellFormed[t \in Seq(Token)] ==
  LET ors == TopLevel(t, "OR")
      ands == TopLevel(t, "AND")
      split == Least(IF ors # {} THEN ors ELSE ands)
      unary == t # <<>> /\ ors \cup ands = {}
  IN \/ /\ ors \cup ands # {}
        /\ WellFormed[SubSeq(t, 1, split - 1)]
        /\ WellFormed[SubSeq(t, split + 1, Len(t))]
     \/ unary /\ t[1].type = "NOT" /\ WellFormed[Tail(t)]
     \/ /\ unary /\ t[1].type = "LP" /\ Len(t) > 2 /\ t[Len(t)].type = "RP"
        /\ WellFormed[SubSeq(t, 2, Len(t) - 1)]
     \/ unary /\ t[1].type = "NUM" /\ Len(t) = 1

\* A condition on its own: unfinished ones hold of every row.
ConditionValue(c, row) ==
  LET cl == buildClause(c)
  IN IF cl.kind = "clause"
     THEN TestValue(FieldType[c.field], c.operator, row[c.field], cl.operands)
     ELSE 2

\* A request is answered when every condition can be read and the logic,
\* if there is one, is an expression over them.
Answerable(scope) ==
  /\ Len(scope.conds) =< MaxConditions
  /\ \A i \in DOMAIN scope.conds : Known(scope.conds[i])
  /\ IF scope.logic = <<>>
     THEN \A i \in DOMAIN scope.conds : buildClause(scope.conds[i]) # Rejected
     ELSE LET t == tokenizeLogic(scope.logic)
          IN WellFormed[t] /\ \A i \in DOMAIN t : t[i].type = "NUM" =>
               t[i].value \in DOMAIN scope.conds
                 /\ buildClause(scope.conds[t[i].value]) # Rejected

Meaning(scope, row) ==
  IF scope.logic = <<>>
  THEN \A i \in DOMAIN scope.conds : ConditionValue(scope.conds[i], row) = 2
  ELSE LET t == tokenizeLogic(scope.logic)
       IN Value[[i \in DOMAIN t |->
                   IF t[i].type = "NUM"
                   THEN Num(ConditionValue(scope.conds[t[i].value], row))
                   ELSE t[i]]] = 2
=============================================================================
