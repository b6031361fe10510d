-------------------------- MODULE ChartQueryProofs --------------------------
(***************************************************************************)
(* What a chart selects through a view (ScopeHonoured): the type of the    *)
(* conditions it is asked with, the statement that is written for them,    *)
(* and the two filters as one.                                             *)
(***************************************************************************)
EXTENDS ChartQuery, FilterProofs

LEMMA OwnIs ==
  ASSUME NEW spec, spec.conds \in Seq(Condition), spec.logic \in Seq(Lexeme),
         spec.filters \in Seq([field : STRING, value : Int]), spec.openOnly \in BOOLEAN
  PROVE  /\ specConditions(spec).conds \in Seq(Condition)
         /\ specConditions(spec).logic \in Seq(Lexeme)
         /\ spec.conds # <<>> => /\ specConditions(spec).conds = spec.conds
                                 /\ specConditions(spec).logic = spec.logic
         /\ spec.conds = <<>> => specConditions(spec).logic = <<>>
         /\ spec.conds = <<>> /\ spec.filters = <<>> /\ ~spec.openOnly
              => specConditions(spec).conds = <<>>
<1>1. CASE spec.conds # <<>>
  BY <1>1 DEF specConditions
<1>2. CASE spec.conds = <<>>
  <2> DEFINE N == Len(spec.filters)
             cond(field, op, v) == [field |-> field, operator |-> op, value |-> v,
                                    value2 |-> Unset, values |-> <<>>]
             open == cond("is_open", "is_true", Unset)
             equal(f) == cond(f.field, "eq", f.value)
             Step(n, x) == IF spec.filters[n].value = Unset THEN x
                           ELSE Append(x, equal(spec.filters[n]))
             G == [p \in (1..N) \X Seq(Condition) |-> Step(p[1], p[2])]
             upTo == CHOOSE f : f = [n \in 0..N |-> IF n = 0 THEN <<>> ELSE Step(n, f[n - 1])]
             last == IF spec.openOnly THEN <<open>> ELSE <<>>
             own == upTo[N]
  <2>1. N \in Nat /\ \A n \in 1..N : spec.filters[n] \in [field : STRING, value : Int]
    <3> DEFINE F == [field : STRING, value : Int]
    <3>1. spec.filters \in Seq(F)
      OBVIOUS
    <3> HIDE DEF F
    <3>2. N \in Nat /\ \A n \in 1..N : spec.filters[n] \in F
      BY <3>1
    <3> QED BY <3>2 DEF F
  <2>2. specConditions(spec) = [conds |-> own \o last, logic |-> <<>>]
    BY <1>2 DEF specConditions
  <2>3. open \in Condition
    BY WordsAssumption DEF Condition, Unset
  <2>4. ASSUME NEW f \in [field : STRING, value : Int] PROVE equal(f) \in Condition
    <3>1. "eq" \in STRING /\ f.field \in STRING /\ f.value \in Int
      BY WordsAssumption
    <3> QED BY <3>1 DEF Condition, Unset
  <2>5. last \in Seq(Condition) /\ (~spec.openOnly => last = <<>>)
    <3> HIDE DEF open
    <3> QED BY <2>3
  <2> HIDE DEF last, open, equal
  <2>6. \A n \in 1..N, x \in Seq(Condition) : Step(n, x) \in Seq(Condition)
    <3>1. ASSUME NEW x \in Seq(Condition), NEW v \in Condition PROVE Append(x, v) \in Seq(Condition)
      <4> DEFINE C == Condition
      <4>1. x \in Seq(C) /\ v \in C
        OBVIOUS
      <4> HIDE DEF C
      <4>2. Append(x, v) \in Seq(C)
        BY <4>1
      <4> QED BY <4>2 DEF C
    <3> HIDE DEF N
    <3> QED BY <2>1, <2>4, <3>1
  <2> HIDE DEF Step, N
  <2>7. G \in Steps(N, Seq(Condition)) /\ \A n \in 1..N, x \in Seq(Condition) : G[<<n, x>>] = Step(n, x)
    BY <2>6 DEF Steps
  <2> HIDE DEF G
  <2>8. <<>> \in Seq(Condition)
    OBVIOUS
  <2>9. PICK f : Iterates(f, N, Seq(Condition), <<>>, G)
    BY <2>1, <2>7, <2>8, IterationExists
  <2>10. f = [n \in 0..N |-> IF n = 0 THEN <<>> ELSE Step(n, f[n - 1])]
    <3>1. ASSUME NEW n \in 0..N PROVE f[n] = IF n = 0 THEN <<>> ELSE Step(n, f[n - 1])
      <4>1. CASE n = 0
        BY <2>9, <4>1 DEF Iterates
      <4>2. CASE n # 0
        <5>1. n \in 1..N /\ n - 1 \in 0..N
          BY <2>1, <4>2
        <5>2. f[n - 1] \in Seq(Condition) /\ f[n] = G[<<n, f[n - 1]>>]
          BY <2>9, <5>1 DEF Iterates
        <5> QED BY <2>7, <4>2, <5>1, <5>2
      <4> QED BY <4>1, <4>2
    <3>2. f = [n \in 0..N |-> f[n]]
      BY <2>9 DEF Iterates
    <3> QED BY <3>1, <3>2
  <2>11. upTo = [n \in 0..N |-> IF n = 0 THEN <<>> ELSE Step(n, upTo[n - 1])]
    BY <2>10
  <2> HIDE DEF upTo
  <2>12. DOMAIN upTo = 0..N /\ \A n \in 0..N : upTo[n] = IF n = 0 THEN <<>> ELSE Step(n, upTo[n - 1])
    BY <2>11
  <2>13. upTo[N] \in Seq(Condition) /\ (N = 0 => upTo[N] = <<>>)
    <3> DEFINE S == {n \in Nat : n <= N => upTo[n] \in Seq(Condition)}
    <3>1. 0 \in S
      <4>1. 0 \in 0..N /\ upTo[0] = <<>>
        BY <2>1, <2>12
      <4> QED BY <2>8, <4>1
    <3>2. ASSUME NEW n \in Nat, n \in S PROVE n + 1 \in S
      <4> SUFFICES ASSUME n + 1 <= N PROVE upTo[n + 1] \in Seq(Condition)
        OBVIOUS
      <4>1. n + 1 \in 1..N /\ n + 1 # 0 /\ (n + 1) - 1 = n
        BY <2>1
      <4>2. upTo[n + 1] = Step(n + 1, upTo[n])
        BY <2>1, <2>12, <4>1
      <4>3. upTo[n] \in Seq(Condition)
        BY <2>1, <3>2
      <4> QED BY <2>6, <4>1, <4>2, <4>3
    <3> HIDE DEF S
    <3>3. N \in S
      BY <2>1, <3>1, <3>2, SetInduction
    <3> QED BY <2>1, <2>12, <3>3 DEF S
  <2> HIDE DEF own
  <2>14. own \in Seq(Condition) /\ (N = 0 => own = <<>>)
    BY <2>13 DEF own
  <2>15. own \o last \in Seq(Condition)
    BY <2>5, <2>14, ConcatProperties
  <2>16. spec.filters = <<>> => N = 0
    BY DEF N
  <2>17. own = <<>> /\ last = <<>> => own \o last = <<>>
    OBVIOUS
  <2>18. specConditions(spec).conds = own \o last /\ specConditions(spec).logic = <<>>
    BY <2>2
  <2> QED BY <1>2, <2>5, <2>8, <2>14, <2>15, <2>16, <2>17, <2>18
<1> QED BY <1>1, <1>2

LEMMA OwnOf ==
  ASSUME NEW a, NEW b, a.conds = b.conds, a.logic = b.logic, a.filters = b.filters,
         a.openOnly = b.openOnly
  PROVE  specConditions(a) = specConditions(b)
BY DEF specConditions

\* Without drill steps a chart is asked with its conditions alone.
LEMMA BareWhere ==
  ASSUME NEW scope
  PROVE  buildChartWhere(scope, <<>>) = buildExpressionWhere(scope.conds, scope.logic, 0)
<1> DEFINE first == buildExpressionWhere(scope.conds, scope.logic, 0)
           more(w, step) ==
             LET plain == Dimensions[step.dimension].kind = "column" IN
             IF step.dimension \notin DOMAIN Dimensions THEN Fail(w)
             ELSE IF plain /\ step.value = NoneText
             THEN [w EXCEPT !.sql = And(@, << Test(step.dimension, "dim_null", <<>>) >>)]
             ELSE [w EXCEPT !.sql = And(@, << Test(step.dimension,
                                                   IF plain THEN "dim_eq" ELSE "expr_eq",
                                                   << Len(w.params) + 1 >>) >>),
                            !.params = Append(@, << step.value >>)]
           f == [n \in 0..0 |-> first]
           upTo == CHOOSE u : u = [n \in 0..0 |-> IF n = 0 THEN first ELSE more(u[n - 1], <<>>[n])]
<1>1. buildChartWhere(scope, <<>>) = upTo[0]
  BY DEF buildChartWhere
<1> HIDE DEF first, more
<1>2. f = [n \in 0..0 |-> IF n = 0 THEN first ELSE more(f[n - 1], <<>>[n])]
  OBVIOUS
<1>3. upTo = [n \in 0..0 |-> IF n = 0 THEN first ELSE more(upTo[n - 1], <<>>[n])]
  BY <1>2
<1> HIDE DEF upTo
<1>4. upTo[0] = first
  BY <1>3
<1> QED BY <1>1, <1>4 DEF first

\* The rows a filter selects are those it holds of.
LEMMA SelectedIs ==
  ASSUME MaxConditions \in Nat,
         NEW scope, scope.conds \in Seq(Condition), scope.logic \in Seq(Lexeme), NEW rows
  PROVE  LET w == buildChartWhere(scope, <<>>)
         IN /\ w.bad <=> ~Answerable(scope)
            /\ ~w.bad => Selected(rows, w) = {r \in rows : Meaning(scope, r)}
<1> DEFINE conds == scope.conds
           logic == scope.logic
           w == buildExpressionWhere(conds, logic, 0)
<1>1. w = buildChartWhere(scope, <<>>)
  BY BareWhere
<1>2. 0 \in Nat /\ conds \in Seq(Condition) /\ logic \in Seq(Lexeme)
  OBVIOUS
<1>3. w.bad <=> ~Answerable(scope)
  BY <1>2, AnsweredExactly
<1>4. ASSUME ~w.bad PROVE Selected(rows, w) = {r \in rows : Meaning(scope, r)}
  <2>1. Filtered(scope, 0, w)
    BY <1>2, <1>4, WrittenMeans
  <2> HIDE DEF w
  <2>2. Agree(w.params, 0, w.params)
    <3>1. Len(w.params) \in Nat
      BY <2>1 DEF Filtered
    <3>2. \A i \in 1..Len(w.params) : 0 + i = i
      BY <3>1
    <3> QED BY <3>2 DEF Agree
  <2>3. ASSUME NEW r
        PROVE  Value[[i \in DOMAIN w.sql |-> WordValue(w.sql[i], w.params, r)]] = 2 <=> Meaning(scope, r)
    <3> DEFINE a == [i \in DOMAIN w.sql |-> WordValue(w.sql[i], w.params, r)]
    <3>1. \A i \in DOMAIN w.sql : w.sql[i] \in SqlWord
      BY <2>1 DEF Filtered
    <3>2. \A i \in DOMAIN w.sql : Row(w.params, r)[w.sql[i]] = WordValue(w.sql[i], w.params, r)
      BY <3>1 DEF Row
    <3>3. Image(Row(w.params, r), w.sql) = a
      BY <3>2 DEF Image
    <3> HIDE DEF a
    <3>4. Value[a] = 2 <=> Meaning(scope, r)
      BY <2>1, <2>2, <3>3 DEF Filtered, Of
    <3> QED BY <3>4 DEF a
  <2> QED BY <2>3 DEF Selected
<1> QED BY <1>1, <1>3, <1>4

\* A filter without conditions that is answered holds of every row.
LEMMA NoConditions ==
  ASSUME NEW scope, scope.conds = <<>>, scope.logic \in Seq(Lexeme), Answerable(scope)
  PROVE  \A r : Meaning(scope, r)
<1>1. DOMAIN scope.conds = {}
  OBVIOUS
<1>2. scope.logic = <<>>
  <2> SUFFICES ASSUME scope.logic # <<>> PROVE FALSE
    OBVIOUS
  <2> DEFINE t == tokenizeLogic(scope.logic)
  <2>1. t \in Seq(Token)
    BY TokensOf
  <2>2. WellFormed[t] /\ \A i \in DOMAIN t : t[i].type = "NUM" => t[i].value \in DOMAIN scope.conds
    BY DEF Answerable
  <2> HIDE DEF t
  <2>3. Numbers(t) # {}
    BY <2>1, <2>2, LegalBalanced DEF Legal
  <2> QED BY <1>1, <2>2, <2>3 DEF Numbers
<1> QED BY <1>1, <1>2 DEF Meaning

\* The chart as it is asked: its own filter under the view's.
LEMMA ResolvedIs ==
  ASSUME NEW scope, NEW spec \in ChartSpec
  PROVE  LET m == mergeScope(scope, [conds |-> spec.conds, logic |-> spec.logic])
             q == resolveSpec(scope, spec)
         IN /\ q.conds = m.conds /\ q.logic = m.logic
            /\ q.filters = spec.filters /\ q.openOnly = spec.openOnly
BY DEF resolveSpec, ChartSpec

Posed == \E q \in Questions : view = q.view /\ chart = q.chart

\* What the view and the chart select together, for whatever is asked.
LEMMA PosedIsHonoured ==
  ASSUME Posed
  PROVE  ScopeHonoured
<1> DEFINE own == specConditions(chart)
           w == Where(Resolved, <<>>)
           plain == [conds |-> chart.conds, logic |-> chart.logic]
           m == mergeScope(view, plain)
           asked == specConditions(Resolved)
<1>1. view \in ViewScope /\ chart \in ChartSpec
  BY QuestionsAssumption DEF Posed
<1>2. /\ view.conds \in Seq(Condition) /\ view.logic \in Seq(Lexeme)
      /\ chart.conds \in Seq(Condition) /\ chart.logic \in Seq(Lexeme)
      /\ chart.filters \in Seq([field : STRING, value : Int]) /\ chart.openOnly \in BOOLEAN
  BY <1>1 DEF ViewScope, ChartSpec
<1>3. /\ Resolved.conds = m.conds /\ Resolved.logic = m.logic
      /\ Resolved.filters = chart.filters /\ Resolved.openOnly = chart.openOnly
  BY <1>1, ResolvedIs DEF Resolved
<1>4. /\ own.conds \in Seq(Condition) /\ own.logic \in Seq(Lexeme)
      /\ chart.conds # <<>> => own.conds = chart.conds /\ own.logic = chart.logic
      /\ chart.conds = <<>> => own.logic = <<>>
      /\ chart.conds = <<>> /\ chart.filters = <<>> /\ ~chart.openOnly => own.conds = <<>>
  BY <1>2, OwnIs
<1>5. plain.conds = chart.conds /\ plain.logic = chart.logic
  OBVIOUS
<1>6. w = buildChartWhere(asked, <<>>)
  BY DEF Where
<1>7. MaxConditions \in Nat
  BY LimitsAssumption
<1> DEFINE both == {r \in table : Meaning(view, r) /\ Meaning(own, r)}
<1> SUFFICES /\ view.conds = <<>> => (w.bad <=> ~Answerable(own))
             /\ Answerable(view) /\ Answerable(own)
                  /\ (chart.conds = <<>> => chart.filters = <<>> /\ ~chart.openOnly)
                => IF Len(view.conds) + Len(own.conds) > MaxConditions THEN w.bad
                   ELSE ~w.bad /\ Selected(table, w) = both
  BY DEF ScopeHonoured
<1>8. ASSUME asked.conds \in Seq(Condition), asked.logic \in Seq(Lexeme)
      PROVE  /\ w.bad <=> ~Answerable(asked)
             /\ ~w.bad => Selected(table, w) = {r \in table : Meaning(asked, r)}
  <2> DEFINE a == asked
  <2>1. a.conds \in Seq(Condition) /\ a.logic \in Seq(Lexeme)
    BY <1>8
  <2> HIDE DEF a
  <2> QED BY <1>6, <1>7, <2>1, SelectedIs DEF a
<1>9. CASE view.conds = <<>>
  <2>1. m = plain
    BY <1>9 DEF mergeScope
  <2>2. asked = own
    <3>1. /\ Resolved.conds = chart.conds /\ Resolved.logic = chart.logic
          /\ Resolved.filters = chart.filters /\ Resolved.openOnly = chart.openOnly
      BY <1>3, <1>5, <2>1
    <3> QED BY <3>1, OwnOf
  <2> HIDE DEF own, w, asked
  <2>3. w.bad <=> ~Answerable(own)
    BY <1>4, <1>8, <2>2
  <2>4. ASSUME Answerable(view), Answerable(own)
        PROVE  ~w.bad /\ Selected(table, w) = both /\ ~(Len(view.conds) + Len(own.conds) > MaxConditions)
    <3>1. \A r : Meaning(view, r)
      BY <1>2, <1>9, <2>4, NoConditions
    <3>2. Selected(table, w) = {r \in table : Meaning(own, r)}
      BY <1>4, <1>8, <2>2, <2>3, <2>4
    <3>3. Len(view.conds) = 0 /\ Len(own.conds) =< MaxConditions /\ Len(own.conds) \in Nat
      BY <1>4, <1>9, <2>4 DEF Answerable
    <3> QED BY <1>7, <2>3, <2>4, <3>1, <3>2, <3>3
  <2> QED BY <2>3, <2>4
<1>10. CASE view.conds # <<>> /\ chart.conds = <<>>
  <2>1. m = view
    BY <1>5, <1>10 DEF mergeScope
  <2>2. asked.conds = view.conds /\ asked.logic = view.logic
    BY <1>3, <1>10, <2>1 DEF specConditions
  <2> HIDE DEF own, w, asked
  <2>3. ASSUME Answerable(view), Answerable(own), own.conds = <<>>
        PROVE  ~w.bad /\ Selected(table, w) = both /\ ~(Len(view.conds) + Len(own.conds) > MaxConditions)
    <3>1. Answerable(asked) /\ \A r : Meaning(asked, r) <=> Meaning(view, r)
      BY <2>2, <2>3 DEF Answerable, Meaning
    <3>2. \A r : Meaning(own, r)
      BY <1>4, <2>3, NoConditions
    <3>3. ~w.bad /\ Selected(table, w) = {r \in table : Meaning(asked, r)}
      BY <1>2, <1>8, <2>2, <3>1
    <3>4. Len(own.conds) = 0 /\ Len(view.conds) =< MaxConditions /\ Len(view.conds) \in Nat
      BY <1>2, <2>3 DEF Answerable
    <3> QED BY <1>7, <3>1, <3>2, <3>3, <3>4
  <2> QED BY <1>4, <1>10, <2>3
<1>11. CASE view.conds # <<>> /\ chart.conds # <<>>
  <2>1. own.conds = plain.conds /\ own.logic = plain.logic
    BY <1>4, <1>5, <1>11
  <2> HIDE DEF own, plain
  <2>2. (Answerable(own) <=> Answerable(plain)) /\ \A r : Meaning(own, r) <=> Meaning(plain, r)
    BY <2>1 DEF Answerable, Meaning
  <2>3. ASSUME Answerable(view), Answerable(own)
        PROVE  IF Len(view.conds) + Len(own.conds) > MaxConditions THEN w.bad
               ELSE ~w.bad /\ Selected(table, w) = both
    <3>1. /\ plain.conds \in Seq(Condition) /\ plain.logic \in Seq(Lexeme)
          /\ plain.conds # <<>> /\ Answerable(plain)
      BY <1>2, <1>5, <1>11, <2>2, <2>3
    <3>2. /\ m.conds \in Seq(Condition) /\ m.logic \in Seq(Lexeme)
          /\ Len(m.conds) = Len(view.conds) + Len(plain.conds)
          /\ Answerable(m) <=> Len(m.conds) <= MaxConditions
          /\ \A r : Meaning(m, r) <=> Meaning(view, r) /\ Meaning(plain, r)
      BY <1>2, <1>7, <1>11, <2>3, <3>1, MergedIs
    <3> HIDE DEF m
    <3>3. Len(view.conds) \in Nat /\ Len(plain.conds) \in Nat /\ Len(view.conds) # 0
      BY <1>2, <1>11, <3>1
    <3>4. m.conds # <<>>
      <4> DEFINE x == m.conds
                 n == Len(view.conds)
                 k == Len(plain.conds)
      <4>1. Len(x) = n + k /\ n \in Nat /\ n # 0 /\ k \in Nat
        BY <3>2, <3>3
      <4> HIDE DEF x, n, k
      <4>2. Len(x) # 0
        BY <4>1
      <4>3. x # <<>>
        BY <4>2
      <4> QED BY <4>3 DEF x
    <3>5. asked.conds = m.conds /\ asked.logic = m.logic
      BY <1>3, <3>4 DEF specConditions
    <3> HIDE DEF w, asked
    <3>6. (Answerable(asked) <=> Answerable(m)) /\ \A r : Meaning(asked, r) <=> Meaning(m, r)
      BY <3>5 DEF Answerable, Meaning
    <3>7. /\ w.bad <=> ~Answerable(asked)
          /\ ~w.bad => Selected(table, w) = {r \in table : Meaning(asked, r)}
      BY <1>8, <3>2, <3>5
    <3>8. Len(own.conds) = Len(plain.conds)
      BY <2>1
    <3>9. w.bad <=> Len(view.conds) + Len(own.conds) > MaxConditions
      <4> DEFINE n == Len(view.conds)
                 k == Len(plain.conds)
      <4>1. n \in Nat /\ k \in Nat /\ (w.bad <=> ~(n + k <= MaxConditions)) /\ Len(own.conds) = k
        BY <3>2, <3>3, <3>6, <3>7, <3>8
      <4> HIDE DEF n, k
      <4>2. n + k <= MaxConditions <=> ~(n + k > MaxConditions)
        BY <1>7, <4>1
      <4> QED BY <4>1, <4>2 DEF n
    <3>10. \A r : Meaning(asked, r) <=> Meaning(view, r) /\ Meaning(own, r)
      BY <2>2, <3>2, <3>6
    <3>11. ~w.bad => Selected(table, w) = both
      BY <3>7, <3>10
    <3> HIDE DEF both
    <3> QED BY <3>9, <3>11
  <2> QED BY <1>11, <2>3
<1> QED BY <1>9, <1>10, <1>11

\* A chart read through a view selects the rows that satisfy the view's scope
\* and the chart's own filter, whatever is asked, of whatever table.
THEOREM ScopesAreHonoured == Spec => []ScopeHonoured
<1>1. Init => Posed
  BY DEF Init, Posed
<1>2. Posed /\ [Next]_vars => Posed'
  <2> SUFFICES ASSUME Posed, [Next]_vars PROVE UNCHANGED <<view, chart>>
    BY DEF Posed
  <2>1. CASE UNCHANGED vars
    BY <2>1 DEF vars
  <2>2. ASSUME NEW built \in BOOLEAN, Open(built) PROVE UNCHANGED <<view, chart>>
    BY <2>2 DEF Open
  <2>3. ASSUME NEW b, NEW built \in BOOLEAN, onSectionClick(b, built) PROVE UNCHANGED <<view, chart>>
    BY <2>3 DEF onSectionClick
  <2>4. ASSUME NEW level, NEW built \in BOOLEAN, jumpTo(level, built) PROVE UNCHANGED <<view, chart>>
    BY <2>4 DEF jumpTo
  <2>5. ASSUME NEW b, ShowRecords(b) PROVE UNCHANGED <<view, chart>>
    BY <2>5 DEF ShowRecords
  <2>6. CASE previewQuery \/ previewDrill
    BY <2>6 DEF previewQuery, previewDrill
  <2> QED BY <2>1, <2>2, <2>3, <2>4, <2>5, <2>6 DEF Next
<1> QED BY <1>1, <1>2, PosedIsHonoured, PTL DEF Spec

(***************************************************************************)
(* Sums over finite sets, as functions: what a fold adds up, in an order of*)
(* its own, does not depend on that order and can be added up in parts.    *)
(***************************************************************************)
LEMMA FiniteInduction ==
  ASSUME NEW S, IsFiniteSet(S), NEW G, {} \in G,
         \A T \in SUBSET S : \A x \in S \ T : T \in G => T \cup {x} \in G
  PROVE  SUBSET S \subseteq G
<1> DEFINE N == {n \in Nat : \A T \in SUBSET S : Cardinality(T) = n => T \in G}
<1>1. \A T \in SUBSET S : IsFiniteSet(T) /\ Cardinality(T) \in Nat
  BY FS_Subset, FS_CardinalityType
<1>2. 0 \in N
  BY <1>1, FS_EmptySet
<1>3. ASSUME NEW n \in Nat, n \in N PROVE n + 1 \in N
  <2> SUFFICES ASSUME NEW T \in SUBSET S, Cardinality(T) = n + 1 PROVE T \in G
    OBVIOUS
  <2>0. n + 1 # 0 /\ (n + 1) - 1 = n
    OBVIOUS
  <2>1. T # {}
    BY <2>0, FS_EmptySet
  <2>2. PICK x \in T : TRUE
    BY <2>1
  <2>3. Cardinality(T \ {x}) = Cardinality(T) - 1
    BY <1>1, FS_RemoveElement
  <2>4. T \ {x} \in G
    BY <1>3, <2>0, <2>3
  <2>5. (T \ {x}) \cup {x} = T
    OBVIOUS
  <2> QED BY <2>4, <2>5
<1> HIDE DEF N
<1>4. Nat \subseteq N
  BY <1>2, <1>3, SetInduction
<1> QED BY <1>1, <1>4 DEF N

One(s) == CHOOSE x \in s : TRUE
SumsUp(g, f, S) ==
  \A s \in SUBSET S : g[s] = IF s = {} THEN 0 ELSE f[One(s)] + g[s \ {One(s)}]
IsSum(g, f, S) == g \in [SUBSET S -> Int] /\ SumsUp(g, f, S)
SumOf(f, S) == (CHOOSE g : IsSum(g, f, S))[S]

LEMMA OneOf == ASSUME NEW s, s # {} PROVE One(s) \in s
BY DEF One

LEMMA SumExists ==
  ASSUME NEW S, IsFiniteSet(S), NEW f, \A x \in S : f[x] \in Int
  PROVE  \E g : IsSum(g, f, S)
<1> DEFINE X == [SUBSET S -> Int]
           N == Cardinality(S)
           next(h) == [s \in SUBSET S |-> IF s = {} THEN 0 ELSE f[One(s)] + h[s \ {One(s)}]]
           G == [p \in (1..N) \X X |-> next(p[2])]
           zero == [s \in SUBSET S |-> 0]
<1>1. N \in Nat /\ \A s \in SUBSET S : IsFiniteSet(s) /\ Cardinality(s) \in 0..N
  <2>1. N \in Nat /\ \A s \in SUBSET S : IsFiniteSet(s) /\ Cardinality(s) <= N
    BY FS_Subset, FS_CardinalityType
  <2> HIDE DEF N
  <2>2. \A s \in SUBSET S : Cardinality(s) \in Nat
    BY <2>1, FS_CardinalityType
  <2> QED BY <2>1, <2>2
<1> HIDE DEF N
<1>2. ASSUME NEW h \in X PROVE next(h) \in X
  <2>1. ASSUME NEW s \in SUBSET S, s # {} PROVE f[One(s)] \in Int /\ h[s \ {One(s)}] \in Int
    BY <2>1, OneOf
  <2> QED BY <2>1
<1>3. zero \in X
  OBVIOUS
<1> HIDE DEF next, zero
<1>4. G \in Steps(N, X) /\ \A n \in 1..N, h \in X : G[<<n, h>>] = next(h)
  BY <1>2 DEF Steps
<1> HIDE DEF G, X
<1>5. PICK t : Iterates(t, N, X, zero, G)
  BY <1>1, <1>3, <1>4, IterationExists
<1> DEFINE g == [s \in SUBSET S |-> t[Cardinality(s)][s]]
<1>6. g \in [SUBSET S -> Int]
  <2> SUFFICES ASSUME NEW s \in SUBSET S PROVE t[Cardinality(s)][s] \in Int
    OBVIOUS
  <2> DEFINE n == Cardinality(s)
  <2>1. n \in 0..N
    BY <1>1
  <2> HIDE DEF n
  <2>2. t[n] \in X
    BY <1>5, <2>1 DEF Iterates
  <2>3. t[n][s] \in Int
    BY <2>2 DEF X
  <2> QED BY <2>3 DEF n
<1>7. ASSUME NEW s \in SUBSET S
      PROVE  g[s] = IF s = {} THEN 0 ELSE f[One(s)] + g[s \ {One(s)}]
  <2>1. CASE s = {}
    <3>1. Cardinality(s) = 0
      BY <2>1, FS_EmptySet
    <3>2. t[0] = zero
      BY <1>5 DEF Iterates
    <3> QED BY <2>1, <3>1, <3>2 DEF zero
  <2>2. CASE s # {}
    <3> DEFINE r == s \ {One(s)}
               n == Cardinality(s)
    <3>1. n \in 0..N /\ n # 0 /\ Cardinality(r) = n - 1 /\ r \in SUBSET S
      <4>1. n \in 0..N /\ n # 0
        BY <1>1, <2>2, FS_EmptySet
      <4>2. Cardinality(r) = n - 1
        BY <1>1, <2>2, OneOf, FS_RemoveElement
      <4> QED BY <4>1, <4>2
    <3> HIDE DEF n
    <3>2. n \in 1..N /\ n - 1 \in 0..N
      BY <1>1, <3>1
    <3>3. t[n] = G[<<n, t[n - 1]>>] /\ t[n - 1] \in X
      BY <1>5, <3>2 DEF Iterates
    <3>4. t[n] = next(t[n - 1])
      BY <1>4, <3>2, <3>3
    <3>5. t[n][s] = f[One(s)] + t[n - 1][r]
      BY <2>2, <3>4 DEF next
    <3>6. g[s] = t[n][s] /\ g[r] = t[n - 1][r]
      BY <3>1 DEF n
    <3> QED BY <2>2, <3>5, <3>6
  <2> QED BY <2>1, <2>2
<1> HIDE DEF g
<1> QED BY <1>6, <1>7 DEF IsSum, SumsUp

\* Two ways of adding up the same numbers have the same result.
LEMMA SumUnique ==
  ASSUME NEW S, NEW T, NEW R, R \subseteq S, R \subseteq T, IsFiniteSet(R),
         NEW f, NEW e, \A x \in R : f[x] = e[x],
         NEW g, SumsUp(g, f, S), NEW h, SumsUp(h, e, T)
  PROVE  g[R] = h[R]
<1> DEFINE N == {n \in Nat : \A s \in SUBSET R : Cardinality(s) = n => g[s] = h[s]}
<1>1. \A s \in SUBSET R : IsFiniteSet(s) /\ Cardinality(s) \in Nat /\ s \in SUBSET S /\ s \in SUBSET T
  BY FS_Subset, FS_CardinalityType
<1>2. 0 \in N
  <2> SUFFICES ASSUME NEW s \in SUBSET R, Cardinality(s) = 0 PROVE g[s] = h[s]
    OBVIOUS
  <2>1. s = {}
    BY <1>1, FS_EmptySet
  <2> QED BY <1>1, <2>1 DEF SumsUp
<1>3. ASSUME NEW n \in Nat, n \in N PROVE n + 1 \in N
  <2> SUFFICES ASSUME NEW s \in SUBSET R, Cardinality(s) = n + 1 PROVE g[s] = h[s]
    OBVIOUS
  <2> DEFINE r == s \ {One(s)}
  <2>1. s # {}
    BY FS_EmptySet
  <2>2. One(s) \in s /\ One(s) \in R
    BY <2>1, OneOf
  <2>3. Cardinality(r) = n /\ r \in SUBSET R
    BY <1>1, <2>2, FS_RemoveElement
  <2>4. g[r] = h[r]
    BY <1>3, <2>3
  <2> HIDE DEF r
  <2>5. g[s] = f[One(s)] + g[r] /\ h[s] = e[One(s)] + h[r]
    BY <1>1, <2>1 DEF SumsUp, r
  <2> QED BY <2>2, <2>4, <2>5
<1> HIDE DEF N
<1>4. Nat \subseteq N
  BY <1>2, <1>3, SetInduction
<1> QED BY <1>1, <1>4 DEF N

LEMMA SumIs ==
  ASSUME NEW S, NEW T, S \subseteq T, IsFiniteSet(T), NEW f, \A x \in T : f[x] \in Int,
         NEW e, \A x \in S : f[x] = e[x], NEW g, IsSum(g, e, T)
  PROVE  SumOf(f, S) = g[S] /\ SumOf(f, S) \in Int
<1>1. IsFiniteSet(S) /\ \A x \in S : f[x] \in Int
  BY FS_Subset
<1> DEFINE h == CHOOSE h : IsSum(h, f, S)
<1>2. IsSum(h, f, S)
  BY <1>1, SumExists
<1> HIDE DEF h
<1>3. h[S] = g[S]
  BY <1>1, <1>2, SumUnique DEF IsSum
<1>4. h[S] \in Int
  BY <1>2 DEF IsSum, SumsUp
<1> QED BY <1>3, <1>4 DEF SumOf, h

Adds(f, S) == IsFiniteSet(S) /\ \A x \in S : f[x] \in Int

LEMMA SumType == ASSUME NEW S, NEW f, Adds(f, S) PROVE SumOf(f, S) \in Int
<1>1. PICK g : IsSum(g, f, S)
  BY SumExists DEF Adds
<1> QED BY <1>1, SumIs DEF Adds

LEMMA SumNone == ASSUME NEW f PROVE SumOf(f, {}) = 0
<1>1. PICK g : IsSum(g, f, {})
  BY SumExists, FS_EmptySet
<1>2. SumOf(f, {}) = g[{}]
  BY <1>1, SumIs, FS_EmptySet
<1> QED BY <1>1, <1>2 DEF IsSum, SumsUp

LEMMA SumLocal ==
  ASSUME NEW S, NEW f, Adds(f, S), NEW e, \A x \in S : f[x] = e[x]
  PROVE  SumOf(f, S) = SumOf(e, S)
<1>1. PICK g : IsSum(g, e, S)
  BY SumExists DEF Adds
<1>2. SumOf(f, S) = g[S]
  BY <1>1, SumIs DEF Adds
<1>3. SumOf(e, S) = g[S]
  BY <1>1, SumIs DEF Adds
<1> QED BY <1>2, <1>3

LEMMA SumFirst ==
  ASSUME NEW S, NEW f, Adds(f, S), S # {}
  PROVE  SumOf(f, S) = f[One(S)] + SumOf(f, S \ {One(S)})
<1>1. PICK g : IsSum(g, f, S)
  BY SumExists DEF Adds
<1>2. SumOf(f, S) = g[S] /\ SumOf(f, S \ {One(S)}) = g[S \ {One(S)}]
  BY <1>1, SumIs DEF Adds
<1> QED BY <1>1, <1>2 DEF IsSum, SumsUp

LEMMA AddsLess ==
  ASSUME NEW S, NEW f, Adds(f, S), NEW T, T \subseteq S
  PROVE  Adds(f, T)
BY FS_Subset DEF Adds

\* Whichever is taken first.
LEMMA SumWithout ==
  ASSUME NEW S, NEW f, Adds(f, S), NEW x \in S
  PROVE  SumOf(f, S) = f[x] + SumOf(f, S \ {x})
<1> DEFINE N == {n \in Nat : \A s \in SUBSET S : Cardinality(s) = n =>
                   \A y \in s : SumOf(f, s) = f[y] + SumOf(f, s \ {y})}
<1>1. \A s \in SUBSET S : Adds(f, s) /\ IsFiniteSet(s) /\ Cardinality(s) \in Nat
  BY FS_Subset, FS_CardinalityType DEF Adds
<1>2. 0 \in N
  BY <1>1, FS_EmptySet
<1>3. ASSUME NEW n \in Nat, n \in N PROVE n + 1 \in N
  <2> SUFFICES ASSUME NEW s \in SUBSET S, Cardinality(s) = n + 1, NEW y \in s
               PROVE  SumOf(f, s) = f[y] + SumOf(f, s \ {y})
    OBVIOUS
  <2> DEFINE o == One(s)
             r == s \ {o}
             t == s \ {y}
  <2>1. o \in s
    BY OneOf
  <2>2. SumOf(f, s) = f[o] + SumOf(f, r)
    BY <1>1, SumFirst
  <2> HIDE DEF o
  <2>3. CASE y = o
    BY <2>2, <2>3
  <2>4. CASE y # o
    <3>0. (n + 1) - 1 = n
      OBVIOUS
    <3>1. Cardinality(r) = n /\ Cardinality(t) = n /\ r \in SUBSET S /\ t \in SUBSET S
      BY <1>1, <2>1, <3>0, FS_RemoveElement
    <3>2. y \in r /\ o \in t /\ r \ {y} = t \ {o}
      BY <2>1, <2>4
    <3>3. SumOf(f, r) = f[y] + SumOf(f, r \ {y})
      BY <1>3, <3>1, <3>2
    <3>4. SumOf(f, t) = f[o] + SumOf(f, t \ {o})
      BY <1>3, <3>1, <3>2
    <3>5. f[y] \in Int /\ f[o] \in Int /\ SumOf(f, r \ {y}) \in Int
      <4>1. r \ {y} \in SUBSET S /\ y \in S /\ o \in S
        BY <2>1, <3>1
      <4> QED BY <1>1, <4>1, SumType DEF Adds
    <3> DEFINE a == SumOf(f, r \ {y})
               u == SumOf(f, r)
               v == SumOf(f, t)
    <3>6. u = f[y] + a /\ v = f[o] + a /\ SumOf(f, s) = f[o] + u /\ a \in Int
      BY <2>2, <3>2, <3>3, <3>4, <3>5
    <3> HIDE DEF a, u
    <3>7. SumOf(f, s) = f[y] + v
      <4> HIDE DEF v
      <4> QED BY <3>5, <3>6
    <3> QED BY <3>7
  <2> QED BY <2>3, <2>4
<1> HIDE DEF N
<1>4. Nat \subseteq N
  BY <1>2, <1>3, SetInduction
<1>5. Cardinality(S) \in N
  BY <1>1, <1>4
<1> QED BY <1>5 DEF N

LEMMA SumWith ==
  ASSUME NEW S, NEW f, NEW x, x \notin S, Adds(f, S \cup {x})
  PROVE  SumOf(f, S \cup {x}) = f[x] + SumOf(f, S)
<1>1. (S \cup {x}) \ {x} = S
  OBVIOUS
<1>2. x \in S \cup {x}
  OBVIOUS
<1> QED BY <1>1, <1>2, SumWithout

\* In two parts.
LEMMA SumSplit ==
  ASSUME NEW A, NEW B, NEW f, A \cap B = {}, Adds(f, A \cup B)
  PROVE  SumOf(f, A \cup B) = SumOf(f, A) + SumOf(f, B)
<1> DEFINE G == {T \in SUBSET A : SumOf(f, T \cup B) = SumOf(f, T) + SumOf(f, B)}
<1>1. Adds(f, A) /\ Adds(f, B)
  BY AddsLess
<1>2. {} \in G
  <2>1. {} \cup B = B /\ SumOf(f, {}) = 0 /\ SumOf(f, B) \in Int
    BY <1>1, SumNone, SumType
  <2> QED BY <2>1
<1>3. ASSUME NEW T \in SUBSET A, NEW x \in A \ T, T \in G PROVE T \cup {x} \in G
  <2>1. (T \cup {x}) \cup B = (T \cup B) \cup {x} /\ x \notin T \cup B
    OBVIOUS
  <2>2. Adds(f, (T \cup B) \cup {x}) /\ Adds(f, T \cup {x}) /\ Adds(f, T)
    BY <1>1, AddsLess
  <2>3. SumOf(f, (T \cup B) \cup {x}) = f[x] + SumOf(f, T \cup B)
    BY <2>1, <2>2, SumWith
  <2>4. SumOf(f, T \cup {x}) = f[x] + SumOf(f, T)
    BY <2>2, SumWith
  <2>5. SumOf(f, T) \in Int /\ SumOf(f, B) \in Int /\ f[x] \in Int
    BY <1>1, <2>2, SumType DEF Adds
  <2>6. SumOf(f, T \cup B) = SumOf(f, T) + SumOf(f, B)
    BY <1>3
  <2> DEFINE p == SumOf(f, T)
             q == SumOf(f, B)
             u == SumOf(f, T \cup B)
             v == SumOf(f, T \cup {x})
             w == SumOf(f, (T \cup B) \cup {x})
  <2>7. w = f[x] + u /\ v = f[x] + p /\ u = p + q /\ p \in Int /\ q \in Int /\ f[x] \in Int
    BY <2>3, <2>4, <2>5, <2>6
  <2> HIDE DEF p, q, u, v, w
  <2>8. w = v + q
    BY <2>7
  <2> QED BY <2>1, <2>8 DEF w, v, q
<1> HIDE DEF G
<1>4. A \in G
  BY <1>1, <1>2, <1>3, FiniteInduction DEF Adds
<1> QED BY <1>4 DEF G

\* One for each is how many there are.
LEMMA SumOfOnes ==
  ASSUME NEW S, IsFiniteSet(S), NEW f, \A x \in S : f[x] = 1
  PROVE  SumOf(f, S) = Cardinality(S)
<1> DEFINE G == {T \in SUBSET S : SumOf(f, T) = Cardinality(T)}
<1>0. Adds(f, S)
  BY DEF Adds
<1>1. {} \in G
  BY SumNone, FS_EmptySet
<1>2. ASSUME NEW T \in SUBSET S, NEW x \in S \ T, T \in G PROVE T \cup {x} \in G
  <2>1. IsFiniteSet(T) /\ Cardinality(T) \in Nat /\ Adds(f, T \cup {x})
    BY <1>0, FS_Subset, FS_CardinalityType, AddsLess
  <2>2. SumOf(f, T \cup {x}) = f[x] + SumOf(f, T)
    BY <2>1, SumWith
  <2>3. Cardinality(T \cup {x}) = Cardinality(T) + 1
    BY <2>1, FS_AddElement
  <2> QED BY <1>2, <2>1, <2>2, <2>3
<1> HIDE DEF G
<1>3. S \in G
  BY <1>1, <1>2, FiniteInduction
<1> QED BY <1>3 DEF G

\* Between as many times the least and as many times the greatest.
LEMMA SumBetween ==
  ASSUME NEW S, IsFiniteSet(S), NEW f, NEW lo \in Int, NEW hi \in Int,
         \A x \in S : f[x] \in Int /\ lo <= f[x] /\ f[x] <= hi
  PROVE  /\ SumOf(f, S) \in Int /\ Cardinality(S) \in Nat
         /\ lo * Cardinality(S) <= SumOf(f, S) /\ SumOf(f, S) <= hi * Cardinality(S)
<1> DEFINE G == {T \in SUBSET S : lo * Cardinality(T) <= SumOf(f, T)
                                  /\ SumOf(f, T) <= hi * Cardinality(T)}
<1>0. Adds(f, S)
  BY DEF Adds
<1>1. {} \in G
  <2>1. SumOf(f, {}) = 0 /\ Cardinality({}) = 0
    BY SumNone, FS_EmptySet
  <2> QED BY <2>1
<1>2. ASSUME NEW T \in SUBSET S, NEW x \in S \ T, T \in G PROVE T \cup {x} \in G
  <2>1. IsFiniteSet(T) /\ Cardinality(T) \in Nat /\ Adds(f, T \cup {x}) /\ Adds(f, T)
    BY <1>0, FS_Subset, FS_CardinalityType, AddsLess
  <2>2. SumOf(f, T \cup {x}) = f[x] + SumOf(f, T)
    BY <2>1, SumWith
  <2>3. Cardinality(T \cup {x}) = Cardinality(T) + 1
    BY <2>1, FS_AddElement
  <2>4. SumOf(f, T) \in Int
    BY <2>1, SumType
  <2> DEFINE n == Cardinality(T)
             s == SumOf(f, T)
             m == Cardinality(T \cup {x})
             t == SumOf(f, T \cup {x})
  <2>5. /\ n \in Nat /\ s \in Int /\ m = n + 1 /\ t = f[x] + s
        /\ lo * n <= s /\ s <= hi * n /\ f[x] \in Int /\ lo <= f[x] /\ f[x] <= hi
    BY <1>2, <2>1, <2>2, <2>3, <2>4
  <2> HIDE DEF n, s, m, t
  <2>6. lo * (n + 1) = lo * n + lo /\ hi * (n + 1) = hi * n + hi /\ lo * n \in Int /\ hi * n \in Int
    BY <2>5
  <2>7. lo * m <= t /\ t <= hi * m
    BY <2>5, <2>6
  <2> QED BY <2>7 DEF m, t
<1> HIDE DEF G
<1>3. S \in G
  BY <1>1, <1>2, FiniteInduction
<1> QED BY <1>0, <1>3, SumType, FS_CardinalityType DEF G

\* Part by part: e has the sum of each part.
\* The elements of a part, when h gives the part of each.
Part(S, h, k) == {x \in S : h[x] = k}

LEMMA SumByParts ==
  ASSUME NEW S, NEW f, Adds(f, S), NEW K, IsFiniteSet(K), NEW h, \A x \in S : h[x] \in K,
         NEW e, \A k \in K : e[k] = SumOf(f, Part(S, h, k))
  PROVE  Adds(e, K) /\ SumOf(f, S) = SumOf(e, K)
<1> DEFINE PartOf(L) == {x \in S : h[x] \in L}
           G == {L \in SUBSET K : SumOf(f, PartOf(L)) = SumOf(e, L)}
<1>1. Adds(e, K)
  <2> SUFFICES ASSUME NEW k \in K PROVE SumOf(f, Part(S, h, k)) \in Int
    BY DEF Adds
  <2>1. Adds(f, Part(S, h, k))
    BY AddsLess DEF Part
  <2> QED BY <2>1, SumType
<1>2. {} \in G
  <2>1. PartOf({}) = {}
    OBVIOUS
  <2> QED BY <2>1, SumNone
<1>3. ASSUME NEW L \in SUBSET K, NEW k \in K \ L, L \in G PROVE L \cup {k} \in G
  <2> DEFINE A == PartOf(L)
             B == Part(S, h, k)
  <2>1. PartOf(L \cup {k}) = A \cup B /\ A \cap B = {} /\ A \cup B \subseteq S
    BY DEF Part
  <2>2. SumOf(f, A) = SumOf(e, L) /\ SumOf(f, B) = e[k]
    BY <1>3
  <2>3. Adds(e, L \cup {k})
    BY <1>1, AddsLess
  <2> HIDE DEF A, B
  <2>4. Adds(f, A \cup B)
    BY <2>1, AddsLess
  <2>5. SumOf(f, A \cup B) = SumOf(f, A) + SumOf(f, B)
    BY <2>1, <2>4, SumSplit
  <2>6. SumOf(e, L \cup {k}) = e[k] + SumOf(e, L)
    BY <2>3, SumWith
  <2>7. e[k] \in Int /\ SumOf(e, L) \in Int
    <3>1. Adds(e, L)
      BY <1>1, AddsLess
    <3> QED BY <1>1, <3>1, SumType DEF Adds
  <2>8. SumOf(f, A \cup B) = SumOf(e, L \cup {k})
    BY <2>2, <2>5, <2>6, <2>7
  <2> HIDE DEF Of
  <2> QED BY <2>1, <2>8
<1> HIDE DEF G
<1>4. K \in G
  BY <1>2, <1>3, FiniteInduction
<1>5. PartOf(K) = S
  OBVIOUS
<1> QED BY <1>1, <1>4, <1>5 DEF G

LEMMA SummedIs ==
  ASSUME NEW S, IsFiniteSet(S), NEW f, \A x \in S : f[x] \in Int, NEW i, SumsUp(i, f, S)
  PROVE  i[S] = SumOf(f, S)
<1>1. PICK g : IsSum(g, f, S)
  BY SumExists
<1>2. i[S] = g[S]
  BY <1>1, SumUnique DEF IsSum
<1> QED BY <1>1, <1>2, SumIs

\* The sums of the model.
LEMMA DrawnSumIs ==
  ASSUME NEW S, IsFiniteSet(S), NEW f, \A b \in S : Drawn(b) \in Int /\ f[b] = Drawn(b)
  PROVE  DrawnSum(S) = SumOf(f, S)
<1> DEFINE iter == CHOOSE iter : iter = [s \in SUBSET S |->
                     IF s = {} THEN 0 ELSE Drawn(One(s)) + iter[s \ {One(s)}]]
<1>1. DrawnSum(S) = iter[S]
  BY DEF DrawnSum, MapThenSumSet, MapThenFoldSet, One
<1>2. PICK g : IsSum(g, f, S)
  BY SumExists
<1>3. g = [s \in SUBSET S |-> IF s = {} THEN 0 ELSE Drawn(One(s)) + g[s \ {One(s)}]]
  <2>1. \A s \in SUBSET S : s # {} => f[One(s)] = Drawn(One(s))
    BY OneOf
  <2>2. \A s \in SUBSET S : g[s] = IF s = {} THEN 0 ELSE Drawn(One(s)) + g[s \ {One(s)}]
    BY <1>2, <2>1 DEF IsSum, SumsUp
  <2>3. g = [s \in SUBSET S |-> g[s]]
    BY <1>2 DEF IsSum, SumsUp
  <2> QED BY <2>2, <2>3
<1>4. iter = [s \in SUBSET S |-> IF s = {} THEN 0 ELSE Drawn(One(s)) + iter[s \ {One(s)}]]
  BY <1>3
<1>5. SumsUp(iter, f, S)
  <2>1. \A s \in SUBSET S : s # {} => f[One(s)] = Drawn(One(s))
    BY OneOf
  <2> DEFINE i == iter
  <2>2. i = [s \in SUBSET S |-> IF s = {} THEN 0 ELSE Drawn(One(s)) + i[s \ {One(s)}]]
    BY <1>4
  <2> HIDE DEF i
  <2>3. \A s \in SUBSET S : i[s] = IF s = {} THEN 0 ELSE Drawn(One(s)) + i[s \ {One(s)}]
    BY <2>2
  <2>4. SumsUp(i, f, S)
    BY <2>1, <2>3 DEF SumsUp
  <2> QED BY <2>4 DEF i
<1> HIDE DEF iter
<1>6. iter[S] = SumOf(f, S)
  BY <1>5, SummedIs
<1> QED BY <1>1, <1>6

LEMMA ColumnSumIs ==
  ASSUME NEW S, NEW col, IsFiniteSet(S), NEW f, \A b \in S : b[col] \in Int /\ f[b] = b[col]
  PROVE  ColumnSum(S, col) = SumOf(f, S)
<1> DEFINE iter == CHOOSE iter : iter = [s \in SUBSET S |->
                     IF s = {} THEN 0 ELSE One(s)[col] + iter[s \ {One(s)}]]
<1>1. ColumnSum(S, col) = iter[S]
  BY DEF ColumnSum, MapThenSumSet, MapThenFoldSet, One
<1>2. PICK g : IsSum(g, f, S)
  BY SumExists
<1>3. g = [s \in SUBSET S |-> IF s = {} THEN 0 ELSE One(s)[col] + g[s \ {One(s)}]]
  <2>1. \A s \in SUBSET S : s # {} => f[One(s)] = One(s)[col]
    BY OneOf
  <2>2. \A s \in SUBSET S : g[s] = IF s = {} THEN 0 ELSE One(s)[col] + g[s \ {One(s)}]
    BY <1>2, <2>1 DEF IsSum, SumsUp
  <2>3. g = [s \in SUBSET S |-> g[s]]
    BY <1>2 DEF IsSum, SumsUp
  <2> QED BY <2>2, <2>3
<1>4. iter = [s \in SUBSET S |-> IF s = {} THEN 0 ELSE One(s)[col] + iter[s \ {One(s)}]]
  BY <1>3
<1>5. SumsUp(iter, f, S)
  <2>1. \A s \in SUBSET S : s # {} => f[One(s)] = One(s)[col]
    BY OneOf
  <2> DEFINE i == iter
  <2>2. i = [s \in SUBSET S |-> IF s = {} THEN 0 ELSE One(s)[col] + i[s \ {One(s)}]]
    BY <1>4
  <2> HIDE DEF i
  <2>3. \A s \in SUBSET S : i[s] = IF s = {} THEN 0 ELSE One(s)[col] + i[s \ {One(s)}]
    BY <2>2
  <2>4. SumsUp(i, f, S)
    BY <2>1, <2>3 DEF SumsUp
  <2> QED BY <2>4 DEF i
<1> HIDE DEF iter
<1>6. iter[S] = SumOf(f, S)
  BY <1>5, SummedIs
<1> QED BY <1>1, <1>6

(***************************************************************************)
(* The least and the greatest of a set, and rounded quotients.             *)
(***************************************************************************)
Extremes(S) ==
  /\ Min(S) \in S /\ \A x \in S : Min(S) <= x
  /\ Max(S) \in S /\ \A x \in S : x <= Max(S)

LEMMA ExtremesAre ==
  ASSUME NEW S, S \subseteq Int, IsFiniteSet(S), S # {}
  PROVE  Extremes(S)
<1> DEFINE G == {T \in SUBSET S : T = {} \/ ((\E a \in T : \A x \in T : a <= x)
                                             /\ (\E b \in T : \A x \in T : x <= b))}
<1>1. {} \in G
  OBVIOUS
<1>2. ASSUME NEW T \in SUBSET S, NEW x \in S \ T, T \in G PROVE T \cup {x} \in G
  <2>1. CASE T = {}
    <3>1. \A y \in T \cup {x} : x <= y /\ y <= x
      BY <2>1
    <3> QED BY <3>1
  <2>2. CASE T # {}
    <3>1. PICK a \in T, b \in T : \A y \in T : a <= y /\ y <= b
      BY <1>2, <2>2
    <3>2. \E c \in T \cup {x} : \A y \in T \cup {x} : c <= y
      <4>1. CASE a <= x
        BY <3>1, <4>1
      <4>2. CASE ~(a <= x)
        <5>1. \A y \in T \cup {x} : x <= y
          BY <3>1, <4>2
        <5> QED BY <5>1
      <4> QED BY <4>1, <4>2
    <3>3. \E c \in T \cup {x} : \A y \in T \cup {x} : y <= c
      <4>1. CASE x <= b
        BY <3>1, <4>1
      <4>2. CASE ~(x <= b)
        <5>1. \A y \in T \cup {x} : y <= x
          BY <3>1, <4>2
        <5> QED BY <5>1
      <4> QED BY <4>1, <4>2
    <3> QED BY <3>2, <3>3
  <2> QED BY <2>1, <2>2
<1> HIDE DEF G
<1>3. S \in G
  BY <1>1, <1>2, FiniteInduction
<1>4. (\E a \in S : \A x \in S : a <= x) /\ (\E b \in S : \A x \in S : b >= x)
  BY <1>3 DEF G
<1> QED BY <1>4 DEF Extremes, Min, Max

\* The values of a column.
LEMMA ColumnFinite ==
  ASSUME NEW S, IsFiniteSet(S), NEW col
  PROVE  IsFiniteSet({r[col] : r \in S})
<1> DEFINE V(T) == {r[col] : r \in T}
           G == {T \in SUBSET S : IsFiniteSet(V(T))}
<1>1. {} \in G
  BY FS_EmptySet
<1>2. ASSUME NEW T \in SUBSET S, NEW x \in S \ T, T \in G PROVE T \cup {x} \in G
  <2>1. V(T \cup {x}) = V(T) \cup {x[col]}
    OBVIOUS
  <2>2. IsFiniteSet(V(T))
    BY <1>2
  <2> HIDE DEF V
  <2>3. IsFiniteSet(V(T) \cup {x[col]})
    BY <2>2, FS_AddElement
  <2> QED BY <2>1, <2>3
<1> HIDE DEF G
<1>3. S \in G
  BY <1>1, <1>2, FiniteInduction
<1> QED BY <1>3 DEF G

LEMMA Rounding ==
  ASSUME NEW b \in Nat \ {0}, NEW a \in Int
  PROVE  /\ a \div b \in Int /\ (a \div b) * b <= a /\ a < (a \div b) * b + b
OBVIOUS

\* An average in tenths lies between ten times the least and the greatest.
LEMMA TenthsBetween ==
  ASSUME NEW s \in Int, NEW n \in Nat \ {0}, NEW lo \in Int, NEW hi \in Int,
         lo * n <= s, s <= hi * n
  PROVE  Tenths(s, n) \in Int /\ 10 * lo <= Tenths(s, n) /\ Tenths(s, n) <= 10 * hi
<1> DEFINE q == Tenths(s, n)
           b == 2 * n
           a == 20 * s + n
<1>1. q = a \div b
  BY DEF Tenths
<1>2. b \in Nat \ {0} /\ a \in Int
  OBVIOUS
<1>3. q \in Int /\ q * b <= a /\ a < q * b + b
  BY <1>1, <1>2, Rounding
<1> HIDE DEF q
<1>4. q * b = 2 * (q * n) /\ q * n \in Int
  BY <1>3
<1> DEFINE z == q * n
           l == lo * n
           h == hi * n
<1>5. /\ z \in Int /\ l \in Int /\ h \in Int /\ n \in Nat /\ n > 0
      /\ 2 * z <= 20 * s + n /\ 20 * s + n < 2 * z + 2 * n /\ l <= s /\ s <= h
  BY <1>3, <1>4
<1>6. 10 * lo <= q
  <2> SUFFICES ASSUME ~(10 * lo <= q) PROVE FALSE
    OBVIOUS
  <2>1. q + 1 <= 10 * lo
    BY <1>3
  <2>2. (q + 1) * n <= (10 * lo) * n
    <3>1. \A u \in Int, v \in Int : u <= v => u * n <= v * n
      OBVIOUS
    <3> QED BY <1>3, <2>1, <3>1
  <2>3. (q + 1) * n = z + n /\ (10 * lo) * n = 10 * l
    BY <1>3
  <2> HIDE DEF z, l, h
  <2> QED BY <1>5, <2>2, <2>3
<1>7. q <= 10 * hi
  <2> SUFFICES ASSUME ~(q <= 10 * hi) PROVE FALSE
    OBVIOUS
  <2>1. 10 * hi + 1 <= q
    BY <1>3
  <2>2. (10 * hi + 1) * n <= q * n
    <3>1. \A u \in Int, v \in Int : u <= v => u * n <= v * n
      OBVIOUS
    <3> QED BY <1>3, <2>1, <3>1
  <2>3. (10 * hi + 1) * n = 10 * h + n
    OBVIOUS
  <2> HIDE DEF l, h
  <2>4. 10 * h + n <= z
    BY <2>2, <2>3
  <2> HIDE DEF z
  <2> QED BY <1>5, <2>4
<1> QED BY <1>3, <1>6, <1>7 DEF q

(***************************************************************************)
(* Measures: the records a measure counts, those that have a value for it, *)
(* and the range of what it gives.                                         *)
(***************************************************************************)
Aggregates == {"count", "sum", "avg", "min", "max"}
HasColumn(rows, col) == IsFiniteSet(rows) /\ \A r \in rows : r[col] \in Nat \cup {Null}
ColumnOf(rows, col) == [r \in rows |-> r[col]]

\* The records a measure counts, and those that have a value for it.
Tested(m, rows) ==
  {r \in rows : CASE m.test = "is_null" -> r[m.on] = Null
                  [] m.test = "is_not_null" -> r[m.on] # Null
                  [] OTHER -> TRUE}
Having(m, rows) == {r \in Tested(m, rows) : r[m.col] # Null}

LEMMA HavingIs ==
  ASSUME NEW m, NEW rows, HasColumn(rows, m.col)
  PROVE  /\ IsFiniteSet(Tested(m, rows)) /\ Tested(m, rows) \subseteq rows
         /\ IsFiniteSet(Having(m, rows)) /\ Having(m, rows) \subseteq Tested(m, rows)
         /\ \A r \in Having(m, rows) : r[m.col] \in Nat
<1>1. Tested(m, rows) \subseteq rows /\ Having(m, rows) \subseteq Tested(m, rows)
  BY DEF Tested, Having
<1>2. IsFiniteSet(rows) /\ \A r \in Having(m, rows) : r[m.col] \in Nat
  BY <1>1 DEF HasColumn, Having
<1> QED BY <1>1, <1>2, FS_Subset

LEMMA ColumnSumType ==
  ASSUME NEW S, IsFiniteSet(S), NEW col, \A r \in S : r[col] \in Int
  PROVE  /\ ColumnSum(S, col) = SumOf(ColumnOf(S, col), S)
         /\ Adds(ColumnOf(S, col), S)
<1> DEFINE f == ColumnOf(S, col)
<1>1. \A r \in S : r[col] \in Int /\ f[r] = r[col]
  BY DEF ColumnOf
<1> HIDE DEF f
<1>2. ColumnSum(S, col) = SumOf(f, S)
  BY <1>1, ColumnSumIs
<1>3. Adds(f, S)
  BY <1>1 DEF Adds
<1> QED BY <1>2, <1>3 DEF f

LEMMA MeasureIs ==
  ASSUME NEW m, NEW rows, m.agg \in Aggregates
  PROVE  LET H == Having(m, rows) IN
         /\ m.agg = "count" => MeasureOf(m, rows) = Cardinality(Tested(m, rows))
         /\ m.agg # "count" /\ H = {} => MeasureOf(m, rows) = Null
         /\ m.agg = "sum" /\ H # {} => MeasureOf(m, rows) = ColumnSum(H, m.col)
         /\ m.agg = "avg" /\ H # {}
              => MeasureOf(m, rows) = Tenths(ColumnSum(H, m.col), Cardinality(H))
         /\ m.agg = "min" /\ H # {} => MeasureOf(m, rows) = Min({r[m.col] : r \in H})
         /\ m.agg = "max" /\ H # {} => MeasureOf(m, rows) = Max({r[m.col] : r \in H})
<1> DEFINE in == {r \in rows : CASE m.test = "is_null" -> r[m.on] = Null
                                 [] m.test = "is_not_null" -> r[m.on] # Null
                                 [] OTHER -> TRUE}
           with == {r \in in : r[m.col] # Null}
<1>1. in = Tested(m, rows) /\ with = Having(m, rows)
  BY DEF Tested, Having
<1>2. MeasureOf(m, rows) =
        IF m.agg = "count" THEN Cardinality(in)
        ELSE IF with = {} THEN Null
        ELSE CASE m.agg = "sum" -> ColumnSum(with, m.col)
               [] m.agg = "avg" -> Tenths(ColumnSum(with, m.col), Cardinality(with))
               [] m.agg = "min" -> Min({r[m.col] : r \in with})
               [] m.agg = "max" -> Max({r[m.col] : r \in with})
  BY DEF MeasureOf
<1> HIDE DEF in, with
<1>3. m.agg = "count" => MeasureOf(m, rows) = Cardinality(in)
  BY <1>2
<1>4. m.agg # "count" /\ with = {} => MeasureOf(m, rows) = Null
  BY <1>2
<1> SUFFICES ASSUME m.agg # "count", with # {}
             PROVE  /\ m.agg = "sum" => MeasureOf(m, rows) = ColumnSum(with, m.col)
                    /\ m.agg = "avg" => MeasureOf(m, rows)
                                          = Tenths(ColumnSum(with, m.col), Cardinality(with))
                    /\ m.agg = "min" => MeasureOf(m, rows) = Min({r[m.col] : r \in with})
                    /\ m.agg = "max" => MeasureOf(m, rows) = Max({r[m.col] : r \in with})
  BY <1>1, <1>3, <1>4
<1>5. CASE m.agg = "sum"
  BY <1>2, <1>5
<1>6. CASE m.agg = "avg"
  BY <1>2, <1>6
<1>7. CASE m.agg = "min"
  BY <1>2, <1>7
<1>8. CASE m.agg = "max"
  BY <1>2, <1>8
<1> QED BY <1>5, <1>6, <1>7, <1>8 DEF Aggregates

\* A measure is a natural or nothing; a minimum, a maximum and an average
\* (in tenths) lie within the column, of these rows or of more.
Between(x, unit, column) == unit * Min(column) <= x /\ x <= unit * Max(column)
UnitOf(m) == IF m.agg = "avg" THEN 10 ELSE 1

LEMMA MeasureRange ==
  ASSUME NEW m, NEW rows, m.agg \in Aggregates, HasColumn(rows, m.col),
         NEW T, rows \subseteq T, HasColumn(T, m.col)
  PROVE  LET y == MeasureOf(m, rows)
             column == {r[m.col] : r \in T} \ {Null}
         IN /\ y \in Nat \cup {Null}
            /\ m.agg \in {"min", "max", "avg"} /\ y # Null => Between(y, UnitOf(m), column)
<1> DEFINE y == MeasureOf(m, rows)
           column == {r[m.col] : r \in T} \ {Null}
           H == Having(m, rows)
           own == {r[m.col] : r \in H}
           n == Cardinality(H)
<1>1. IsFiniteSet(Tested(m, rows)) /\ IsFiniteSet(H) /\ H \subseteq T /\ \A r \in H : r[m.col] \in Nat
  BY HavingIs
<1>2. CASE m.agg = "count"
  <2>1. y = Cardinality(Tested(m, rows))
    BY <1>2, MeasureIs
  <2> QED BY <1>1, <1>2, <2>1, FS_CardinalityType
<1>3. CASE m.agg # "count" /\ H = {}
  BY <1>3, MeasureIs
<1>4. CASE m.agg # "count" /\ H # {}
  <2>1. column \subseteq Nat /\ own \subseteq column /\ own # {}
    <3>1. own \subseteq column
      BY <1>1 DEF Null
    <3>2. column \subseteq Nat
      BY DEF HasColumn
    <3> QED BY <1>4, <3>1, <3>2
  <2>2. IsFiniteSet(column) /\ IsFiniteSet(own)
    <3> DEFINE all == {r[m.col] : r \in T}
    <3>1. IsFiniteSet(T) /\ IsFiniteSet(all)
      BY ColumnFinite DEF HasColumn
    <3>2. column \subseteq all
      OBVIOUS
    <3> HIDE DEF all, column
    <3> QED BY <2>1, <3>1, <3>2, FS_Subset
  <2>3. \A r \in H : r[m.col] \in own
    OBVIOUS
  <2> DEFINE lo == Min(column)
             hi == Max(column)
  <2> HIDE DEF column, own, H
  <2>4. Extremes(column) /\ Extremes(own)
    <3>1. column \subseteq Int /\ own \subseteq Int
      BY <2>1
    <3>2. column # {}
      <4>1. PICK v \in own : TRUE
        BY <2>1
      <4> QED BY <2>1, <4>1
    <3> QED BY <2>1, <2>2, <3>1, <3>2, ExtremesAre
  <2>5. lo \in Nat /\ hi \in Nat /\ \A v \in own : v \in Nat /\ lo <= v /\ v <= hi
    BY <2>1, <2>4 DEF Extremes
  <2> HIDE DEF lo, hi
  <2>6. CASE m.agg = "min" \/ m.agg = "max"
    <3>1. y = Min(own) \/ y = Max(own)
      BY <1>4, <2>6, MeasureIs DEF H, own
    <3>2. y \in own
      BY <2>4, <3>1 DEF Extremes
    <3>3. y \in Nat /\ lo <= y /\ y <= hi
      BY <2>5, <3>2
    <3> HIDE DEF y
    <3>4. UnitOf(m) = 1 /\ 1 * lo = lo /\ 1 * hi = hi
      BY <2>5, <2>6 DEF UnitOf
    <3>5. y \in Nat /\ Between(y, UnitOf(m), column)
      BY <3>3, <3>4 DEF Between, lo, hi
    <3> QED BY <3>5 DEF y, column
  <2>7. CASE m.agg = "sum" \/ m.agg = "avg"
    <3> DEFINE f == ColumnOf(H, m.col)
               s == ColumnSum(H, m.col)
    <3>1. s = SumOf(f, H) /\ \A r \in H : f[r] \in Int /\ f[r] = r[m.col]
      <4>1. \A r \in H : r[m.col] \in Int
        BY <1>1 DEF H
      <4>2. IsFiniteSet(H)
        BY <1>1 DEF H
      <4>3. s = SumOf(f, H)
        BY <4>1, <4>2, ColumnSumType
      <4> QED BY <4>1, <4>3 DEF ColumnOf
    <3>2. n \in Nat /\ n # 0 /\ n = Cardinality(H) /\ IsFiniteSet(H)
      BY <1>1, <1>4, FS_CardinalityType, FS_EmptySet DEF H
    <3> HIDE DEF f
    <3>3. \A r \in H : f[r] \in Int /\ lo <= f[r] /\ f[r] <= hi
      BY <2>3, <2>5, <3>1
    <3>4. s \in Int /\ lo * n <= s /\ s <= hi * n
      <4>1. lo \in Int /\ hi \in Int
        BY <2>5
      <4>2. /\ SumOf(f, H) \in Int /\ lo * Cardinality(H) <= SumOf(f, H)
            /\ SumOf(f, H) <= hi * Cardinality(H)
        BY <3>2, <3>3, <4>1, SumBetween
      <4> HIDE DEF s, n
      <4> QED BY <3>1, <3>2, <4>2
    <3>5. s \in Nat
      <4>1. lo * n \in Nat
        BY <2>5, <3>2
      <4> HIDE DEF s
      <4> QED BY <3>4, <4>1
    <3>6. CASE m.agg = "sum"
      <4>1. y = s
        BY <1>4, <3>6, MeasureIs DEF H
      <4> QED BY <3>5, <3>6, <4>1
    <3>7. CASE m.agg = "avg"
      <4>1. y = Tenths(s, n)
        BY <1>4, <3>7, MeasureIs DEF H
      <4> HIDE DEF s, n
      <4>2. Tenths(s, n) \in Int /\ 10 * lo <= Tenths(s, n) /\ Tenths(s, n) <= 10 * hi
        BY <2>5, <3>2, <3>4, TenthsBetween
      <4>3. Tenths(s, n) \in Nat
        <5>1. 10 * lo \in Nat
          BY <2>5
        <5> QED BY <4>2, <5>1
      <4>4. UnitOf(m) = 10
        BY <3>7 DEF UnitOf
      <4> HIDE DEF y
      <4>5. y \in Nat /\ Between(y, UnitOf(m), column)
        BY <4>1, <4>2, <4>3, <4>4 DEF Between, lo, hi
      <4> QED BY <4>5 DEF y, column
    <3> QED BY <2>7, <3>6, <3>7
  <2> QED BY <1>4, <2>6, <2>7 DEF Aggregates
<1> QED BY <1>2, <1>3, <1>4

(***************************************************************************)
(* The first of a set in an order: R has the pairs of which the left one   *)
(* comes before.                                                           *)
(***************************************************************************)
Ordered(R, S) ==
  /\ \A a \in S : <<a, a>> \notin R
  /\ \A a \in S, b \in S : a # b => <<a, b>> \in R \/ <<b, a>> \in R
  /\ \A a \in S, b \in S, c \in S : <<a, b>> \in R /\ <<b, c>> \in R => <<a, c>> \in R
Ahead(R, S, b) == {c \in S : <<c, b>> \in R}
FirstOf(R, S, n) == {b \in S : Cardinality(Ahead(R, S, b)) < n}

LEMMA AheadOf ==
  ASSUME NEW S, IsFiniteSet(S), NEW R, Ordered(R, S), NEW a \in S, NEW b \in S, <<a, b>> \in R
  PROVE  Cardinality(Ahead(R, S, a)) < Cardinality(Ahead(R, S, b))
<1> DEFINE A == Ahead(R, S, a)
           B == Ahead(R, S, b)
<1>1. A \cup {a} \subseteq B /\ a \notin A /\ A \subseteq S /\ B \subseteq S
  BY DEF Ahead, Ordered
<1> HIDE DEF A, B
<1>2. IsFiniteSet(A) /\ IsFiniteSet(B) /\ Cardinality(A) \in Nat /\ Cardinality(B) \in Nat
  BY <1>1, FS_Subset, FS_CardinalityType
<1>3. Cardinality(A \cup {a}) = Cardinality(A) + 1
  BY <1>1, <1>2, FS_AddElement
<1>4. Cardinality(A \cup {a}) <= Cardinality(B)
  BY <1>1, <1>2, FS_Subset
<1>5. Cardinality(A) < Cardinality(B)
  BY <1>2, <1>3, <1>4
<1> QED BY <1>5 DEF A, B

LEMMA RankType ==
  ASSUME NEW S, IsFiniteSet(S), NEW R, NEW b
  PROVE  Cardinality(Ahead(R, S, b)) \in Nat
<1>1. Ahead(R, S, b) \subseteq S
  BY DEF Ahead
<1> QED BY <1>1, FS_Subset, FS_CardinalityType

\* As many as are asked for.
LEMMA FirstCount ==
  ASSUME NEW S, IsFiniteSet(S), NEW R, Ordered(R, S), NEW N \in Nat, N <= Cardinality(S)
  PROVE  Cardinality(FirstOf(R, S, N)) = N
<1> DEFINE rank(b) == Cardinality(Ahead(R, S, b))
           G == {n \in Nat : n <= Cardinality(S) => Cardinality(FirstOf(R, S, n)) = n}
<1>0. Cardinality(S) \in Nat
  BY FS_CardinalityType
<1>1. \A b \in S : rank(b) \in Nat
  BY RankType
<1>2. 0 \in G
  <2>1. FirstOf(R, S, 0) = {}
    BY <1>1 DEF FirstOf
  <2> QED BY <2>1, FS_EmptySet
<1>3. ASSUME NEW n \in Nat, n \in G PROVE n + 1 \in G
  <2> SUFFICES ASSUME n + 1 <= Cardinality(S) PROVE Cardinality(FirstOf(R, S, n + 1)) = n + 1
    OBVIOUS
  <2> DEFINE T == FirstOf(R, S, n)
             rest == S \ T
             ranks == {rank(b) : b \in rest}
  <2>1. Cardinality(T) = n /\ T \subseteq S
    BY <1>0, <1>3 DEF FirstOf
  <2>2. IsFiniteSet(T) /\ rest # {}
    <3>1. T # S
      BY <1>0, <2>1
    <3> QED BY <2>1, <3>1, FS_Subset
  <2>3. PICK k \in ranks : \A j \in ranks : k <= j
    <3>1. ranks \subseteq Nat /\ ranks # {}
      BY <1>1, <2>2
    <3> HIDE DEF ranks
    <3> QED BY <3>1, Smallest
  <2>4. PICK b \in rest : k = rank(b)
    OBVIOUS
  <2>5. Ahead(R, S, b) = T
    <3>1. ASSUME NEW c \in Ahead(R, S, b) PROVE c \in T
      <4>1. c \in S /\ rank(c) < rank(b)
        BY <3>1, AheadOf DEF Ahead
      <4>2. c \notin rest
        <5> SUFFICES ASSUME c \in rest PROVE FALSE
          OBVIOUS
        <5>1. rank(b) <= rank(c)
          BY <2>3, <2>4
        <5>2. rank(b) \in Nat /\ rank(c) \in Nat
          BY <1>1, <4>1
        <5> HIDE DEF rank
        <5> QED BY <4>1, <5>1, <5>2
      <4> QED BY <4>1, <4>2
    <3>2. ASSUME NEW c \in T PROVE c \in Ahead(R, S, b)
      <4>1. c \in S /\ rank(c) < n /\ ~(rank(b) < n) /\ c # b
        BY <3>2 DEF FirstOf
      <4>2. ~(<<b, c>> \in R)
        <5> SUFFICES ASSUME <<b, c>> \in R PROVE FALSE
          OBVIOUS
        <5>1. rank(b) < rank(c)
          BY <4>1, AheadOf
        <5>2. rank(b) \in Nat /\ rank(c) \in Nat
          BY <1>1, <4>1
        <5> HIDE DEF rank
        <5> QED BY <4>1, <5>1, <5>2
      <4> QED BY <4>1, <4>2 DEF Ahead, Ordered
    <3> QED BY <3>1, <3>2
  <2>6. rank(b) = n
    BY <2>1, <2>5
  <2>7. FirstOf(R, S, n + 1) = T \cup {b}
    <3>1. ASSUME NEW c \in FirstOf(R, S, n + 1) PROVE c \in T \cup {b}
      <4>1. c \in S /\ rank(c) < n + 1 /\ rank(c) \in Nat
        BY <1>1 DEF FirstOf
      <4>2. CASE c = b
        BY <4>2
      <4>3. CASE c # b /\ <<c, b>> \in R
        BY <2>5, <4>1, <4>3 DEF Ahead
      <4>4. CASE c # b /\ <<b, c>> \in R
        <5>1. rank(b) < rank(c)
          BY <4>1, <4>4, AheadOf
        <5> HIDE DEF rank
        <5> QED BY <2>6, <4>1, <5>1
      <4> QED BY <4>1, <4>2, <4>3, <4>4 DEF Ordered
    <3>2. T \subseteq FirstOf(R, S, n + 1)
      <4> SUFFICES ASSUME NEW c \in T PROVE c \in FirstOf(R, S, n + 1)
        OBVIOUS
      <4>1. c \in S /\ rank(c) < n /\ rank(c) \in Nat
        BY <1>1 DEF FirstOf
      <4>2. rank(c) < n + 1
        <5> HIDE DEF rank
        <5> QED BY <4>1
      <4> QED BY <4>1, <4>2 DEF FirstOf
    <3>3. b \in FirstOf(R, S, n + 1)
      <4>1. rank(b) < n + 1
        <5> HIDE DEF rank
        <5> QED BY <2>6
      <4> QED BY <4>1 DEF FirstOf
    <3> HIDE DEF T
    <3> QED BY <3>1, <3>2, <3>3
  <2>8. b \notin T
    OBVIOUS
  <2> HIDE DEF T
  <2> QED BY <2>1, <2>2, <2>7, <2>8, FS_AddElement
<1> HIDE DEF G
<1>4. N \in G
  BY <1>2, <1>3, SetInduction
<1> QED BY <1>4 DEF G

(***************************************************************************)
(* The bars of a level answered from the table.                            *)
(***************************************************************************)
LEMMA ImageFinite ==
  ASSUME NEW S, IsFiniteSet(S), NEW f
  PROVE  IsFiniteSet({f[x] : x \in S})
<1> DEFINE T == {f[x] : x \in S}
           g == [x \in S |-> f[x]]
<1>1. g \in Surjection(S, T)
  BY DEF Surjection
<1> QED BY <1>1, FS_Surjection

\* What every table of the instance is.
SoundTable(rows) ==
  /\ IsFiniteSet(rows)
  /\ \A r \in rows :
       /\ \A name \in DOMAIN Measures : r[Measures[name].col] \in Nat \cup {Null}
       /\ \A dim \in DOMAIN Dimensions : r[Dimensions[dim].col] \in Nat \cup {Null}

LEMMA SoundPart ==
  ASSUME NEW rows, SoundTable(rows), NEW sub, sub \subseteq rows
  PROVE  SoundTable(sub)
BY FS_Subset DEF SoundTable

LEMMA MeasureOfSpec ==
  ASSUME NEW spec
  PROVE  /\ measure(spec) \in Measure /\ measure(spec).agg \in Aggregates
         /\ \A rows : SoundTable(rows) => HasColumn(rows, measure(spec).col)
BY CatalogAssumption DEF measure, Measure, Aggregates, SoundTable, HasColumn

LEMMA MeasureType ==
  ASSUME NEW spec, NEW rows, SoundTable(rows)
  PROVE  MeasureOf(measure(spec), rows) \in Nat \cup {Null}
<1> DEFINE m == measure(spec)
<1>1. m.agg \in Aggregates /\ HasColumn(rows, m.col)
  BY MeasureOfSpec
<1> HIDE DEF m
<1>2. MeasureOf(m, rows) \in Nat \cup {Null}
  BY <1>1, MeasureRange
<1> QED BY <1>2 DEF m

\* Cells of a clause chart hold counts.
Counting(cells) == IsFiniteSet(cells) /\ \A c \in cells : c["v"] \in Nat /\ c.v = c["v"]

LEMMA CountedIs ==
  ASSUME NEW spec, spec.mode = "clause", NEW levels, NEW rows, IsFiniteSet(rows)
  PROVE  Counting(Cells(spec, levels, <<>>, rows))
<1> DEFINE key(r) == <<Values(levels, r), Values(<<>>, r)>>
           keys == {key(r) : r \in rows}
           in(k) == {r \in rows : key(r) = k}
           cell(k) == [g |-> k[1], s |-> Without(k[2], Null), key |-> k,
                       v |-> Cardinality(in(k)), n |-> 1]
           e == [r \in rows |-> key(r)]
           f == [k \in keys |-> cell(k)]
<1>1. Cells(spec, levels, <<>>, rows) = {cell(k) : k \in keys}
  BY DEF Cells
<1>2. IsFiniteSet({e[r] : r \in rows}) /\ {e[r] : r \in rows} = keys
  BY ImageFinite
<1>3. IsFiniteSet(keys)
  BY <1>2
<1> HIDE DEF keys
<1>6. IsFiniteSet({f[k] : k \in keys})
  BY <1>3, ImageFinite
<1>4. \A k : Cardinality(in(k)) \in Nat
  BY FS_Subset, FS_CardinalityType
<1>5. \A k : cell(k)["v"] \in Nat /\ cell(k).v = cell(k)["v"]
  BY <1>4
<1> HIDE DEF cell
<1>7. {f[k] : k \in keys} = {cell(k) : k \in keys}
  OBVIOUS
<1> HIDE DEF f
<1> QED BY <1>1, <1>6, <1>7, <1>5 DEF Counting
LEMMA SumNat ==
  ASSUME NEW S, IsFiniteSet(S), NEW f, \A x \in S : f[x] \in Nat
  PROVE  SumOf(f, S) \in Nat
<1>1. CASE S = {}
  BY <1>1, SumNone
<1>2. CASE S # {}
  <2> DEFINE T == {f[x] : x \in S}
  <2>1. IsFiniteSet(T) /\ T \subseteq Int /\ T # {}
    BY <1>2, ImageFinite
  <2>2. Max(T) \in T /\ \A t \in T : t <= Max(T)
    BY <2>1, ExtremesAre DEF Extremes
  <2>3. Max(T) \in Int
    BY <2>1, <2>2
  <2> DEFINE hi == Max(T)
             lo == 0
  <2>4. hi \in Int /\ \A x \in S : f[x] \in Int /\ lo <= f[x] /\ f[x] <= hi
    BY <2>2, <2>3
  <2>8. lo \in Int /\ lo = 0
    OBVIOUS
  <2> HIDE DEF hi, T, lo
  <2>5. SumOf(f, S) \in Int /\ Cardinality(S) \in Nat /\ lo * Cardinality(S) <= SumOf(f, S)
    BY <2>4, <2>8, SumBetween
  <2> DEFINE n == Cardinality(S)
             s == SumOf(f, S)
  <2>6. s \in Int /\ n \in Nat /\ 0 * n <= s
    BY <2>5, <2>8
  <2> HIDE DEF n, s
  <2>7. s \in Nat
    BY <2>6
  <2> QED BY <2>7 DEF s
<1> QED BY <1>1, <1>2

LEMMA TenthsType ==
  ASSUME NEW s \in Nat, NEW n \in Nat \ {0}
  PROVE  Tenths(s, n) \in Nat
<1>1. s * (n - 1) \in Nat
  OBVIOUS
<1>2. s <= s * n
  BY <1>1
<1> DEFINE lo == 0
           hi == s
<1>3. lo \in Int /\ lo = 0 /\ lo * n <= s /\ s \in Int /\ hi \in Int /\ s <= hi * n
  BY <1>2
<1> HIDE DEF lo, hi
<1>4. Tenths(s, n) \in Int /\ 10 * lo <= Tenths(s, n)
  <2> HIDE DEF Tenths
  <2> QED BY <1>3, TenthsBetween
<1> QED BY <1>3, <1>4

LEMMA OverType ==
  ASSUME NEW cells, Counting(cells), cells # {}, NEW agg
  PROVE  Over(cells, agg) \in Nat
<1> DEFINE with == {c \in cells : c.v # Null}
           T == {c.v : c \in with}
           U == {c["v"] : c \in cells}
<1>1. with = cells
  BY DEF Counting, Null
<1>2. T = U
  BY <1>1 DEF Counting
<1>3. IsFiniteSet(cells) /\ IsFiniteSet(U) /\ U \subseteq Nat /\ U # {}
  BY ColumnFinite DEF Counting
<1>4. Min(U) \in Nat /\ Max(U) \in Nat
  BY <1>3, ExtremesAre DEF Extremes
<1> DEFINE f == ColumnOf(cells, "v")
<1>5. \A c \in cells : c["v"] \in Nat /\ f[c] \in Nat
  BY DEF Counting, ColumnOf
<1> HIDE DEF f
<1>6. SumOf(f, cells) \in Nat
  BY <1>3, <1>5, SumNat
<1>7. ColumnSum(cells, "v") \in Nat
  BY <1>3, <1>5, <1>6, ColumnSumType DEF f
<1>8. Over(cells, agg) = IF with = {} THEN Null
                         ELSE CASE agg = "min" -> Min(T) [] agg = "max" -> Max(T)
                                [] OTHER -> ColumnSum(with, "v")
  BY DEF Over
<1> HIDE DEF with, T, U
<1> QED BY <1>1, <1>2, <1>4, <1>7, <1>8

LEMMA ClausePartsType ==
  ASSUME NEW spec, NEW cells, Counting(cells), cells # {}
  PROVE  clauseMeasureParts(spec, cells) \in Nat
<1>1. Over(cells, "sum") \in Nat /\ Over(cells, groupAggOf(spec)) \in Nat
  BY OverType
<1>2. Cardinality(cells) \in Nat \ {0}
  BY FS_CardinalityType, FS_EmptySet DEF Counting
<1>3. Tenths(Over(cells, "sum"), Cardinality(cells)) \in Nat
  BY <1>1, <1>2, TenthsType
<1> QED BY <1>1, <1>3 DEF clauseMeasureParts

\* The bars of a level: those of a clause chart that rolls up its counts, and
\* the others.
RollsUp(spec) == spec.mode = "clause" /\ groupAggOf(spec) \in {"avg", "min", "max"}
Alone(spec, override) ==
  override = None /\ IF spec.mode = "clause" THEN groupByKeys(spec) = <<>>
                     ELSE ~needsDimension(spec.type)
DimOf(spec, override) ==
  IF override # None THEN override
  ELSE IF spec.mode = "clause" THEN groupByKeys(spec)[1] ELSE spec.dimension

RolledBars(spec, rows, dim) ==
  LET levels == groupByKeys(spec)
      nested == Cells(spec, levels, <<>>, rows)
      at == CHOOSE i \in DOMAIN levels : levels[i] = dim
  IN {Bar(x, <<>>, clauseMeasureParts(spec, {c \in nested : c.g[at] = x}))
      : x \in {c.g[at] : c \in nested}}

GroupedBars(spec, rows, dim, series) ==
  {Bar(k[1], Without(k[2], Null),
       MeasureOf(measure(spec), {r \in rows : <<DimExpr(dim, r), Values(series, r)>> = k}))
   : k \in {<<DimExpr(dim, r), Values(series, r)>> : r \in rows}}

LEMMA AggregatedIs ==
  ASSUME NEW spec, NEW rows, NEW override, NEW drop
  PROVE  Aggregated(spec, rows, override, drop) =
           IF Alone(spec, override) THEN {Bar(Single, <<>>, MeasureOf(measure(spec), rows))}
           ELSE IF RollsUp(spec) THEN RolledBars(spec, rows, DimOf(spec, override))
           ELSE GroupedBars(spec, rows, DimOf(spec, override), seriesKeys(spec, drop))
BY DEF Aggregated, Alone, RollsUp, RolledBars, GroupedBars, DimOf

IsBar(b) == b = Bar(b.x, b.s, b.y)

LEMMA BarFields ==
  ASSUME NEW x, NEW s, NEW y
  PROVE  LET b == Bar(x, s, y) IN b.x = x /\ b.s = s /\ b.y = y /\ IsBar(b)
BY DEF Bar, IsBar

LEMMA RolledAre ==
  ASSUME NEW spec, spec.mode = "clause", NEW rows, SoundTable(rows), NEW dim
  PROVE  LET level == RolledBars(spec, rows, dim)
         IN /\ IsFiniteSet(level)
            /\ \A b \in level : b.y \in Nat /\ IsBar(b)
            /\ \A b \in level, c \in level : b.x = c.x => b = c
<1> DEFINE levels == groupByKeys(spec)
           nested == Cells(spec, levels, <<>>, rows)
           at == CHOOSE i \in DOMAIN levels : levels[i] = dim
           xs == {c.g[at] : c \in nested}
           y(x) == clauseMeasureParts(spec, {c \in nested : c.g[at] = x})
           bar(x) == Bar(x, <<>>, y(x))
           e == [c \in nested |-> c.g[at]]
           f == [x \in xs |-> bar(x)]
           level == RolledBars(spec, rows, dim)
<1>1. level = {bar(x) : x \in xs}
  BY DEF RolledBars
<1>2. Counting(nested)
  BY CountedIs DEF SoundTable
<1> HIDE DEF nested, at, level
<1>3. IsFiniteSet(nested)
  BY <1>2 DEF Counting
<1>4. IsFiniteSet({e[c] : c \in nested})
  BY <1>3, ImageFinite
<1>5. {e[c] : c \in nested} = xs
  OBVIOUS
<1>6. \A x \in xs : y(x) \in Nat
  <2> SUFFICES ASSUME NEW x \in xs PROVE y(x) \in Nat
    OBVIOUS
  <2> DEFINE under == {c \in nested : c.g[at] = x}
  <2>1. Counting(under)
    BY <1>2, FS_Subset DEF Counting
  <2>2. under # {}
    OBVIOUS
  <2> HIDE DEF under
  <2>3. clauseMeasureParts(spec, under) \in Nat
    BY <2>1, <2>2, ClausePartsType
  <2> QED BY <2>3 DEF under
<1>7. IsFiniteSet(xs)
  BY <1>4, <1>5
<1> HIDE DEF xs, y, e
<1>8. IsFiniteSet({f[x] : x \in xs})
  BY <1>7, ImageFinite
<1>9. \A x : bar(x).x = x /\ bar(x).y = y(x) /\ IsBar(bar(x))
  BY BarFields
<1> HIDE DEF bar
<1>10. {f[x] : x \in xs} = {bar(x) : x \in xs}
  OBVIOUS
<1> HIDE DEF f
<1>11. IsFiniteSet(level)
  BY <1>1, <1>8, <1>10
<1>12. \A b \in level : b.y \in Nat /\ IsBar(b)
  BY <1>1, <1>6, <1>9
<1>13. \A b \in level, c \in level : b.x = c.x => b = c
  BY <1>1, <1>9
<1> QED BY <1>11, <1>12, <1>13 DEF level

LEMMA GroupedAre ==
  ASSUME NEW spec, NEW rows, SoundTable(rows), NEW dim, NEW series
  PROVE  LET level == GroupedBars(spec, rows, dim, series)
         IN /\ IsFiniteSet(level)
            /\ \A b \in level :
                 /\ IsBar(b)
                 /\ \E r \in rows : b.x = DimExpr(dim, r)
                 /\ \E sub \in SUBSET rows : b.y = MeasureOf(measure(spec), sub)
            /\ series = <<>> => \A b \in level, c \in level : b.x = c.x => b = c
<1> DEFINE key(r) == <<DimExpr(dim, r), Values(series, r)>>
           keys == {key(r) : r \in rows}
           sub(k) == {r \in rows : key(r) = k}
           y(k) == MeasureOf(measure(spec), sub(k))
           bar(k) == Bar(k[1], Without(k[2], Null), y(k))
           e == [r \in rows |-> key(r)]
           f == [k \in keys |-> bar(k)]
           level == GroupedBars(spec, rows, dim, series)
<1>1. level = {bar(k) : k \in keys}
  BY DEF GroupedBars
<1> HIDE DEF level
<1>2. IsFiniteSet(rows)
  BY DEF SoundTable
<1>3. \A k : bar(k).x = k[1] /\ bar(k).y = y(k) /\ IsBar(bar(k))
  BY BarFields
<1>4. \A k : sub(k) \in SUBSET rows /\ y(k) = MeasureOf(measure(spec), sub(k))
  OBVIOUS
<1>5. \A k \in keys : \E r \in rows : k[1] = DimExpr(dim, r)
  OBVIOUS
<1>6. series = <<>> => \A k \in keys, j \in keys : k[1] = j[1] => k = j
  <2> SUFFICES ASSUME series = <<>>, NEW r \in rows, NEW q \in rows,
                      DimExpr(dim, r) = DimExpr(dim, q)
               PROVE  key(r) = key(q)
    OBVIOUS
  <2>1. DOMAIN series = {}
    OBVIOUS
  <2>2. Values(series, r) = Values(series, q)
    BY <2>1 DEF Values
  <2> QED BY <2>2
<1>7. IsFiniteSet({e[r] : r \in rows})
  BY <1>2, ImageFinite
<1> HIDE DEF key
<1>8. {e[r] : r \in rows} = keys
  OBVIOUS
<1>9. IsFiniteSet(keys)
  BY <1>7, <1>8
<1> HIDE DEF keys, y, sub, e
<1>10. IsFiniteSet({f[k] : k \in keys})
  BY <1>9, ImageFinite
<1> HIDE DEF bar
<1>11. {f[k] : k \in keys} = {bar(k) : k \in keys}
  OBVIOUS
<1> HIDE DEF f
<1>12. IsFiniteSet(level)
  BY <1>1, <1>10, <1>11
<1>13. \A b \in level : /\ IsBar(b)
                        /\ \E r \in rows : b.x = DimExpr(dim, r)
                        /\ \E t \in SUBSET rows : b.y = MeasureOf(measure(spec), t)
  <2> SUFFICES ASSUME NEW k \in keys
               PROVE  /\ IsBar(bar(k))
                      /\ \E r \in rows : bar(k).x = DimExpr(dim, r)
                      /\ \E t \in SUBSET rows : bar(k).y = MeasureOf(measure(spec), t)
    BY <1>1
  <2> QED BY <1>3, <1>4, <1>5
<1>14. series = <<>> => \A b \in level, c \in level : b.x = c.x => b = c
  BY <1>1, <1>3, <1>6
<1> QED BY <1>12, <1>13, <1>14 DEF level

LEMMA GroupedNames ==
  ASSUME NEW spec, NEW rows, SoundTable(rows), NEW dim, NEW series
  PROVE  \A b \in GroupedBars(spec, rows, dim, series) : \E r \in rows : b.x = DimExpr(dim, r)
BY GroupedAre

LEMMA GroupedDistinct ==
  ASSUME NEW spec, NEW rows, SoundTable(rows), NEW dim, NEW series, series = <<>>,
         NEW b \in GroupedBars(spec, rows, dim, series),
         NEW c \in GroupedBars(spec, rows, dim, series), b.x = c.x
  PROVE  b = c
BY GroupedAre

LEMMA DimExprType ==
  ASSUME NEW rows, SoundTable(rows), NEW r \in rows, NEW dim \in DOMAIN Dimensions
  PROVE  DimExpr(dim, r) \in Nat \cup {Null, NoneText}
<1> DEFINE x == r[Dimensions[dim].col]
<1>1. x \in Nat \cup {Null}
  BY DEF SoundTable
<1>2. DimExpr(dim, r) = IF Dimensions[dim].kind = "bucket"
                        THEN IF x = Null THEN Null ELSE x \div 4
                        ELSE IF x = Null THEN NoneText ELSE x
  BY DEF DimExpr
<1> HIDE DEF x
<1>3. x \in Nat => x \div 4 \in Nat
  OBVIOUS
<1> QED BY <1>1, <1>2, <1>3

LEMMA CellsAre ==
  ASSUME NEW spec, NEW levels, NEW series, NEW rows
  PROVE  \A c \in Cells(spec, levels, series, rows) : \E r \in rows : c.g = Values(levels, r)
<1> DEFINE key(r) == <<Values(levels, r), Values(series, r)>>
           m == measure(spec)
           in(k) == {r \in rows : key(r) = k}
           counted == spec.mode = "clause"
           avg == ~counted /\ m.agg = "avg"
           v(k) == IF counted THEN Cardinality(in(k))
                   ELSE MeasureOf(IF avg THEN [m EXCEPT !.agg = "sum"] ELSE m, in(k))
           n(k) == IF avg THEN Cardinality({r \in in(k) : r[m.col] # Null}) ELSE 1
           cell(k) == [g |-> k[1], s |-> Without(k[2], Null), key |-> k, v |-> v(k), n |-> n(k)]
           keys == {key(r) : r \in rows}
<1>1. Cells(spec, levels, series, rows) = {cell(k) : k \in keys}
  BY DEF Cells
<1> HIDE DEF v, n, m, counted, avg, in
<1>2. \A k : cell(k).g = k[1]
  OBVIOUS
<1> HIDE DEF cell
<1>3. \A k \in keys : \E r \in rows : k[1] = Values(levels, r)
  OBVIOUS
<1> HIDE DEF keys
<1> QED BY <1>1, <1>2, <1>3

LEMMA RolledNames ==
  ASSUME NEW spec, NEW rows, NEW dim,
         \E i \in DOMAIN groupByKeys(spec) : groupByKeys(spec)[i] = dim
  PROVE  \A b \in RolledBars(spec, rows, dim) : \E r \in rows : b.x = DimExpr(dim, r)
<1> DEFINE levels == groupByKeys(spec)
           nested == Cells(spec, levels, <<>>, rows)
           at == CHOOSE i \in DOMAIN levels : levels[i] = dim
           xs == {c.g[at] : c \in nested}
           y(x) == clauseMeasureParts(spec, {c \in nested : c.g[at] = x})
           bar(x) == Bar(x, <<>>, y(x))
<1>1. RolledBars(spec, rows, dim) = {bar(x) : x \in xs}
  BY DEF RolledBars
<1>2. at \in DOMAIN levels /\ levels[at] = dim
  OBVIOUS
<1>3. \A c \in nested : \E r \in rows : c.g = Values(levels, r)
  BY CellsAre
<1> HIDE DEF nested, at, levels
<1>4. \A r : Values(levels, r)[at] = DimExpr(dim, r)
  BY <1>2 DEF Values
<1>5. \A x \in xs : \E r \in rows : x = DimExpr(dim, r)
  BY <1>3, <1>4
<1> HIDE DEF xs, y
<1>6. \A x : bar(x).x = x
  BY BarFields
<1> HIDE DEF bar
<1> QED BY <1>1, <1>5, <1>6

\* What a level answered from the table is made of.
LEMMA LevelType ==
  ASSUME NEW spec, NEW rows, SoundTable(rows), NEW override, NEW drop
  PROVE  LET level == Aggregated(spec, rows, override, drop)
         IN /\ IsFiniteSet(level)
            /\ \A b \in level : IsBar(b) /\ b.y \in Nat \cup {Null}
            /\ spec.mode # "clause" \/ Alone(spec, override) =>
                 \A b \in level : \E sub \in SUBSET rows : b.y = MeasureOf(measure(spec), sub)
<1> DEFINE level == Aggregated(spec, rows, override, drop)
           Goal == /\ IsFiniteSet(level)
                   /\ \A b \in level : IsBar(b) /\ b.y \in Nat \cup {Null}
                   /\ spec.mode # "clause" \/ Alone(spec, override) =>
                        \A b \in level : \E sub \in SUBSET rows : b.y = MeasureOf(measure(spec), sub)
<1>1. \A sub \in SUBSET rows : MeasureOf(measure(spec), sub) \in Nat \cup {Null}
  BY SoundPart, MeasureType
<1> SUFFICES Goal
  OBVIOUS
<1>2. CASE Alone(spec, override)
  <2> DEFINE o == Bar(Single, <<>>, MeasureOf(measure(spec), rows))
  <2>1. level = {o}
    BY <1>2, AggregatedIs
  <2>2. IsBar(o) /\ o.y = MeasureOf(measure(spec), rows)
    BY BarFields
  <2> HIDE DEF o, level
  <2>3. IsFiniteSet(level)
    BY <2>1, FS_Singleton
  <2> QED BY <1>1, <2>1, <2>2, <2>3
<1>3. CASE ~Alone(spec, override) /\ RollsUp(spec)
  <2> DEFINE dim == DimOf(spec, override)
  <2>1. level = RolledBars(spec, rows, dim) /\ spec.mode = "clause"
    BY <1>3, AggregatedIs DEF RollsUp
  <2> HIDE DEF level, dim
  <2>2. IsFiniteSet(level) /\ \A b \in level : b.y \in Nat /\ IsBar(b)
    BY <2>1, RolledAre
  <2> QED BY <1>3, <2>1, <2>2
<1>4. CASE ~Alone(spec, override) /\ ~RollsUp(spec)
  <2> DEFINE dim == DimOf(spec, override)
             series == seriesKeys(spec, drop)
  <2>1. level = GroupedBars(spec, rows, dim, series)
    BY <1>4, AggregatedIs
  <2> DEFINE grouped == GroupedBars(spec, rows, dim, series)
  <2> HIDE DEF dim, series
  <2>2. /\ IsFiniteSet(grouped)
        /\ \A b \in grouped : /\ IsBar(b)
                              /\ \E sub \in SUBSET rows : b.y = MeasureOf(measure(spec), sub)
    BY GroupedAre
  <2> HIDE DEF level, grouped
  <2> QED BY <1>1, <2>1, <2>2 DEF grouped
<1> QED BY <1>2, <1>3, <1>4

\* The first level of a chart without series: one bar for each value.
LEMMA FirstLevel ==
  ASSUME NEW spec, validateSpec(spec), spec.type # "table", spec.groupBy \in Seq(STRING),
         NEW rows, SoundTable(rows), seriesKeys(spec, FALSE) = <<>>
  PROVE  LET level == Aggregated(spec, rows, None, FALSE)
         IN /\ \A b \in level : b.x \in Int /\ b.x # Other
            /\ \A b \in level, c \in level : b.x = c.x => b = c
<1> DEFINE level == Aggregated(spec, rows, None, FALSE)
           dim == DimOf(spec, None)
           keys == groupByKeys(spec)
<1>1. CASE Alone(spec, None)
  <2> DEFINE o == Bar(Single, <<>>, MeasureOf(measure(spec), rows))
  <2>1. level = {o}
    BY <1>1, AggregatedIs
  <2>2. o.x = Single
    BY BarFields
  <2> HIDE DEF o, level
  <2>3. \A b \in level : b.x \in Int /\ b.x # Other
    BY <2>1, <2>2 DEF Single, Other
  <2>4. \A b \in level, c \in level : b.x = c.x => b = c
    BY <2>1
  <2> QED BY <2>3, <2>4 DEF level
<1>2. CASE ~Alone(spec, None)
  <2>1. keys \in Seq(STRING) \/ spec.groupBy = <<>>
    BY DEF groupByKeys
  <2>2. spec.mode = "clause" => 1 \in DOMAIN keys /\ keys[1] = dim /\ Dims(keys)
    <3> SUFFICES ASSUME spec.mode = "clause"
                 PROVE  1 \in DOMAIN keys /\ keys[1] = dim /\ Dims(keys)
      OBVIOUS
    <3>1. keys # <<>> /\ Dims(keys) /\ dim = keys[1]
      BY <1>2 DEF Alone, validateSpec, DimOf
    <3>2. 1 \in DOMAIN keys
      BY <3>1 DEF groupByKeys
    <3> QED BY <3>1, <3>2
  <2>3. spec.mode # "clause" => dim \in DOMAIN Dimensions
    BY <1>2 DEF Alone, validateSpec, DimOf, Dims, ToSet
  <2>4. dim \in DOMAIN Dimensions
    BY <2>2, <2>3 DEF Dims, ToSet
  <2>5. CASE RollsUp(spec)
    <3>1. level = RolledBars(spec, rows, dim) /\ spec.mode = "clause"
      BY <1>2, <2>5, AggregatedIs DEF RollsUp
    <3> HIDE DEF level, dim
    <3>2. \A b \in level, c \in level : b.x = c.x => b = c
      BY <3>1, RolledAre
    <3>3. \A b \in level : \E r \in rows : b.x = DimExpr(dim, r)
      BY <2>2, <3>1, RolledNames
    <3>4. \A b \in level : b.x \in Nat \cup {Null, NoneText}
      BY <2>4, <3>3, DimExprType
    <3>5. \A b \in level : b.x \in Int /\ b.x # Other
      BY <3>4 DEF Null, NoneText, Other
    <3> QED BY <3>2, <3>5 DEF level
  <2>6. CASE ~RollsUp(spec)
    <3> DEFINE none == seriesKeys(spec, FALSE)
               grouped == GroupedBars(spec, rows, dim, none)
    <3>1. level = grouped
      BY <1>2, <2>6, AggregatedIs
    <3>6. none = <<>>
      OBVIOUS
    <3> HIDE DEF dim, none
    <3>3. \A b \in grouped : \E r \in rows : b.x = DimExpr(dim, r)
      BY GroupedNames
    <3>7. \A b \in grouped, c \in grouped : b.x = c.x => b = c
      BY <3>6, GroupedDistinct
    <3> HIDE DEF level, grouped
    <3>2. /\ \A b \in level : \E r \in rows : b.x = DimExpr(dim, r)
          /\ \A b \in level, c \in level : b.x = c.x => b = c
      BY <3>1, <3>3, <3>7
    <3>4. \A b \in level : b.x \in Nat \cup {Null, NoneText}
      BY <2>4, <3>2, DimExprType
    <3>5. \A b \in level : b.x \in Int /\ b.x # Other
      BY <3>4 DEF Null, NoneText, Other
    <3> QED BY <3>2, <3>5 DEF level
  <2> QED BY <2>5, <2>6
<1> QED BY <1>1, <1>2

(***************************************************************************)
(* The first groups of a preview, and the bar the rest is rolled up into.  *)
(***************************************************************************)
DrawnOrder(level) ==
  {p \in level \X level : \/ Drawn(p[1]) > Drawn(p[2])
                          \/ Drawn(p[1]) = Drawn(p[2]) /\ p[1].x < p[2].x}

\* One bar for each value, with a number or none.
Distinct(level) ==
  /\ IsFiniteSet(level)
  /\ \A b \in level : IsBar(b) /\ b.y \in Nat \cup {Null} /\ b.x \in Int /\ b.x # Other
  /\ \A b \in level, c \in level : b.x = c.x => b = c

LEMMA DrawnType ==
  ASSUME NEW b, b.y \in Nat \cup {Null}
  PROVE  Drawn(b) \in Nat
BY DEF Drawn

LEMMA DrawnFirstIs ==
  ASSUME NEW level, Distinct(level)
  PROVE  /\ Ordered(DrawnOrder(level), level)
         /\ DrawnFirst(level) = FirstOf(DrawnOrder(level), level, ChartTopGroups)
<1> DEFINE R == DrawnOrder(level)
           before(c, b) == \/ Drawn(c) > Drawn(b)
                           \/ Drawn(c) = Drawn(b) /\ c.x < b.x
<1>1. \A b \in level : Drawn(b) \in Nat /\ b.x \in Int
  BY DrawnType DEF Distinct
<1>2. \A b \in level, c \in level : <<c, b>> \in R <=> before(c, b)
  BY DEF DrawnOrder
<1> HIDE DEF R
<1>3. \A a \in level : <<a, a>> \notin R
  BY <1>1, <1>2
<1>4. \A a \in level, b \in level : a # b => <<a, b>> \in R \/ <<b, a>> \in R
  <2> SUFFICES ASSUME NEW a \in level, NEW b \in level, a # b
               PROVE  before(a, b) \/ before(b, a)
    BY <1>2
  <2>1. a.x # b.x
    BY DEF Distinct
  <2> QED BY <2>1, <1>1
<1>5. \A a \in level, b \in level, c \in level :
        <<a, b>> \in R /\ <<b, c>> \in R => <<a, c>> \in R
  BY <1>1, <1>2
<1>6. \A b \in level : {c \in level : before(c, b)} = Ahead(R, level, b)
  BY <1>2 DEF Ahead
<1>7. DrawnFirst(level) = {b \in level : Cardinality({c \in level : before(c, b)}) < ChartTopGroups}
  BY DEF DrawnFirst
<1> HIDE DEF before
<1>8. DrawnFirst(level) = FirstOf(R, level, ChartTopGroups)
  BY <1>6, <1>7 DEF FirstOf
<1> QED BY <1>3, <1>4, <1>5, <1>8 DEF Ordered, R

\* Groups are left over when there are more than are drawn.
LEMMA SomeLeft ==
  ASSUME NEW level, Distinct(level), ~(Cardinality(level) <= ChartTopGroups)
  PROVE  /\ DrawnFirst(level) \subseteq level
         /\ Cardinality(DrawnFirst(level)) = ChartTopGroups
         /\ level \ DrawnFirst(level) # {}
<1> DEFINE R == DrawnOrder(level)
           top == DrawnFirst(level)
           n == Cardinality(level)
<1>1. Ordered(R, level) /\ top = FirstOf(R, level, ChartTopGroups) /\ IsFiniteSet(level)
  BY DrawnFirstIs DEF Distinct
<1>2. ChartTopGroups \in Nat /\ n \in Nat
  BY <1>1, LimitsAssumption, FS_CardinalityType
<1>3. ChartTopGroups <= n /\ n # ChartTopGroups
  <2> HIDE DEF n
  <2>1. ~(n <= ChartTopGroups)
    BY DEF n
  <2> QED BY <1>2, <2>1
<1> HIDE DEF R
<1>4. Cardinality(FirstOf(R, level, ChartTopGroups)) = ChartTopGroups
  BY <1>1, <1>2, <1>3, FirstCount
<1>5. top \subseteq level
  BY DEF DrawnFirst
<1> HIDE DEF top
<1>6. top # level
  BY <1>1, <1>3, <1>4
<1> QED BY <1>1, <1>4, <1>5, <1>6 DEF top

\* What is left, folded into one bar, keeps the sum of the level.
LEMMA TailKeepsSum ==
  ASSUME NEW level, Distinct(level), NEW top, top \subseteq level
  PROVE  DrawnSum(top \cup {Bar(Other, <<>>, DrawnSum(level \ top))}) = DrawnSum(level)
<1> DEFINE tail == level \ top
           rest == DrawnSum(tail)
           o == Bar(Other, <<>>, rest)
           f == [b \in level \cup {o} |-> Drawn(b)]
<1>1. \A b \in level : Drawn(b) \in Nat
  BY DrawnType DEF Distinct
<1>2. IsFiniteSet(level) /\ IsFiniteSet(top) /\ IsFiniteSet(tail)
  BY FS_Subset DEF Distinct
<1>3. \A b \in level : f[b] = Drawn(b)
  OBVIOUS
<1>4. o.x = Other /\ o.y = rest
  BY BarFields
<1>5. f[o] = Drawn(o)
  OBVIOUS
<1> HIDE DEF f, o
<1>6. DrawnSum(tail) = SumOf(f, tail) /\ DrawnSum(level) = SumOf(f, level)
  BY <1>1, <1>2, <1>3, DrawnSumIs
<1>7. SumOf(f, tail) \in Nat
  BY <1>1, <1>2, <1>3, SumNat
<1>8. Drawn(o) = rest /\ rest \in Nat
  BY <1>4, <1>6, <1>7 DEF Drawn, Null
<1>9. o \notin top
  BY <1>4 DEF Distinct
<1>10. \A b \in top \cup {o} : Drawn(b) \in Int /\ f[b] = Drawn(b)
  BY <1>1, <1>3, <1>5, <1>8
<1>11. IsFiniteSet(top \cup {o})
  BY <1>2, FS_AddElement
<1>12. DrawnSum(top \cup {o}) = SumOf(f, top \cup {o})
  BY <1>10, <1>11, DrawnSumIs
<1>13. Adds(f, top \cup {o})
  BY <1>10, <1>11 DEF Adds
<1>14. SumOf(f, top \cup {o}) = f[o] + SumOf(f, top)
  BY <1>9, <1>13, SumWith
<1>15. Adds(f, top \cup tail) /\ top \cup tail = level /\ top \cap tail = {}
  BY <1>1, <1>2, <1>3 DEF Adds
<1>16. SumOf(f, level) = SumOf(f, top) + SumOf(f, tail)
  BY <1>15, SumSplit
<1>17. SumOf(f, top) \in Nat
  BY <1>1, <1>2, <1>3, SumNat
<1>18. DrawnSum(top \cup {o}) = DrawnSum(level)
  BY <1>5, <1>6, <1>7, <1>8, <1>12, <1>14, <1>16, <1>17
<1> QED BY <1>18 DEF o

LEMMA FoldedIs ==
  ASSUME NEW level, Distinct(level), NEW tail, tail \subseteq level, tail # {}
  PROVE  /\ \E b \in tail : Min({Drawn(c) : c \in tail}) = Drawn(b)
         /\ \E b \in tail : Max({Drawn(c) : c \in tail}) = Drawn(b)
<1> DEFINE f == [c \in tail |-> Drawn(c)]
           T == {f[c] : c \in tail}
<1>1. IsFiniteSet(tail) /\ \A c \in tail : Drawn(c) \in Nat
  BY FS_Subset, DrawnType DEF Distinct
<1>2. IsFiniteSet(T)
  BY <1>1, ImageFinite
<1>3. T = {Drawn(c) : c \in tail} /\ T \subseteq Int /\ T # {}
  BY <1>1
<1>4. Min(T) \in T /\ Max(T) \in T
  BY <1>2, <1>3, ExtremesAre DEF Extremes
<1> QED BY <1>3, <1>4

FirstBars(spec, rows) == Aggregated(spec, rows, None, FALSE)

LEMMA FirstDistinct ==
  ASSUME NEW spec, validateSpec(spec), spec.type # "table", spec.groupBy \in Seq(STRING),
         NEW rows, SoundTable(rows), seriesKeys(spec, FALSE) = <<>>
  PROVE  Distinct(FirstBars(spec, rows))
<1> DEFINE level == Aggregated(spec, rows, None, FALSE)
<1>1. IsFiniteSet(level) /\ \A b \in level : IsBar(b) /\ b.y \in Nat \cup {Null}
  BY LevelType
<1>2. /\ \A b \in level : b.x \in Int /\ b.x # Other
      /\ \A b \in level, c \in level : b.x = c.x => b = c
  BY FirstLevel
<1> HIDE DEF level
<1>3. Distinct(level)
  BY <1>1, <1>2 DEF Distinct
<1> QED BY <1>3 DEF level, FirstBars

\* What is drawn of the first level: all of it, or its first groups and the
\* sum, the minimum or the maximum of the others.
LEMMA TrimmedIs ==
  ASSUME NEW spec, validateSpec(spec), spec.type # "table", spec.groupBy \in Seq(STRING),
         NEW rows, SoundTable(rows)
  PROVE  LET level == FirstBars(spec, rows)
             shown == previewTopGroups(level, spec)
         IN /\ shown.rolledUp /\ AggOf(spec) \in {"count", "sum"}
                 => DrawnSum(shown.bars) = DrawnSum(level)
            /\ AggOf(spec) \in {"min", "max", "avg"}
                 => \A b \in shown.bars :
                      b \in level \/ (b.x = Other /\ \E c \in level : b.y = Drawn(c))
<1> DEFINE level == FirstBars(spec, rows)
           shown == previewTopGroups(level, spec)
           top == DrawnFirst(level)
           tail == level \ top
           all == Cardinality(level) <= ChartTopGroups \/ seriesKeys(spec, FALSE) # <<>>
           agg == AggOf(spec)
           fold == CASE agg \in {"count", "sum"} -> DrawnSum(tail)
                     [] agg = "min" -> Min({Drawn(b) : b \in tail})
                     [] agg = "max" -> Max({Drawn(b) : b \in tail})
           o == Bar(Other, <<>>, fold)
           Goal == /\ shown.rolledUp /\ agg \in {"count", "sum"}
                        => DrawnSum(shown.bars) = DrawnSum(level)
                   /\ agg \in {"min", "max", "avg"}
                        => \A b \in shown.bars :
                             b \in level \/ (b.x = Other /\ \E c \in level : b.y = Drawn(c))
<1>1. shown = IF all THEN [bars |-> level, rolledUp |-> TRUE]
              ELSE IF agg = "avg" THEN [bars |-> top, rolledUp |-> FALSE]
              ELSE [bars |-> top \cup {o}, rolledUp |-> TRUE]
  BY DEF previewTopGroups, AggOf
<1>2. o.x = Other /\ o.y = fold
  <2> HIDE DEF fold
  <2> QED BY BarFields
<1> SUFFICES Goal
  OBVIOUS
<1> HIDE DEF shown, level, o, agg
<1>3. CASE all
  BY <1>1, <1>3
<1>4. CASE ~all
  <2>1. Distinct(level)
    BY <1>4, FirstDistinct DEF level
  <2>2. top \subseteq level /\ tail # {}
    BY <1>4, <2>1, SomeLeft
  <2>3. CASE agg \in {"count", "sum"}
    <3>1. o = Bar(Other, <<>>, DrawnSum(level \ top))
      BY <2>3 DEF o
    <3>2. shown.bars = top \cup {o}
      BY <1>1, <1>4, <2>3
    <3>3. DrawnSum(shown.bars) = DrawnSum(level)
      BY <2>1, <2>2, <3>1, <3>2, TailKeepsSum
    <3> QED BY <2>3, <3>3
  <2>4. CASE agg = "avg"
    <3>1. shown.bars = top
      BY <1>1, <1>4, <2>4
    <3> QED BY <2>2, <2>4, <3>1
  <2>5. CASE agg \in {"min", "max"}
    <3>1. shown.bars = top \cup {o}
      BY <1>1, <1>4, <2>5
    <3>2. fold = IF agg = "min" THEN Min({Drawn(b) : b \in tail}) ELSE Max({Drawn(b) : b \in tail})
      BY <2>5
    <3>3. tail \subseteq level
      OBVIOUS
    <3> HIDE DEF tail, top, fold
    <3>4. \E c \in tail : fold = Drawn(c)
      BY <2>1, <2>2, <3>2, <3>3, FoldedIs DEF tail
    <3> QED BY <1>2, <2>2, <2>5, <3>1, <3>3, <3>4
  <2>6. agg \notin {"count", "sum", "avg", "min", "max"} => Goal
    OBVIOUS
  <2> QED BY <2>3, <2>4, <2>5, <2>6
<1> QED BY <1>3, <1>4
\* A measure that is a minimum, a maximum or an average lies in its column.
InColumn(y, m, rows) ==
  y = Null \/ Between(y, UnitOf(m), {r[m.col] : r \in rows} \ {Null})

LEMMA LevelInColumn ==
  ASSUME NEW spec, NEW all, SoundTable(all), NEW rows, rows \subseteq all,
         NEW override, NEW drop, spec.mode # "clause" \/ Alone(spec, override),
         measure(spec).agg \in {"min", "max", "avg"}
  PROVE  \A b \in Aggregated(spec, rows, override, drop) : InColumn(b.y, measure(spec), all)
<1> DEFINE m == measure(spec)
           level == Aggregated(spec, rows, override, drop)
<1>1. SoundTable(rows)
  BY SoundPart
<1>2. \A b \in level : \E sub \in SUBSET rows : b.y = MeasureOf(m, sub)
  BY <1>1, LevelType
<1>3. m.agg \in Aggregates /\ \A sub \in SUBSET all : HasColumn(sub, m.col)
  BY SoundPart, MeasureOfSpec
<1>4. m.agg \in {"min", "max", "avg"}
  OBVIOUS
<1> HIDE DEF m, level
<1>5. ASSUME NEW sub \in SUBSET rows PROVE InColumn(MeasureOf(m, sub), m, all)
  <2>1. HasColumn(sub, m.col) /\ HasColumn(all, m.col) /\ sub \subseteq all
    BY <1>3
  <2>2. LET y == MeasureOf(m, sub) IN
        y # Null => Between(y, UnitOf(m), {r[m.col] : r \in all} \ {Null})
    BY <1>3, <1>4, <2>1, MeasureRange
  <2> QED BY <2>2 DEF InColumn
<1> QED BY <1>2, <1>5 DEF m, level

\* What the designer draws: the first level of the chart, or a level below it,
\* of the table or of the sample.
Drew(shown, path) ==
  preview = [bars |-> shown.bars, rolledUp |-> shown.rolledUp,
             sampled |-> sampledCatalog(table), path |-> path]
DrewQuery ==
  LET level == buildAggregation(Resolved, Looked) IN
  /\ chart.type # "table" /\ level # Refused
  /\ Drew(previewTopGroups(Corrected(level, isAdditive(Resolved)), Resolved), <<>>)
DrewDrill ==
  \E path :
    LET level == buildDrill(Resolved, Looked, path)
        additive == IF isClauseChart(Resolved) THEN groupAggOf(Resolved) \in {"count", "sum"}
                    ELSE isAdditive(Resolved)
    IN /\ path # <<>> /\ Len(path) \in Nat /\ level # Refused
       /\ Drew([bars |-> Corrected(level, additive), rolledUp |-> TRUE], path)

Previewed ==
  /\ Posed /\ table \in Tables /\ (\E S : steps \in Seq(S))
  /\ preview = NoPreview \/ DrewQuery \/ DrewDrill

LEMMA ResolvedKeeps ==
  ASSUME Posed
  PROVE  /\ Resolved.type = chart.type /\ Resolved.groupBy \in Seq(STRING)
BY QuestionsAssumption DEF Posed, ChartSpec, Resolved, resolveSpec

LEMMA LookedIs ==
  ASSUME table \in Tables
  PROVE  /\ SoundTable(table) /\ Looked \subseteq table
         /\ ~sampledCatalog(table) => Looked = table
         /\ \A w : Selected(Looked, w) \subseteq table
<1>1. Looked \subseteq table
  BY DEF Looked, Sample
<1>2. \A w : Selected(Looked, w) \subseteq Looked
  BY DEF Selected
<1> QED BY <1>1, <1>2, TablesAssumption DEF SoundTable, Looked

LEMMA NotAdditive ==
  ASSUME NEW level, measure(Resolved).agg \in {"min", "max", "avg"}
  PROVE  Corrected(level, isAdditive(Resolved)) = level
BY DEF Corrected, isAdditive

(***************************************************************************)
(* Previews (PreviewHonest).                                               *)
(***************************************************************************)
\* PreviewHonest, of one preview.
KeepsSum(shown, live) ==
  shown.rolledUp /\ AggOf(Resolved) \in {"count", "sum"}
    => DrawnSum(shown.bars) = DrawnSum(live)
Ranged == /\ measure(Resolved).agg \in {"min", "max", "avg"}
          /\ Resolved.mode = "clause" => groupByKeys(Resolved) = <<>>
NoNumber(b) ==
  b.x = Other /\ b.y = 0 /\ \E c \in buildAggregation(Resolved, Looked) : c.y = Null
InRange(shown) ==
  \A b \in shown.bars : InColumn(b.y, measure(Resolved), table) \/ NoNumber(b)
LiveAt(path) ==
  IF path = <<>> THEN buildAggregation(Resolved, table) ELSE buildDrill(Resolved, table, path)

LEMMA HonestIs ==
  ASSUME NEW shown, NEW path, Drew(shown, path),
         ~sampledCatalog(table) => KeepsSum(shown, LiveAt(path)),
         Ranged => InRange(shown)
  PROVE  PreviewHonest
<1> DEFINE m == measure(Resolved)
           column == {r[m.col] : r \in table} \ {Null}
           unit == IF m.agg = "avg" THEN 10 ELSE 1
           live == LiveAt(path)
<1>1. /\ preview.bars = shown.bars /\ preview.rolledUp = shown.rolledUp
      /\ preview.sampled = sampledCatalog(table) /\ preview.path = path
  BY DEF Drew
<1>2. PreviewHonest <=>
        (preview # NoPreview =>
           /\ ~preview.sampled /\ preview.rolledUp /\ AggOf(Resolved) \in {"count", "sum"}
              => DrawnSum(preview.bars) = DrawnSum(live)
           /\ preview.sampled /\ Ranged
              => \A b \in preview.bars :
                   \/ b.y = Null
                   \/ unit * Min(column) =< b.y /\ b.y =< unit * Max(column)
                   \/ NoNumber(b))
  BY <1>1 DEF PreviewHonest, Ranged, NoNumber, LiveAt
<1>3. \A b : InColumn(b.y, m, table) <=>
               b.y = Null \/ (unit * Min(column) =< b.y /\ b.y =< unit * Max(column))
  BY DEF InColumn, Between, UnitOf
<1> HIDE DEF m, column, unit, live
<1>4. ~sampledCatalog(table) /\ shown.rolledUp /\ AggOf(Resolved) \in {"count", "sum"}
        => DrawnSum(shown.bars) = DrawnSum(live)
  BY DEF KeepsSum, live
<1>5. Ranged => \A b \in shown.bars : InColumn(b.y, m, table) \/ NoNumber(b)
  BY DEF InRange, m
<1> QED BY <1>1, <1>2, <1>3, <1>4, <1>5

LEMMA QueryHonest ==
  ASSUME Posed, table \in Tables, DrewQuery
  PROVE  PreviewHonest
<1> DEFINE level == buildAggregation(Resolved, Looked)
           rows == Selected(Looked, Where(Resolved, <<>>))
           asked == Corrected(level, isAdditive(Resolved))
           shown == previewTopGroups(asked, Resolved)
<1>1. chart.type # "table" /\ level # Refused /\ Drew(shown, <<>>)
  BY DEF DrewQuery
<1>2. level = Answered(Resolved, Looked, Where(Resolved, <<>>), None, FALSE)
  BY DEF buildAggregation, buildAggregationCore
<1>3. validateSpec(Resolved) /\ level = FirstBars(Resolved, rows)
  BY <1>1, <1>2 DEF Answered, FirstBars
<1>4. SoundTable(rows) /\ SoundTable(table) /\ rows \subseteq table
  BY LookedIs, SoundPart
<1>5. Resolved.type # "table" /\ Resolved.groupBy \in Seq(STRING)
  BY <1>1, ResolvedKeeps
<1> DEFINE trimmed == previewTopGroups(level, Resolved)
<1> HIDE DEF level, rows
<1>6. /\ trimmed.rolledUp /\ AggOf(Resolved) \in {"count", "sum"}
           => DrawnSum(trimmed.bars) = DrawnSum(level)
      /\ AggOf(Resolved) \in {"min", "max", "avg"}
           => \A b \in trimmed.bars :
                b \in level \/ (b.x = Other /\ \E c \in level : b.y = Drawn(c))
  BY <1>3, <1>4, <1>5, TrimmedIs
<1>7. ~sampledCatalog(table) => KeepsSum(shown, LiveAt(<<>>))
  <2> SUFFICES ASSUME ~sampledCatalog(table) PROVE KeepsSum(shown, LiveAt(<<>>))
    OBVIOUS
  <2>1. asked = level
    BY DEF Corrected
  <2>2. LiveAt(<<>>) = level
    BY LookedIs DEF LiveAt, level
  <2> QED BY <1>6, <2>1, <2>2 DEF KeepsSum
<1>8. Ranged => InRange(shown)
  <2> SUFFICES ASSUME Ranged PROVE InRange(shown)
    OBVIOUS
  <2>1. asked = level
    BY NotAdditive DEF Ranged
  <2>2. AggOf(Resolved) = measure(Resolved).agg
    BY DEF AggOf, isClauseChart, groupByKeys, Ranged
  <2>3. Resolved.mode # "clause" \/ Alone(Resolved, None)
    BY DEF Ranged, Alone
  <2>4. \A b \in level : InColumn(b.y, measure(Resolved), table)
    BY <1>3, <1>4, <2>3, LevelInColumn DEF FirstBars, Ranged
  <2>5. \A b \in trimmed.bars : b \in level \/ (b.x = Other /\ \E c \in level : b.y = Drawn(c))
    BY <1>6, <2>2 DEF Ranged
  <2> HIDE DEF trimmed
  <2>6. ASSUME NEW b \in trimmed.bars, b.x = Other, NEW c \in level, b.y = Drawn(c)
        PROVE  InColumn(b.y, measure(Resolved), table) \/ NoNumber(b)
    <3>1. CASE c.y = Null
      BY <2>6, <3>1 DEF NoNumber, Drawn, level
    <3>2. CASE c.y # Null
      BY <2>4, <2>6, <3>2 DEF Drawn
    <3> QED BY <3>1, <3>2
  <2>7. InRange(trimmed)
    BY <2>4, <2>5, <2>6 DEF InRange
  <2> QED BY <2>1, <2>7 DEF trimmed
<1> HIDE DEF shown
<1> QED BY <1>1, <1>7, <1>8, HonestIs

LEMMA DrillHonest ==
  ASSUME Posed, table \in Tables, DrewDrill
  PROVE  PreviewHonest
<1>1. PICK path :
        LET level == buildDrill(Resolved, Looked, path)
            additive == IF isClauseChart(Resolved) THEN groupAggOf(Resolved) \in {"count", "sum"}
                        ELSE isAdditive(Resolved)
        IN /\ path # <<>> /\ Len(path) \in Nat /\ level # Refused
           /\ Drew([bars |-> Corrected(level, additive), rolledUp |-> TRUE], path)
  BY DEF DrewDrill
<1> DEFINE level == buildDrill(Resolved, Looked, path)
           additive == IF isClauseChart(Resolved) THEN groupAggOf(Resolved) \in {"count", "sum"}
                       ELSE isAdditive(Resolved)
           shown == [bars |-> Corrected(level, additive), rolledUp |-> TRUE]
           keys == drillSequence(Resolved)
           dim == keys[Len(path) + 1]
           w == Where(Resolved, path)
           rows == Selected(Looked, w)
<1>2. path # <<>> /\ Len(path) \in Nat /\ level # Refused /\ Drew(shown, path)
  BY <1>1
<1>3. shown.bars = Corrected(level, additive)
  OBVIOUS
<1>4. ~sampledCatalog(table) => KeepsSum(shown, LiveAt(path))
  <2> SUFFICES ASSUME ~sampledCatalog(table) PROVE shown.bars = LiveAt(path)
    BY DEF KeepsSum
  <2>1. LiveAt(path) = level
    BY <1>2, LookedIs DEF LiveAt
  <2> QED BY <1>3, <2>1 DEF Corrected
<1>5. level = {} \/ (level = Aggregated(Resolved, rows, dim, TRUE) /\ ~(Len(path) >= Len(keys)))
  BY <1>2 DEF buildDrill, buildAggregationCore, Answered
<1> HIDE DEF level, shown
<1>6. Ranged => InRange(shown)
  <2> SUFFICES ASSUME Ranged PROVE InRange(shown)
    OBVIOUS
  <2>1. ~isClauseChart(Resolved)
    BY DEF isClauseChart, groupByKeys, Ranged
  <2>2. shown.bars = level
    BY <1>3, <2>1, NotAdditive DEF Ranged
  <2>3. CASE level = {}
    BY <2>2, <2>3 DEF InRange
  <2>4. CASE level # {}
    <3>1. Resolved.mode # "clause"
      <4> SUFFICES ASSUME Resolved.mode = "clause" PROVE FALSE
        OBVIOUS
      <4>1. keys = <<>>
        BY DEF drillSequence, Ranged
      <4>2. Len(path) >= Len(keys)
        BY <1>2, <4>1
      <4> QED BY <1>5, <2>4, <4>2
    <3>2. SoundTable(table) /\ rows \subseteq table
      BY LookedIs
    <3> HIDE DEF rows, dim
    <3>3. \A b \in level : InColumn(b.y, measure(Resolved), table)
      BY <1>5, <2>4, <3>1, <3>2, LevelInColumn DEF Ranged
    <3> QED BY <2>2, <3>3 DEF InRange
  <2> QED BY <2>3, <2>4
<1> QED BY <1>2, <1>4, <1>6, HonestIs

\* A preview never invents: on the whole table it keeps the sum of the chart,
\* and on a sample a minimum, a maximum or an average stays in the range of its
\* column, but for an "Other" of groups without a value, whatever is asked, of
\* whatever table.
THEOREM PreviewsAreHonest == Spec => []PreviewHonest
<1>1. Init => Previewed
  <2> SUFFICES ASSUME Init PROVE Previewed
    OBVIOUS
  <2>1. steps \in Seq({})
    BY DEF Init
  <2> QED BY <2>1 DEF Init, Previewed, Posed
<1>2. Previewed /\ [Next]_vars => Previewed'
  <2> SUFFICES ASSUME Previewed, [Next]_vars PROVE Previewed'
    OBVIOUS
  <2>1. UNCHANGED <<table, view, chart>> => Posed' /\ (table \in Tables)' /\ Resolved' = Resolved /\ Looked' = Looked
    BY DEF Previewed, Posed, Resolved, Looked, sampledCatalog
  <2>2. ASSUME UNCHANGED <<table, view, chart, preview>>, (\E S : steps \in Seq(S))'
        PROVE  Previewed'
    <3>1. DrewQuery => DrewQuery'
      BY <2>1, <2>2 DEF DrewQuery, Drew, Corrected
    <3>2. DrewDrill => DrewDrill'
      BY <2>1, <2>2 DEF DrewDrill, Drew, Corrected
    <3> QED BY <2>1, <2>2, <3>1, <3>2 DEF Previewed
  <2>3. CASE UNCHANGED vars
    BY <2>2, <2>3 DEF vars, Previewed
  <2>4. ASSUME NEW built \in BOOLEAN, Open(built) PROVE Previewed'
    BY <2>2, <2>4 DEF Open, Previewed
  <2>5. ASSUME NEW b, NEW built \in BOOLEAN, onSectionClick(b, built) PROVE Previewed'
    <3>1. UNCHANGED <<table, view, chart, preview>> /\ steps' = Append(steps, StepOf(b))
      BY <2>5 DEF onSectionClick
    <3>2. PICK S : steps \in Seq(S)
      BY DEF Previewed
    <3> DEFINE e == StepOf(b)
               T == S \cup {e}
    <3>3. steps \in Seq(T)
      BY <3>2
    <3>4. e \in T
      OBVIOUS
    <3> HIDE DEF e, T
    <3>5. Append(steps, e) \in Seq(T)
      BY <3>3, <3>4
    <3>6. steps' \in Seq(T)
      BY <3>1, <3>5 DEF e
    <3> QED BY <2>2, <3>1, <3>6
  <2>6. ASSUME NEW level \in 0..(Len(steps) - 1), NEW built \in BOOLEAN, jumpTo(level, built)
        PROVE  Previewed'
    <3>1. UNCHANGED <<table, view, chart, preview>> /\ steps' = SubSeq(steps, 1, level)
      BY <2>6 DEF jumpTo
    <3>2. PICK S : steps \in Seq(S)
      BY DEF Previewed
    <3>3. SubSeq(steps, 1, level) \in Seq(S)
      BY <3>2
    <3> QED BY <2>2, <3>1, <3>3
  <2>7. ASSUME NEW b, ShowRecords(b) PROVE Previewed'
    BY <2>2, <2>7 DEF ShowRecords, Previewed
  <2>8. CASE previewQuery
    <3>1. /\ chart.type # "table" /\ buildAggregation(Resolved, Looked) # Refused
          /\ UNCHANGED <<table, view, chart, steps>>
          /\ Shown(previewTopGroups(Corrected(buildAggregation(Resolved, Looked),
                                              isAdditive(Resolved)), Resolved), <<>>)
      BY <2>8 DEF previewQuery, ShowQuery
    <3>2. DrewQuery'
      BY <2>1, <3>1 DEF DrewQuery, Drew, Corrected, Shown, sampledCatalog
    <3> QED BY <2>1, <3>1, <3>2 DEF Previewed
  <2>9. CASE previewDrill
    <3> DEFINE level == buildDrill(Resolved, Looked, steps)
               additive == IF isClauseChart(Resolved) THEN groupAggOf(Resolved) \in {"count", "sum"}
                           ELSE isAdditive(Resolved)
    <3>1. /\ steps # <<>> /\ level # Refused /\ UNCHANGED <<table, view, chart, steps>>
          /\ Shown([bars |-> Corrected(level, additive), rolledUp |-> TRUE], steps)
      BY <2>9 DEF previewDrill, ShowDrill
    <3>2. Len(steps) \in Nat
      BY DEF Previewed
    <3>3. DrewDrill'
      BY <2>1, <3>1, <3>2 DEF DrewDrill, Drew, Corrected, Shown, sampledCatalog
    <3> QED BY <2>1, <3>1, <3>3 DEF Previewed
  <2> QED BY <2>3, <2>4, <2>5, <2>6, <2>7, <2>8, <2>9 DEF Next
<1>3. Previewed => PreviewHonest
  <2>1. preview = NoPreview => PreviewHonest
    BY DEF PreviewHonest
  <2> QED BY <2>1, QueryHonest, DrillHonest DEF Previewed
<1> QED BY <1>1, <1>2, <1>3, PTL DEF Spec

(***************************************************************************)
(* The steps of a drill, as clauses of the statement.                      *)
(***************************************************************************)
\* A drill step as it is sent.
DrillStep == [dimension : STRING, value : Int]
Meets(step, r) == DimExpr(step.dimension, r) = step.value
Drill(w, step) ==
  LET plain == Dimensions[step.dimension].kind = "column" IN
  IF step.dimension \notin DOMAIN Dimensions THEN Fail(w)
  ELSE IF plain /\ step.value = NoneText
  THEN [w EXCEPT !.sql = And(@, << Test(step.dimension, "dim_null", <<>>) >>)]
  ELSE [w EXCEPT !.sql = And(@, << Test(step.dimension,
                                        IF plain THEN "dim_eq" ELSE "expr_eq",
                                        << Len(w.params) + 1 >>) >>),
                 !.params = Append(@, << step.value >>)]

\* The word a step adds, and the parameters it binds.
AskedBy(w, step) ==
  LET plain == Dimensions[step.dimension].kind = "column" IN
  IF plain /\ step.value = NoneText THEN Test(step.dimension, "dim_null", <<>>)
  ELSE Test(step.dimension, IF plain THEN "dim_eq" ELSE "expr_eq", << Len(w.params) + 1 >>)
BoundBy(w, step) ==
  IF Dimensions[step.dimension].kind = "column" /\ step.value = NoneText THEN w.params
  ELSE Append(w.params, << step.value >>)

LEMMA AskedType ==
  ASSUME NEW w \in ParserState, NEW step \in DrillStep
  PROVE  /\ AskedBy(w, step) \in SqlWord /\ AskedBy(w, step).type = "TEST"
         /\ AskedBy(w, step).field = step.dimension
         /\ BoundBy(w, step) \in Seq(Seq(Int))
<1>1. Len(w.params) \in Nat /\ w.params \in Seq(Seq(Int))
  BY DEF ParserState
<1>2. << Len(w.params) + 1 >> \in Seq(Nat) /\ <<>> \in Seq(Nat)
  BY <1>1
<1>3. step.dimension \in STRING /\ <<step.value>> \in Seq(Int)
  BY DEF DrillStep
<1>4. \A op \in STRING, ps \in Seq(Nat) :
        LET x == Test(step.dimension, op, ps)
        IN x \in SqlWord /\ x.type = "TEST" /\ x.field = step.dimension
  BY <1>3 DEF Test, SqlWord
<1>5. "dim_null" \in STRING /\ "dim_eq" \in STRING /\ "expr_eq" \in STRING
  BY WordsAssumption
<1>6. \A s \in Seq(Seq(Int)), x \in Seq(Int) : Append(s, x) \in Seq(Seq(Int))
  OBVIOUS
<1> QED BY <1>1, <1>2, <1>3, <1>4, <1>5, <1>6 DEF AskedBy, BoundBy

LEMMA DrillIs ==
  ASSUME NEW w \in ParserState, NEW step \in DrillStep, step.dimension \in DOMAIN Dimensions
  PROVE  Drill(w, step) = [w EXCEPT !.sql = And(w.sql, <<AskedBy(w, step)>>),
                                   !.params = BoundBy(w, step)]
<1> DEFINE plain == Dimensions[step.dimension].kind = "column"
<1>1. CASE plain /\ step.value = NoneText
  <2>1. Drill(w, step) = [w EXCEPT !.sql = And(w.sql, <<AskedBy(w, step)>>)]
    BY <1>1 DEF Drill, AskedBy
  <2>2. BoundBy(w, step) = w.params
    BY <1>1 DEF BoundBy
  <2> HIDE DEF plain
  <2>3. \A x : [w EXCEPT !.sql = x] = [w EXCEPT !.sql = x, !.params = w.params]
    BY DEF ParserState
  <2> QED BY <2>1, <2>2, <2>3
<1>2. CASE ~(plain /\ step.value = NoneText)
  BY <1>2 DEF Drill, AskedBy, BoundBy
<1> QED BY <1>1, <1>2

LEMMA DrillType ==
  ASSUME NEW w \in ParserState, NEW step \in DrillStep
  PROVE  Drill(w, step) \in ParserState
<1>1. CASE step.dimension \notin DOMAIN Dimensions
  BY <1>1, FailType DEF Drill
<1>2. CASE step.dimension \in DOMAIN Dimensions
  <2> DEFINE x == AskedBy(w, step)
             t == And(w.sql, <<x>>)
  <2>1. x \in SqlWord /\ BoundBy(w, step) \in Seq(Seq(Int))
    BY AskedType
  <2>2. w.sql \in Seq(SqlWord) /\ <<x>> \in Seq(SqlWord) /\ <<Tok("AND")>> \in Seq(SqlWord)
    <3>1. Tok("AND") \in SqlWord
      BY MarkOf DEF Marks
    <3> HIDE DEF x
    <3> QED BY <2>1, <3>1 DEF ParserState
  <2> HIDE DEF x
  <2>3. t \in Seq(SqlWord)
    BY <2>2, ConcatProperties DEF And
  <2>4. Drill(w, step) = [w EXCEPT !.sql = t, !.params = BoundBy(w, step)]
    BY <1>2, DrillIs DEF x
  <2> HIDE DEF t
  <2>5. \A p \in Seq(Seq(Int)) : [w EXCEPT !.sql = t, !.params = p] \in ParserState
    BY <2>3 DEF ParserState
  <2> QED BY <2>1, <2>4, <2>5
<1> QED BY <1>1, <1>2

\* The statements a path is written through.
LEMMA DrillRuns ==
  ASSUME NEW scope, scope.conds \in Seq(Condition), scope.logic \in Seq(Lexeme),
         NEW path \in Seq(DrillStep)
  PROVE  \E f : /\ f[0] = buildChartWhere(scope, <<>>) /\ f[Len(path)] = buildChartWhere(scope, path)
                /\ f[0] \in ParserState
                /\ \A n \in 1..Len(path) : f[n] = Drill(f[n - 1], path[n])
<1> DEFINE N == Len(path)
           first == buildExpressionWhere(scope.conds, scope.logic, 0)
           H == [p \in (1..N) \X ParserState |-> Drill(p[2], path[p[1]])]
           upTo == CHOOSE f : f = [n \in 0..N |-> IF n = 0 THEN first ELSE Drill(f[n - 1], path[n])]
<1>1. N \in Nat /\ \A n \in 1..N : path[n] \in DrillStep
  OBVIOUS
<1>2. buildChartWhere(scope, path) = upTo[N]
  BY DEF buildChartWhere, Drill
<1>3. first = buildChartWhere(scope, <<>>)
  BY BareWhere
<1>4. first \in ParserState
  BY WrittenType
<1> HIDE DEF N, first
<1>5. \A n \in 1..N, x \in ParserState : Drill(x, path[n]) \in ParserState
  BY <1>1, DrillType
<1>6. H \in Steps(N, ParserState) /\ \A n \in 1..N, x \in ParserState : H[<<n, x>>] = Drill(x, path[n])
  BY <1>5 DEF Steps
<1> HIDE DEF H
<1>7. \E f : f = [n \in 0..N |-> IF n = 0 THEN first ELSE Drill(f[n - 1], path[n])]
  <2>2. PICK f : Iterates(f, N, ParserState, first, H)
    BY <1>1, <1>4, <1>6, IterationExists
  <2>3. ASSUME NEW n \in 0..N PROVE f[n] = IF n = 0 THEN first ELSE Drill(f[n - 1], path[n])
    <3>1. CASE n = 0
      BY <2>2, <3>1 DEF Iterates
    <3>2. CASE n # 0
      <4>1. n \in 1..N /\ n - 1 \in 0..N
        BY <1>1, <3>2
      <4>2. f[n - 1] \in ParserState /\ f[n] = H[<<n, f[n - 1]>>]
        BY <2>2, <4>1 DEF Iterates
      <4> QED BY <1>6, <3>2, <4>1, <4>2
    <3> QED BY <3>1, <3>2
  <2>4. f = [n \in 0..N |-> f[n]]
    BY <2>2 DEF Iterates
  <2>5. f = [n \in 0..N |-> IF n = 0 THEN first ELSE Drill(f[n - 1], path[n])]
    BY <2>3, <2>4
  <2> QED BY <2>5
<1>8. upTo = [n \in 0..N |-> IF n = 0 THEN first ELSE Drill(upTo[n - 1], path[n])]
  BY <1>7
<1> HIDE DEF upTo
<1>9. upTo[0] = first /\ \A n \in 1..N : upTo[n] = Drill(upTo[n - 1], path[n])
  BY <1>1, <1>8
<1> QED BY <1>2, <1>3, <1>4, <1>9 DEF N

\* The word is true of the rows that meet the step.
LEMMA AskedMeans ==
  ASSUME NEW w \in ParserState, NEW step \in DrillStep, step.dimension \in DOMAIN Dimensions,
         step.value # Null, NEW r, r[Dimensions[step.dimension].col] \in Nat \cup {Null},
         NEW Q, Agree(Q, 0, BoundBy(w, step))
  PROVE  WordValue(AskedBy(w, step), Q, r) = Num(2) <=> Meets(step, r)
<1> DEFINE x == r[Dimensions[step.dimension].col]
           plain == Dimensions[step.dimension].kind = "column"
           m == Len(w.params)
           v == step.value
<1>1. x \in Nat \cup {Null} /\ v \in Int /\ v # Null
  BY DEF DrillStep
<1>2. \A a, b : Num(a) = Num(b) <=> a = b
  BY DEF Num
<1>3. DimExpr(step.dimension, r) = IF Dimensions[step.dimension].kind = "bucket"
                                   THEN IF x = Null THEN Null ELSE x \div 4
                                   ELSE IF x = Null THEN NoneText ELSE x
  BY DEF DimExpr
<1>4. CASE plain /\ v = NoneText
  <2>1. WordValue(AskedBy(w, step), Q, r) = Num(Truth(x = Null))
    BY <1>4 DEF AskedBy, WordValue, Test
  <2>2. x = Null <=> DimExpr(step.dimension, r) = v
    BY <1>1, <1>3, <1>4 DEF Null, NoneText
  <2>3. Truth(x = Null) = 2 <=> x = Null
    BY DEF Truth
  <2> QED BY <1>2, <2>1, <2>2, <2>3 DEF Meets
<1>5. CASE ~(plain /\ v = NoneText)
  <2>1. m \in Nat /\ w.params \in Seq(Seq(Int))
    BY DEF ParserState
  <2>2. BoundBy(w, step) = Append(w.params, <<v>>)
    BY <1>5 DEF BoundBy
  <2>3. Len(Append(w.params, <<v>>)) = m + 1 /\ Append(w.params, <<v>>)[m + 1] = <<v>>
    BY <2>1, AppendProperties
  <2>4. Q[m + 1] = <<v>>
    <3>1. m + 1 \in 1..(m + 1) /\ 0 + (m + 1) = m + 1
      BY <2>1
    <3> QED BY <2>2, <2>3, <3>1 DEF Agree
  <2> DEFINE ps == <<m + 1>>
             a == [i \in DOMAIN ps |-> Q[ps[i]]]
  <2>5. a[1] = <<v>> /\ a[1][1] = v
    <3>1. 1 \in DOMAIN ps /\ ps[1] = m + 1
      OBVIOUS
    <3> HIDE DEF ps, m
    <3>2. a[1] = <<v>>
      BY <2>4, <3>1
    <3> QED BY <3>2
  <2>6. CASE plain
    <3>1. WordValue(AskedBy(w, step), Q, r) = Num(Equal(x, a[1][1]))
      BY <1>5, <2>6 DEF AskedBy, WordValue, Test
    <3>2. Equal(x, v) = 2 <=> x # Null /\ x = v
      BY DEF Equal, Truth
    <3>3. x # Null /\ x = v <=> DimExpr(step.dimension, r) = v
      BY <1>1, <1>3, <1>5, <2>6 DEF Null, NoneText
    <3> HIDE DEF a, x, v
    <3> QED BY <1>2, <2>5, <3>1, <3>2, <3>3 DEF Meets, v
  <2>7. CASE ~plain
    <3> DEFINE d == DimExpr(step.dimension, r)
    <3>1. WordValue(AskedBy(w, step), Q, r) = Num(Equal(d, a[1][1]))
      BY <1>5, <2>7 DEF AskedBy, WordValue, Test
    <3>2. Equal(d, v) = 2 <=> d # Null /\ d = v
      BY DEF Equal, Truth
    <3>3. d # Null /\ d = v <=> d = v
      BY <1>1
    <3> HIDE DEF a, d, v
    <3> QED BY <1>2, <2>5, <3>1, <3>2, <3>3 DEF Meets, v, d
  <2> QED BY <2>6, <2>7
<1> QED BY <1>4, <1>5

\* What the statement says after n steps.
Drilled(scope, path, n, w, rows) ==
  /\ w \in ParserState
  /\ w.bad <=> \/ buildChartWhere(scope, <<>>).bad
               \/ \E i \in 1..n : path[i].dimension \notin DOMAIN Dimensions
  /\ ~w.bad => /\ Clausal(w.sql)
               /\ \A Q : \A r \in rows : Agree(Q, 0, w.params) =>
                    /\ Chain(Row(Q, r), w.sql)
                    /\ Of(Row(Q, r), w.sql) = 2
                         <=> Meaning(scope, r) /\ \A i \in 1..n : Meets(path[i], r)

LEMMA FirstDrilled ==
  ASSUME NEW scope, scope.conds \in Seq(Condition), scope.logic \in Seq(Lexeme), NEW path, NEW rows
  PROVE  Drilled(scope, path, 0, buildChartWhere(scope, <<>>), rows)
<1> DEFINE w == buildExpressionWhere(scope.conds, scope.logic, 0)
<1>1. w = buildChartWhere(scope, <<>>)
  BY BareWhere
<1>2. w \in ParserState
  BY WrittenType
<1>3. ~w.bad => Filtered(scope, 0, w)
  BY WrittenMeans
<1> HIDE DEF w
<1> QED BY <1>1, <1>2, <1>3 DEF Drilled, Filtered

LEMMA NextDrilled ==
  ASSUME NEW scope, NEW path \in Seq(DrillStep), NEW n \in 1..Len(path), NEW rows, NEW w,
         path[n].value # Null,
         \A r \in rows : \A dim \in DOMAIN Dimensions : r[Dimensions[dim].col] \in Nat \cup {Null},
         Drilled(scope, path, n - 1, w, rows)
  PROVE  Drilled(scope, path, n, Drill(w, path[n]), rows)
<1> DEFINE step == path[n]
           p == Drill(w, step)
<1>1. n \in Nat /\ n # 0 /\ step \in DrillStep /\ w \in ParserState
  BY DEF Drilled
<1>2. p \in ParserState
  BY <1>1, DrillType
<1>4. CASE step.dimension \notin DOMAIN Dimensions
  <2>1. p.bad
    BY <1>1, <1>4, FailType DEF Drill
  <2>2. \E i \in 1..n : path[i].dimension \notin DOMAIN Dimensions
    BY <1>1, <1>4
  <2> HIDE DEF p
  <2> QED BY <1>2, <2>1, <2>2 DEF Drilled, p
<1>5. CASE step.dimension \in DOMAIN Dimensions
  <2> DEFINE x == AskedBy(w, step)
             one == <<x>>
             t == And(w.sql, one)
             ps == BoundBy(w, step)
  <2>1. x \in SqlWord /\ x.type = "TEST" /\ ps \in Seq(Seq(Int))
    BY <1>1, AskedType
  <2>2. p = [w EXCEPT !.sql = t, !.params = ps]
    BY <1>1, <1>5, DrillIs
  <2> HIDE DEF t, ps, p, x
  <2>3. p.bad = w.bad /\ p.sql = t /\ p.params = ps
    BY <1>1, <2>2 DEF ParserState
  <2>4. p.bad <=> \/ buildChartWhere(scope, <<>>).bad
                  \/ \E i \in 1..n : path[i].dimension \notin DOMAIN Dimensions
    <3>1. (\E i \in 1..n : path[i].dimension \notin DOMAIN Dimensions)
            <=> (\E i \in 1..(n - 1) : path[i].dimension \notin DOMAIN Dimensions)
      BY <1>1, <1>5
    <3> QED BY <2>3, <3>1 DEF Drilled
  <2>5. ASSUME ~p.bad
        PROVE  /\ Clausal(p.sql)
               /\ \A Q : \A r \in rows : Agree(Q, 0, p.params) =>
                    /\ Chain(Row(Q, r), p.sql)
                    /\ Of(Row(Q, r), p.sql) = 2
                         <=> Meaning(scope, r) /\ \A i \in 1..n : Meets(path[i], r)
    <3>1. Plain(one)
      BY <2>1, SingleShape DEF Plain, Shaping
    <3>2. Clausal(one) /\ Clausal(w.sql)
      BY <2>3, <2>5, <3>1, PlainChain DEF Drilled
    <3>3. Clausal(t)
      BY <3>2, AndClausal DEF t
    <3>4. ASSUME NEW Q, NEW r \in rows, Agree(Q, 0, p.params)
          PROVE  /\ Chain(Row(Q, r), p.sql)
                 /\ Of(Row(Q, r), p.sql) = 2
                      <=> Meaning(scope, r) /\ \A i \in 1..n : Meets(path[i], r)
      <4> DEFINE h == Row(Q, r)
      <4>1. Agree(Q, 0, w.params)
        <5>1. w.params \in Seq(Seq(Int)) /\ step.value \in Int
          BY <1>1 DEF ParserState, DrillStep
        <5>2. ps = w.params \/ ps = Append(w.params, <<step.value>>)
          BY DEF ps, BoundBy
        <5>3. \A i \in 1..Len(w.params) : i \in 1..Len(ps) /\ ps[i] = w.params[i]
          <6> DEFINE u == w.params
                     e == <<step.value>>
          <6>1. u \in Seq(Seq(Int)) /\ e \in Seq(Int)
            BY <5>1
          <6> HIDE DEF u, e
          <6>2. \A i \in 1..Len(u) : i \in 1..Len(Append(u, e)) /\ Append(u, e)[i] = u[i]
            BY <6>1
          <6>3. ps = u \/ ps = Append(u, e)
            BY <5>2 DEF u, e
          <6> QED BY <6>2, <6>3 DEF u
        <5> QED BY <2>3, <3>4, <5>3 DEF Agree
      <4>2. Chain(h, w.sql) /\ (Of(h, w.sql) = 2 <=> Meaning(scope, r)
                                                     /\ \A i \in 1..(n - 1) : Meets(path[i], r))
        BY <2>3, <2>5, <4>1 DEF Drilled
      <4>3. PICK v \in Three : WordValue(x, Q, r) = Num(v)
        BY <2>1, WordRange
      <4>4. Of(h, one) = v
        <5>1. h[x] = Num(v) /\ v \in Int
          BY <2>1, <4>3 DEF Row, Three
        <5> HIDE DEF h
        <5>2. Reading(h)
          BY RowReads DEF h
        <5> QED BY <2>1, <5>1, <5>2, OfOne
      <4>5. WordValue(x, Q, r) = Num(2) <=> Meets(step, r)
        BY <1>1, <1>5, <2>3, <3>4, AskedMeans DEF x, ps
      <4>6. v = 2 <=> Meets(step, r)
        BY <4>3, <4>5 DEF Num
      <4>7. Chain(h, one)
        BY <3>1, <4>4, PlainChain, RowReads
      <4>8. Chain(h, t) /\ (Of(h, t) = 2 <=> Of(h, w.sql) = 2 /\ Of(h, one) = 2)
        BY <3>2, <4>2, <4>7, RowReads, AndChain DEF t
      <4>9. (\A i \in 1..n : Meets(path[i], r))
              <=> (\A i \in 1..(n - 1) : Meets(path[i], r)) /\ Meets(path[n], r)
        BY <1>1
      <4> QED BY <2>3, <4>2, <4>4, <4>6, <4>8, <4>9
    <3> QED BY <2>3, <3>3, <3>4
  <2> QED BY <1>2, <2>4, <2>5 DEF Drilled, p
<1> QED BY <1>4, <1>5

\* A drill selects the rows of the chart that meet every step.
LEMMA DrillSelects ==
  ASSUME NEW scope, scope.conds \in Seq(Condition), scope.logic \in Seq(Lexeme),
         NEW path \in Seq(DrillStep), \A i \in 1..Len(path) : path[i].value # Null,
         NEW rows, SoundTable(rows)
  PROVE  LET w == buildChartWhere(scope, path)
             w0 == buildChartWhere(scope, <<>>)
         IN /\ w.bad <=> w0.bad \/ \E i \in 1..Len(path) : path[i].dimension \notin DOMAIN Dimensions
            /\ ~w.bad => Selected(rows, w) = {r \in Selected(rows, w0) :
                                               \A i \in 1..Len(path) : Meets(path[i], r)}
<1> DEFINE N == Len(path)
           w0 == buildChartWhere(scope, <<>>)
           w == buildChartWhere(scope, path)
<1>1. N \in Nat /\ \A r \in rows : \A dim \in DOMAIN Dimensions :
                     r[Dimensions[dim].col] \in Nat \cup {Null}
  BY DEF SoundTable
<1>2. PICK f : /\ f[0] = w0 /\ f[N] = w /\ f[0] \in ParserState
               /\ \A n \in 1..N : f[n] = Drill(f[n - 1], path[n])
  BY DrillRuns
<1>3. Drilled(scope, path, 0, w0, rows)
  BY FirstDrilled
<1>4. ASSUME NEW n \in 1..N, Drilled(scope, path, n - 1, f[n - 1], rows)
      PROVE  Drilled(scope, path, n, f[n], rows)
  BY <1>1, <1>2, <1>4, NextDrilled
<1> HIDE DEF N, w0, w
<1> DEFINE S == {n \in Nat : n \in 0..N => Drilled(scope, path, n, f[n], rows)}
<1>5. 0 \in S
  BY <1>2, <1>3
<1>6. ASSUME NEW n \in Nat, n \in S PROVE n + 1 \in S
  <2> SUFFICES ASSUME n + 1 \in 0..N PROVE Drilled(scope, path, n + 1, f[n + 1], rows)
    OBVIOUS
  <2>1. \A j, k \in Nat : j + 1 \in 0..k => j + 1 \in 1..k /\ (j + 1) - 1 = j /\ j \in 0..k
    OBVIOUS
  <2> QED BY <1>1, <1>4, <1>6, <2>1 DEF S
<1> HIDE DEF S
<1>7. N \in S
  BY <1>1, <1>5, <1>6, SetInduction
<1>8. Drilled(scope, path, N, w, rows)
  BY <1>1, <1>2, <1>7 DEF S
<1>9. \A b : b \in ParserState => Agree(b.params, 0, b.params)
  <2> SUFFICES ASSUME NEW b \in ParserState PROVE Agree(b.params, 0, b.params)
    OBVIOUS
  <2>1. Len(b.params) \in Nat
    BY DEF ParserState
  <2> QED BY <2>1 DEF Agree
<1>10. \A b, r : b \in ParserState =>
         Of(Row(b.params, r), b.sql) = Value[[i \in DOMAIN b.sql |-> WordValue(b.sql[i], b.params, r)]]
  <2> SUFFICES ASSUME NEW b \in ParserState, NEW r
               PROVE  Image(Row(b.params, r), b.sql)
                        = [i \in DOMAIN b.sql |-> WordValue(b.sql[i], b.params, r)]
    BY DEF Of
  <2>1. \A i \in DOMAIN b.sql : b.sql[i] \in SqlWord
    BY DEF ParserState
  <2> QED BY <2>1 DEF Row, Image
<1>11. \A n, b : Drilled(scope, path, n, b, rows) /\ ~b.bad =>
         \A r \in rows : r \in Selected(rows, b) <=> Meaning(scope, r) /\ \A i \in 1..n : Meets(path[i], r)
  BY <1>9, <1>10 DEF Drilled, Selected
<1>12. w.bad <=> w0.bad \/ \E i \in 1..N : path[i].dimension \notin DOMAIN Dimensions
  BY <1>8 DEF Drilled, w0
<1>13. ASSUME ~w.bad
       PROVE  Selected(rows, w) = {r \in Selected(rows, w0) : \A i \in 1..N : Meets(path[i], r)}
  <2>1. ~w0.bad
    BY <1>12, <1>13
  <2>2. \A r \in rows : r \in Selected(rows, w0) <=> Meaning(scope, r)
    BY <1>3, <1>11, <2>1
  <2>3. \A r \in rows : r \in Selected(rows, w)
                          <=> Meaning(scope, r) /\ \A i \in 1..N : Meets(path[i], r)
    BY <1>8, <1>11, <1>13
  <2>4. Selected(rows, w) \subseteq rows /\ Selected(rows, w0) \subseteq rows
    BY DEF Selected
  <2> QED BY <2>2, <2>3, <2>4
<1> QED BY <1>12, <1>13 DEF w, w0, N

(***************************************************************************)
(* A measure recombined from the parts its records are shared out in.      *)
(***************************************************************************)
Parted(sub, rows, h) == IsFiniteSet(sub) /\ sub # {} /\ \A r \in rows : h[r] \in sub

LEMMA PartColumn ==
  ASSUME NEW rows, NEW col, HasColumn(rows, col), NEW h, NEW c
  PROVE  HasColumn(Part(rows, h, c), col)
BY FS_Subset DEF HasColumn, Part

LEMMA PartTested ==
  ASSUME NEW m, NEW rows, NEW h, NEW c
  PROVE  Tested(m, Part(rows, h, c)) = Part(Tested(m, rows), h, c)
BY DEF Tested, Part

LEMMA PartHaving ==
  ASSUME NEW m, NEW rows, NEW h, NEW c
  PROVE  Having(m, Part(rows, h, c)) = Part(Having(m, rows), h, c)
<1>1. Tested(m, Part(rows, h, c)) = Part(Tested(m, rows), h, c)
  BY PartTested
<1> QED BY <1>1 DEF Having, Part

\* The cells that have a value, in the words of Over.
LEMMA OverIs ==
  ASSUME NEW sub, NEW agg
  PROVE  LET with == {c \in sub : c.v # Null} IN
         /\ with = {} => Over(sub, agg) = Null
         /\ with # {} /\ agg = "min" => Over(sub, agg) = Min({c.v : c \in with})
         /\ with # {} /\ agg = "max" => Over(sub, agg) = Max({c.v : c \in with})
         /\ with # {} /\ agg \in {"count", "sum"} => Over(sub, agg) = ColumnSum(with, "v")
<1> DEFINE with == {c \in sub : c.v # Null}
           lo == Min({c.v : c \in with})
           hi == Max({c.v : c \in with})
           total == ColumnSum(with, "v")
<1>1. Over(sub, agg) = IF with = {} THEN Null
                       ELSE CASE agg = "min" -> lo [] agg = "max" -> hi [] OTHER -> total
  BY DEF Over
<1> HIDE DEF lo, hi, total
<1>2. with # {} /\ agg = "min" => Over(sub, agg) = lo
  BY <1>1
<1>3. with # {} /\ agg = "max" => Over(sub, agg) = hi
  BY <1>1
<1>4. with # {} /\ agg \in {"count", "sum"} => Over(sub, agg) = total
  BY <1>1
<1>5. with = {} => Over(sub, agg) = Null
  BY <1>1
<1> QED BY <1>2, <1>3, <1>4, <1>5 DEF lo, hi, total

LEMMA CountOfParts ==
  ASSUME NEW S, IsFiniteSet(S), NEW sub, IsFiniteSet(sub), NEW h, \A r \in S : h[r] \in sub,
         NEW col, \A c \in sub : c[col] = Cardinality(Part(S, h, c))
  PROVE  ColumnSum(sub, col) = Cardinality(S)
<1> DEFINE ones == [r \in S |-> 1]
           e == ColumnOf(sub, col)
<1>1. Adds(ones, S)
  BY DEF Adds
<1>2. \A T \in SUBSET S : SumOf(ones, T) = Cardinality(T)
  <2> SUFFICES ASSUME NEW T \in SUBSET S PROVE SumOf(ones, T) = Cardinality(T)
    OBVIOUS
  <2>1. IsFiniteSet(T) /\ \A x \in T : ones[x] = 1
    BY FS_Subset
  <2> HIDE DEF ones
  <2> QED BY <2>1, SumOfOnes
<1> HIDE DEF ones
<1>3. \A c \in sub : e[c] = SumOf(ones, Part(S, h, c))
  BY <1>2 DEF ColumnOf, Part
<1> HIDE DEF e
<1>4. Adds(e, sub) /\ SumOf(ones, S) = SumOf(e, sub)
  BY <1>1, <1>3, SumByParts
<1>5. \A c \in sub : c[col] \in Int
  <2>1. \A c : Part(S, h, c) \subseteq S
    BY DEF Part
  <2> QED BY <2>1, FS_Subset, FS_CardinalityType
<1>6. ColumnSum(sub, col) = SumOf(e, sub)
  BY <1>5, ColumnSumType DEF e
<1>7. SumOf(ones, S) = Cardinality(S)
  BY <1>2
<1> QED BY <1>4, <1>6, <1>7

LEMMA SumOfParts ==
  ASSUME NEW S, IsFiniteSet(S), NEW of, \A r \in S : r[of] \in Int,
         NEW sub, IsFiniteSet(sub), NEW h, \A r \in S : h[r] \in sub,
         NEW col, \A c \in sub : c[col] = ColumnSum(Part(S, h, c), of)
  PROVE  ColumnSum(sub, col) = ColumnSum(S, of)
<1> DEFINE f == ColumnOf(S, of)
           e == ColumnOf(sub, col)
<1>1. Adds(f, S) /\ ColumnSum(S, of) = SumOf(f, S)
  BY ColumnSumType
<1>2. \A T \in SUBSET S : ColumnSum(T, of) = SumOf(f, T) /\ SumOf(f, T) \in Int
  <2> SUFFICES ASSUME NEW T \in SUBSET S
               PROVE  ColumnSum(T, of) = SumOf(f, T) /\ SumOf(f, T) \in Int
    OBVIOUS
  <2>1. IsFiniteSet(T) /\ \A x \in T : x[of] \in Int /\ f[x] = x[of]
    BY FS_Subset DEF ColumnOf
  <2> HIDE DEF f
  <2>2. ColumnSum(T, of) = SumOf(f, T)
    BY <2>1, ColumnSumIs
  <2> QED BY <1>1, <2>1, <2>2, AddsLess, SumType
<1> HIDE DEF f
<1>3. \A c \in sub : e[c] = SumOf(f, Part(S, h, c)) /\ c[col] \in Int
  BY <1>2 DEF ColumnOf, Part
<1>4. ColumnSum(sub, col) = SumOf(e, sub)
  BY <1>3, ColumnSumType
<1> HIDE DEF e
<1>5. SumOf(f, S) = SumOf(e, sub)
  BY <1>1, <1>3, SumByParts
<1> QED BY <1>1, <1>4, <1>5

ColumnValues(S, of) == {r[of] : r \in S}
ValuesOf(sub) == {c.v : c \in sub}
Numeric(S, of) == IsFiniteSet(S) /\ S # {} /\ \A r \in S : r[of] \in Int
Covered(S, sub, h) ==
  IsFiniteSet(sub) /\ (\A r \in S : h[r] \in sub) /\ \A c \in sub : Part(S, h, c) # {}
LeastOf(S, sub, h, of) == \A c \in sub : c.v = Min(ColumnValues(Part(S, h, c), of))
GreatestOf(S, sub, h, of) == \A c \in sub : c.v = Max(ColumnValues(Part(S, h, c), of))

\* The least of the least, and the greatest of the greatest.
LEMMA ExtremesOfParts ==
  ASSUME NEW S, NEW of, Numeric(S, of), NEW sub, NEW h, Covered(S, sub, h)
  PROVE  /\ LeastOf(S, sub, h, of) => Min(ValuesOf(sub)) = Min(ColumnValues(S, of))
         /\ GreatestOf(S, sub, h, of) => Max(ValuesOf(sub)) = Max(ColumnValues(S, of))
<1> USE DEF Numeric, Covered, LeastOf, GreatestOf
<1> DEFINE values(c) == ColumnValues(Part(S, h, c), of)
           U == ColumnValues(S, of)
           T == ValuesOf(sub)
<1> USE DEF ColumnValues, ValuesOf
<1>1. IsFiniteSet(U) /\ U \subseteq Int /\ U # {}
  BY ColumnFinite
<1>2. Extremes(U)
  BY <1>1, ExtremesAre
<1>3. ASSUME NEW c \in sub PROVE Extremes(values(c)) /\ values(c) \subseteq U /\ values(c) # {}
  <2>1. values(c) \subseteq U /\ values(c) # {}
    BY DEF Part
  <2>2. IsFiniteSet(values(c)) /\ values(c) \subseteq Int
    BY <1>1, <2>1, FS_Subset
  <2> HIDE DEF values
  <2> QED BY <2>1, <2>2, ExtremesAre
<1>4. IsFiniteSet(T) /\ T # {}
  <2> DEFINE g == [c \in sub |-> c.v]
  <2>1. IsFiniteSet({g[c] : c \in sub})
    BY ImageFinite
  <2>2. {g[c] : c \in sub} = T
    OBVIOUS
  <2> QED BY <2>1, <2>2
<1>5. \A r \in S : r[of] \in values(h[r]) /\ h[r] \in sub
  BY DEF Part
<1>6. \A u \in U : \E c \in sub : u \in values(c)
  BY <1>5
<1> HIDE DEF values, U, ColumnValues
<1>7. ASSUME LeastOf(S, sub, h, of) PROVE Min(T) = Min(U)
  <2>9. \A c \in sub : c.v = Min(values(c))
    BY <1>7 DEF values
  <2>1. \A c \in sub : c.v \in U /\ \A x \in values(c) : c.v <= x
    <3> HIDE DEF LeastOf, GreatestOf
    <3> QED BY <1>3, <2>9 DEF Extremes
  <2>2. T \subseteq U /\ T \subseteq Int
    BY <1>1, <2>1
  <2>3. Extremes(T)
    BY <1>4, <2>2, ExtremesAre
  <2>4. Min(U) \in U /\ Min(T) \in T /\ Min(T) \in Int /\ Min(U) \in Int /\ Min(U) <= Min(T)
    BY <1>1, <1>2, <2>2, <2>3 DEF Extremes
  <2>5. PICK c \in sub : Min(U) \in values(c)
    BY <1>6, <2>4
  <2>6. c.v <= Min(U) /\ c.v \in T /\ Min(T) <= c.v /\ c.v \in Int
    BY <1>1, <2>1, <2>3, <2>5 DEF Extremes
  <2> HIDE DEF T
  <2> QED BY <2>4, <2>6
<1>8. ASSUME GreatestOf(S, sub, h, of) PROVE Max(T) = Max(U)
  <2>9. \A c \in sub : c.v = Max(values(c))
    BY <1>8 DEF values
  <2>1. \A c \in sub : c.v \in U /\ \A x \in values(c) : x <= c.v
    <3> HIDE DEF LeastOf, GreatestOf
    <3> QED BY <1>3, <2>9 DEF Extremes
  <2>2. T \subseteq U /\ T \subseteq Int
    BY <1>1, <2>1
  <2>3. Extremes(T)
    BY <1>4, <2>2, ExtremesAre
  <2>4. Max(U) \in U /\ Max(T) \in T /\ Max(T) \in Int /\ Max(U) \in Int /\ Max(T) <= Max(U)
    BY <1>1, <1>2, <2>2, <2>3 DEF Extremes
  <2>5. PICK c \in sub : Max(U) \in values(c)
    BY <1>6, <2>4
  <2>6. Max(U) <= c.v /\ c.v \in T /\ c.v <= Max(T) /\ c.v \in Int
    BY <1>1, <2>1, <2>3, <2>5 DEF Extremes
  <2> HIDE DEF T
  <2> QED BY <2>4, <2>6
<1> QED BY <1>7, <1>8 DEF values, U

\* Records that have a value have a sum, a least and a greatest one.
LEMMA ValueHad ==
  ASSUME NEW m, m.agg \in {"sum", "min", "max"}, NEW rows, HasColumn(rows, m.col)
  PROVE  MeasureOf(m, rows) = Null <=> Having(m, rows) = {}
<1> DEFINE H == Having(m, rows)
           column == {r[m.col] : r \in H}
<1>1. IsFiniteSet(H) /\ \A r \in H : r[m.col] \in Nat
  BY HavingIs
<1>2. m.agg \in Aggregates
  BY DEF Aggregates
<1>3. H = {} => MeasureOf(m, rows) = Null
  BY <1>2, MeasureIs
<1>4. ASSUME H # {} PROVE MeasureOf(m, rows) \in Nat
  <2>1. IsFiniteSet(column)
    BY <1>1, ColumnFinite
  <2>2. column \subseteq Nat /\ column \subseteq Int /\ column # {}
    BY <1>1, <1>4
  <2>3. Min(column) \in Nat /\ Max(column) \in Nat
    <3> HIDE DEF column
    <3> QED BY <2>1, <2>2, ExtremesAre DEF Extremes
  <2>4. ColumnSum(H, m.col) \in Nat
    <3> DEFINE f == ColumnOf(H, m.col)
    <3>1. \A r \in H : f[r] \in Nat
      BY <1>1 DEF ColumnOf
    <3>2. ColumnSum(H, m.col) = SumOf(f, H)
      BY <1>1, ColumnSumType
    <3> HIDE DEF f, H
    <3> QED BY <1>1, <3>1, <3>2, SumNat
  <2> QED BY <1>2, <1>4, <2>3, <2>4, MeasureIs
<1> QED BY <1>3, <1>4 DEF Null

LEMMA OverOfParts ==
  ASSUME NEW m, m.agg \in {"count", "sum", "min", "max"}, NEW rows, HasColumn(rows, m.col),
         NEW sub, NEW h, Parted(sub, rows, h),
         \A c \in sub : c.v = MeasureOf(m, Part(rows, h, c)) /\ c["v"] = c.v
  PROVE  Over(sub, m.agg) = MeasureOf(m, rows)
<1> DEFINE with == {c \in sub : c.v # Null}
           T == Tested(m, rows)
           H == Having(m, rows)
<1>1. /\ IsFiniteSet(T) /\ T \subseteq rows /\ IsFiniteSet(H) /\ H \subseteq T
      /\ \A r \in H : r[m.col] \in Nat
  BY HavingIs
<1>2. /\ IsFiniteSet(sub) /\ sub # {} /\ (\A r \in T : h[r] \in sub) /\ \A r \in H : h[r] \in sub
  BY <1>1 DEF Parted
<1>3. m.agg \in Aggregates
  BY DEF Aggregates
<1>4. \A c : HasColumn(Part(rows, h, c), m.col)
  BY PartColumn
<1>5. \A c : Tested(m, Part(rows, h, c)) = Part(T, h, c) /\ Having(m, Part(rows, h, c)) = Part(H, h, c)
  BY PartTested, PartHaving
<1> HIDE DEF T, H
<1>6. CASE m.agg = "count"
  <2>1. \A c \in sub : c["v"] = Cardinality(Part(T, h, c)) /\ c.v = c["v"]
    BY <1>3, <1>5, <1>6, MeasureIs
  <2>2. \A c \in sub : Cardinality(Part(T, h, c)) \in Nat
    <3>1. \A c : Part(T, h, c) \subseteq T
      BY DEF Part
    <3> QED BY <1>1, <3>1, FS_Subset, FS_CardinalityType
  <2>3. with = sub
    BY <2>1, <2>2 DEF Null
  <2>4. ColumnSum(sub, "v") = Cardinality(T)
    <3> DEFINE col == "v"
    <3>1. \A c \in sub : c[col] = Cardinality(Part(T, h, c))
      BY <2>1
    <3> HIDE DEF col
    <3>2. ColumnSum(sub, col) = Cardinality(T)
      BY <1>1, <1>2, <3>1, CountOfParts
    <3> QED BY <3>2 DEF col
  <2>5. Over(sub, m.agg) = ColumnSum(with, "v")
    BY <1>2, <1>6, <2>3, OverIs
  <2>6. MeasureOf(m, rows) = Cardinality(T)
    BY <1>3, <1>6, MeasureIs DEF T
  <2> QED BY <2>3, <2>4, <2>5, <2>6
<1>7. CASE m.agg # "count"
  <2>1. m.agg \in {"sum", "min", "max"}
    BY <1>7
  <2>2. \A c \in sub : c.v # Null <=> Part(H, h, c) # {}
    BY <1>4, <1>5, <2>1, ValueHad
  <2>3. \A r \in H : h[r] \in with
    BY <1>2, <2>2 DEF Part
  <2>4. IsFiniteSet(with)
    BY <1>2, FS_Subset
  <2>5. CASE H = {}
    <3>1. with = {}
      BY <2>2, <2>5 DEF Part
    <3>2. MeasureOf(m, rows) = Null
      BY <1>3, <1>7, <2>5, MeasureIs DEF H
    <3> QED BY <3>1, <3>2, OverIs
  <2>6. CASE H # {}
    <3>1. with # {}
      BY <2>3, <2>6
    <3>2. \A c \in with : Part(H, h, c) # {} /\ c \in sub /\ c["v"] = c.v
                          /\ c.v = MeasureOf(m, Part(rows, h, c))
                          /\ Having(m, Part(rows, h, c)) = Part(H, h, c)
      BY <1>5, <2>2
    <3> HIDE DEF with
    <3>3. CASE m.agg = "sum"
      <4> DEFINE col == "v"
                 of == m.col
      <4>1. \A c \in with : c[col] = ColumnSum(Part(H, h, c), of)
        BY <1>3, <1>7, <3>2, <3>3, MeasureIs
      <4>2. \A r \in H : r[of] \in Int
        BY <1>1
      <4> HIDE DEF col, of
      <4>3. ColumnSum(with, col) = ColumnSum(H, of)
        BY <1>1, <2>3, <2>4, <4>1, <4>2, SumOfParts
      <4>4. MeasureOf(m, rows) = ColumnSum(H, of)
        BY <1>3, <2>6, <3>3, MeasureIs DEF H, of
      <4>5. Over(sub, m.agg) = ColumnSum(with, col)
        BY <3>1, <3>3, OverIs DEF with, col
      <4> QED BY <4>3, <4>4, <4>5
    <3>4. CASE m.agg \in {"min", "max"}
      <4> DEFINE of == m.col
      <4>1. /\ m.agg = "min" => LeastOf(H, with, h, of)
            /\ m.agg = "max" => GreatestOf(H, with, h, of)
        BY <1>3, <3>2, MeasureIs DEF ColumnValues, LeastOf, GreatestOf
      <4>2. Numeric(H, of)
        BY <1>1, <2>6 DEF Numeric
      <4>3. /\ LeastOf(H, with, h, of) => Min(ValuesOf(with)) = Min(ColumnValues(H, of))
            /\ GreatestOf(H, with, h, of) => Max(ValuesOf(with)) = Max(ColumnValues(H, of))
        <5> HIDE DEF of
        <5>1. Covered(H, with, h)
          BY <2>3, <2>4, <3>2 DEF Covered
        <5> QED BY <4>2, <5>1, ExtremesOfParts
      <4>4. /\ m.agg = "min" => Over(sub, m.agg) = Min(ValuesOf(with))
            /\ m.agg = "max" => Over(sub, m.agg) = Max(ValuesOf(with))
        BY <3>1, OverIs DEF with, ValuesOf
      <4>5. /\ m.agg = "min" => MeasureOf(m, rows) = Min(ColumnValues(H, of))
            /\ m.agg = "max" => MeasureOf(m, rows) = Max(ColumnValues(H, of))
        BY <1>3, <2>6, MeasureIs DEF H, ColumnValues
      <4> HIDE DEF of
      <4> QED BY <3>4, <4>1, <4>3, <4>4, <4>5
    <3> QED BY <2>1, <3>3, <3>4
  <2> QED BY <2>5, <2>6
<1> QED BY <1>6, <1>7

LEMMA AverageOfParts ==
  ASSUME NEW m \in Measure, m.agg = "avg", m.test = "none", NEW rows, HasColumn(rows, m.col),
         NEW sub, NEW h, Parted(sub, rows, h),
         \A c \in sub : /\ c.v = MeasureOf([m EXCEPT !.agg = "sum"], Part(rows, h, c))
                        /\ c["v"] = c.v
                        /\ c["n"] = Cardinality({r \in Part(rows, h, c) : r[m.col] # Null})
  PROVE  MeasureOf(m, rows) = LET n == ColumnSum(sub, "n")
                              IN IF n = 0 THEN Null ELSE Tenths(Over(sub, "sum"), n)
<1> DEFINE sum == [m EXCEPT !.agg = "sum"]
           H == Having(m, rows)
<1>1. sum.agg = "sum" /\ sum.col = m.col /\ sum.test = "none" /\ sum.agg \in Aggregates
      /\ m.agg \in Aggregates
  BY DEF Measure, Aggregates
<1> HIDE DEF sum
<1>2. /\ IsFiniteSet(H) /\ H \subseteq rows
  BY HavingIs
<1>3. H = {r \in rows : r[m.col] # Null} /\ Having(sum, rows) = H
  BY <1>1 DEF Having, Tested
<1>4. Over(sub, "sum") = MeasureOf(sum, rows)
  <2>1. sum.agg \in {"count", "sum", "min", "max"} /\ HasColumn(rows, sum.col)
    BY <1>1
  <2>2. \A c \in sub : c.v = MeasureOf(sum, Part(rows, h, c)) /\ c["v"] = c.v
    BY DEF sum
  <2>3. Over(sub, sum.agg) = MeasureOf(sum, rows)
    BY <2>1, <2>2, OverOfParts
  <2> QED BY <1>1, <2>3
<1>5. ColumnSum(sub, "n") = Cardinality(H)
  <2> DEFINE col == "n"
  <2>1. \A c : {r \in Part(rows, h, c) : r[m.col] # Null} = Part(H, h, c)
    BY <1>3 DEF Part
  <2>2. \A c \in sub : c[col] = Cardinality(Part(H, h, c))
    BY <2>1
  <2>3. IsFiniteSet(sub) /\ \A r \in H : h[r] \in sub
    BY <1>2 DEF Parted
  <2> HIDE DEF col, H
  <2>4. ColumnSum(sub, col) = Cardinality(H)
    BY <1>2, <2>2, <2>3, CountOfParts
  <2> QED BY <2>4 DEF col
<1>6. CASE H = {}
  <2>1. Cardinality(H) = 0
    BY <1>6, FS_EmptySet
  <2>2. MeasureOf(m, rows) = Null
    BY <1>1, <1>6, MeasureIs
  <2> QED BY <1>5, <2>1, <2>2
<1>7. CASE H # {}
  <2>1. Cardinality(H) # 0
    BY <1>2, <1>7, FS_EmptySet
  <2>2. MeasureOf(m, rows) = Tenths(ColumnSum(H, m.col), Cardinality(H))
    BY <1>1, <1>7, MeasureIs
  <2>3. MeasureOf(sum, rows) = ColumnSum(H, m.col)
    BY <1>1, <1>3, <1>7, MeasureIs
  <2> HIDE DEF H
  <2> QED BY <1>4, <1>5, <2>1, <2>2, <2>3
<1> QED BY <1>6, <1>7

(***************************************************************************)
(* The cells of a breakdown, and what a measure recombined from them is.   *)
(***************************************************************************)
\* The cell of the rows that have a key.
CellKey(levels, series, r) == <<Values(levels, r), Values(series, r)>>
OfKey(levels, series, rows, k) == {r \in rows : CellKey(levels, series, r) = k}
CellOf(spec, levels, series, rows, k) ==
  LET in == OfKey(levels, series, rows, k)
      m == measure(spec)
      counted == spec.mode = "clause"
      avg == ~counted /\ m.agg = "avg"
  IN [g |-> k[1], s |-> Without(k[2], Null), key |-> k,
      v |-> IF counted THEN Cardinality(in)
            ELSE MeasureOf(IF avg THEN [m EXCEPT !.agg = "sum"] ELSE m, in),
      n |-> IF avg THEN Cardinality({r \in in : r[m.col] # Null}) ELSE 1]

LEMMA CellsAll ==
  ASSUME NEW spec, NEW levels, NEW series, NEW rows
  PROVE  Cells(spec, levels, series, rows)
           = {CellOf(spec, levels, series, rows, CellKey(levels, series, r)) : r \in rows}
<1> DEFINE key(r) == <<Values(levels, r), Values(series, r)>>
           m == measure(spec)
           counted == spec.mode = "clause"
           avg == ~counted /\ m.agg = "avg"
           of(k) == {r \in rows : key(r) = k}
           cell(k) == [g |-> k[1], s |-> Without(k[2], Null), key |-> k,
                       v |-> IF counted THEN Cardinality(of(k))
                             ELSE MeasureOf(IF avg THEN [m EXCEPT !.agg = "sum"] ELSE m, of(k)),
                       n |-> IF avg THEN Cardinality({r \in of(k) : r[m.col] # Null}) ELSE 1]
<1>1. Cells(spec, levels, series, rows) = {cell(k) : k \in {key(r) : r \in rows}}
  BY DEF Cells
<1>2. \A k : cell(k) = CellOf(spec, levels, series, rows, k)
  BY DEF CellOf, OfKey, CellKey
<1>3. \A r : key(r) = CellKey(levels, series, r)
  BY DEF CellKey
<1> HIDE DEF cell, key
<1> QED BY <1>1, <1>2, <1>3

LEMMA CellKeeps ==
  ASSUME NEW spec, NEW levels, NEW series, NEW rows, NEW k
  PROVE  /\ CellOf(spec, levels, series, rows, k).key = k
         /\ CellOf(spec, levels, series, rows, k).g = k[1]
         /\ CellOf(spec, levels, series, rows, k).s = Without(k[2], Null)
BY DEF CellOf

LEMMA CellCounts ==
  ASSUME NEW spec, NEW levels, NEW series, NEW rows, NEW k, spec.mode = "clause"
  PROVE  CellOf(spec, levels, series, rows, k).v
           = Cardinality(OfKey(levels, series, rows, k))
BY DEF CellOf

LEMMA CellMeasures ==
  ASSUME NEW spec, NEW levels, NEW series, NEW rows, NEW k, spec.mode # "clause",
         measure(spec).agg # "avg"
  PROVE  CellOf(spec, levels, series, rows, k).v
           = MeasureOf(measure(spec), OfKey(levels, series, rows, k))
BY DEF CellOf

LEMMA CellAverages ==
  ASSUME NEW spec, NEW levels, NEW series, NEW rows, NEW k, spec.mode # "clause",
         measure(spec).agg = "avg"
  PROVE  /\ CellOf(spec, levels, series, rows, k).v
              = MeasureOf([measure(spec) EXCEPT !.agg = "sum"], OfKey(levels, series, rows, k))
         /\ CellOf(spec, levels, series, rows, k).n
              = Cardinality({r \in OfKey(levels, series, rows, k) : r[measure(spec).col] # Null})
BY DEF CellOf

RowsOf(levels, series, rows, sub) ==
  {r \in rows : \E c \in sub : c.key = CellKey(levels, series, r)}

\* A measure recombined from cells is the measure of their rows.
LEMMA CellsRoll ==
  ASSUME NEW spec, spec.mode # "clause", NEW levels, NEW series, NEW rows, SoundTable(rows),
         NEW sub, sub \subseteq Cells(spec, levels, series, rows), sub # {}
  PROVE  Reagg(spec, sub) = MeasureOf(measure(spec), RowsOf(levels, series, rows, sub))
<1> DEFINE m == measure(spec)
           key(r) == CellKey(levels, series, r)
           cell(k) == CellOf(spec, levels, series, rows, k)
           R == RowsOf(levels, series, rows, sub)
           h == [r \in R |-> cell(key(r))]
<1>1. \A c \in sub : \E r \in rows : c = cell(key(r))
  BY CellsAll
<1>2. \A c \in sub : c = cell(c.key)
  <2>1. \A k : cell(k).key = k
    BY CellKeeps
  <2> HIDE DEF cell
  <2> QED BY <1>1, <2>1
<1>3. SoundTable(R) /\ R \subseteq rows
  BY SoundPart DEF RowsOf
<1>4. \A r \in R : h[r] \in sub
  BY <1>2 DEF RowsOf
<1>5. IsFiniteSet(sub)
  <2> DEFINE e == [r \in rows |-> cell(key(r))]
  <2>1. IsFiniteSet(rows)
    BY DEF SoundTable
  <2> HIDE DEF cell
  <2>2. {e[r] : r \in rows} = {cell(key(r)) : r \in rows}
    OBVIOUS
  <2>3. Cells(spec, levels, series, rows) = {cell(key(r)) : r \in rows}
    BY CellsAll DEF cell
  <2> HIDE DEF e
  <2>4. IsFiniteSet({e[r] : r \in rows})
    BY <2>1, ImageFinite
  <2> QED BY <2>2, <2>3, <2>4, FS_Subset
<1>6. \A c \in sub : Part(R, h, c) = OfKey(levels, series, rows, c.key)
  <2> SUFFICES ASSUME NEW c \in sub PROVE Part(R, h, c) = OfKey(levels, series, rows, c.key)
    OBVIOUS
  <2>1. \A r \in R : h[r] = c <=> key(r) = c.key
    <3>1. \A k : cell(k).key = k
      BY CellKeeps
    <3> HIDE DEF cell, key
    <3> QED BY <1>2, <3>1
  <2>2. \A r \in rows : key(r) = c.key => r \in R
    BY DEF RowsOf
  <2> HIDE DEF h, R
  <2> QED BY <1>3, <2>1, <2>2 DEF Part, OfKey
<1>7. Parted(sub, R, h)
  BY <1>4, <1>5 DEF Parted
<1>8. m \in Measure /\ m.agg \in Aggregates /\ HasColumn(R, m.col)
  BY <1>3, MeasureOfSpec
<1>9. ~isClauseChart(spec)
  BY DEF isClauseChart
<1> HIDE DEF R, h, key
<1>10. CASE m.agg # "avg"
  <2>1. \A c \in sub : c.v = MeasureOf(m, Part(R, h, c))
    <3>1. \A k : cell(k).v = MeasureOf(m, OfKey(levels, series, rows, k))
      BY <1>10, CellMeasures
    <3> HIDE DEF cell, m
    <3> QED BY <1>2, <1>6, <3>1
  <2> HIDE DEF m
  <2>2. Over(sub, m.agg) = MeasureOf(m, R)
    BY <1>7, <1>8, <1>10, <2>1, OverOfParts DEF Aggregates
  <2>3. Reagg(spec, sub) = Over(sub, m.agg)
    BY <1>9, <1>10 DEF Reagg, measureReaggParts, m
  <2> QED BY <2>2, <2>3 DEF R, m
<1>11. CASE m.agg = "avg"
  <2>1. m.test = "none"
    BY <1>11, CatalogAssumption DEF measure
  <2>2. \A c \in sub : /\ c.v = MeasureOf([m EXCEPT !.agg = "sum"], Part(R, h, c))
                       /\ c.n = Cardinality({r \in Part(R, h, c) : r[m.col] # Null})
    <3>1. \A k : /\ cell(k).v = MeasureOf([m EXCEPT !.agg = "sum"], OfKey(levels, series, rows, k))
                 /\ cell(k).n = Cardinality({r \in OfKey(levels, series, rows, k) : r[m.col] # Null})
      BY <1>11, CellAverages
    <3> HIDE DEF cell, m
    <3> QED BY <1>2, <1>6, <3>1
  <2> HIDE DEF m
  <2>3. MeasureOf(m, R) = LET n == ColumnSum(sub, "n")
                          IN IF n = 0 THEN Null ELSE Tenths(Over(sub, "sum"), n)
    BY <1>7, <1>8, <1>11, <2>1, <2>2, AverageOfParts
  <2>4. Reagg(spec, sub) = LET n == ColumnSum(sub, "n")
                           IN IF n = 0 THEN Null ELSE Tenths(Over(sub, "sum"), n)
    BY <1>9, <1>11 DEF Reagg, measureReaggParts, m
  <2> QED BY <2>3, <2>4 DEF R, m
<1> QED BY <1>10, <1>11

(***************************************************************************)
(* The levels of a breakdown: a bar for the rows at each value.            *)
(***************************************************************************)
\* The bars of the groups of one dimension.
AtValue(rows, dim, x) == {r \in rows : DimExpr(dim, r) = x}
NamedBars(spec, rows, dim) ==
  {Bar(DimExpr(dim, r), <<>>, MeasureOf(measure(spec), AtValue(rows, dim, DimExpr(dim, r))))
   : r \in rows}

LEMMA NoValues == \A r : Values(<<>>, r) = <<>>
BY DEF Values

LEMMA NothingLeftOut == ASSUME NEW gap PROVE Without(<<>>, gap) = <<>>
<1> DEFINE F == [n \in 0..0 |-> <<>>]
           upTo == CHOOSE f : f = [n \in 0..0 |->
                     IF n = 0 THEN <<>>
                     ELSE IF <<>>[n] = gap THEN f[n - 1] ELSE Append(f[n - 1], <<>>[n])]
<1>1. Without(<<>>, gap) = upTo[0]
  BY DEF Without
<1>2. F = [n \in 0..0 |-> IF n = 0 THEN <<>>
                          ELSE IF <<>>[n] = gap THEN F[n - 1] ELSE Append(F[n - 1], <<>>[n])]
  OBVIOUS
<1>3. upTo = [n \in 0..0 |-> IF n = 0 THEN <<>>
                             ELSE IF <<>>[n] = gap THEN upTo[n - 1] ELSE Append(upTo[n - 1], <<>>[n])]
  <2> HIDE DEF F
  <2> QED BY <1>2
<1> HIDE DEF upTo
<1>4. upTo[0] = <<>>
  BY <1>3
<1> QED BY <1>1, <1>4

LEMMA GroupedNamed ==
  ASSUME NEW spec, NEW rows, NEW dim
  PROVE  GroupedBars(spec, rows, dim, <<>>) = NamedBars(spec, rows, dim)
<1> DEFINE key(r) == <<DimExpr(dim, r), Values(<<>>, r)>>
           m == measure(spec)
           in(k) == {r \in rows : key(r) = k}
           bar(k) == Bar(k[1], Without(k[2], Null), MeasureOf(m, in(k)))
           named(r) == Bar(DimExpr(dim, r), <<>>, MeasureOf(m, AtValue(rows, dim, DimExpr(dim, r))))
<1>1. GroupedBars(spec, rows, dim, <<>>) = {bar(k) : k \in {key(r) : r \in rows}}
  BY DEF GroupedBars
<1>2. \A r : key(r) = <<DimExpr(dim, r), <<>>>>
  BY NoValues
<1>3. ASSUME NEW r \in rows PROVE bar(key(r)) = named(r)
  <2>1. in(key(r)) = AtValue(rows, dim, DimExpr(dim, r))
    BY <1>2 DEF AtValue
  <2>2. key(r)[1] = DimExpr(dim, r) /\ key(r)[2] = <<>>
    BY <1>2
  <2> HIDE DEF key, in
  <2> QED BY <2>1, <2>2, NothingLeftOut
<1>4. NamedBars(spec, rows, dim) = {named(r) : r \in rows}
  BY DEF NamedBars
<1> HIDE DEF bar, key, named
<1> QED BY <1>1, <1>3, <1>4

\* A level of the breakdown, before the rest of its groups are folded.
Under(cells, path) ==
  {c \in cells : \A i \in DOMAIN path : c.g[i] # Null /\ c.g[i] = path[i].value}
BarCells(cells, path, withSeries, x, s) ==
  {c \in Under(cells, path) : c.g[Len(path) + 1] = x /\ (withSeries => c.s = s)}
MatviewBar(spec, cells, path, withSeries, x, s) ==
  Bar(x, s, Reagg(spec, BarCells(cells, path, withSeries, x, s)))
MatviewLevel(spec, cells, path, withSeries) ==
  {MatviewBar(spec, cells, path, withSeries, c.g[Len(path) + 1], IF withSeries THEN c.s ELSE <<>>)
   : c \in Under(cells, path)}
TailCells(cells, path, level) ==
  {c \in Under(cells, path) : c.g[Len(path) + 1] \in {b.x : b \in level \ Top(level)}}

LEMMA MatviewAnswers ==
  ASSUME NEW spec, NEW cells, NEW path, NEW withSeries
  PROVE  LET level == MatviewLevel(spec, cells, path, withSeries)
         IN aggregateChartMatview(spec, cells, path, withSeries) =
              IF Cardinality(level) =< ChartTopGroups THEN {level}
              ELSE IF withSeries THEN Foremost(level, ChartTopGroups + 1)
              ELSE {Top(level) \cup {Bar(Other, <<>>, Reagg(spec, TailCells(cells, path, level)))}}
BY DEF aggregateChartMatview, MatviewLevel, MatviewBar, BarCells, TailCells, Under

\* The rows a path leads to.
Down(rows, path) == {r \in rows : \A i \in 1..Len(path) : Meets(path[i], r)}

OnKeys(keys, path) ==
  /\ keys \in Seq(STRING) /\ path \in Seq(DrillStep) /\ Len(path) < Len(keys)
  /\ \A i \in 1..Len(path) : path[i].value # Null /\ path[i].dimension = keys[i]

\* The cell of a row lies under a path when the row does.
LEMMA CellUnder ==
  ASSUME NEW spec, NEW keys, NEW series, NEW rows, NEW path, OnKeys(keys, path),
         NEW r \in rows
  PROVE  LET c == CellOf(spec, keys, series, rows, CellKey(keys, series, r))
         IN /\ c \in Under(Cells(spec, keys, series, rows), path) <=> r \in Down(rows, path)
            /\ \A i \in 1..Len(keys) : c.g[i] = DimExpr(keys[i], r)
<1> DEFINE k == CellKey(keys, series, r)
           c == CellOf(spec, keys, series, rows, k)
<1>1. c.g = Values(keys, r)
  BY CellKeeps DEF CellKey
<1>2. c \in Cells(spec, keys, series, rows)
  BY CellsAll
<1> HIDE DEF c, k
<1>3. \A i \in 1..Len(keys) : c.g[i] = DimExpr(keys[i], r)
  <2>1. DOMAIN keys = 1..Len(keys)
    BY DEF OnKeys
  <2> QED BY <1>1, <2>1 DEF Values
<1>4. /\ DOMAIN path = 1..Len(path)
      /\ \A i \in 1..Len(path) : i \in 1..Len(keys) /\ path[i].value # Null /\ path[i].dimension = keys[i]
  BY DEF OnKeys
<1>5. \A i \in 1..Len(path) : (c.g[i] # Null /\ c.g[i] = path[i].value) <=> Meets(path[i], r)
  BY <1>3, <1>4 DEF Meets
<1> QED BY <1>2, <1>3, <1>4, <1>5 DEF Under, Down, c, k

\* Every cell under a path is that of a row down it.
LEMMA UnderFrom ==
  ASSUME NEW spec, NEW keys, NEW series, NEW rows, NEW path, OnKeys(keys, path),
         NEW c \in Under(Cells(spec, keys, series, rows), path)
  PROVE  \E r \in Down(rows, path) : c = CellOf(spec, keys, series, rows, CellKey(keys, series, r))
<1>1. PICK r \in rows : c = CellOf(spec, keys, series, rows, CellKey(keys, series, r))
  BY CellsAll DEF Under
<1>2. r \in Down(rows, path)
  BY <1>1, CellUnder
<1> QED BY <1>1, <1>2

\* Cells picked under a path, and the rows they were made of.
LEMMA RowsOfPicked ==
  ASSUME NEW spec, NEW keys, NEW series, NEW rows, NEW path, OnKeys(keys, path), NEW S,
         NEW sub, sub = {c \in Under(Cells(spec, keys, series, rows), path) : c \in S}
  PROVE  RowsOf(keys, series, rows, sub)
           = {r \in Down(rows, path) : CellOf(spec, keys, series, rows, CellKey(keys, series, r)) \in S}
<1> DEFINE cell(r) == CellOf(spec, keys, series, rows, CellKey(keys, series, r))
           under == Under(Cells(spec, keys, series, rows), path)
<1>1. \A r \in rows : cell(r) \in under <=> r \in Down(rows, path)
  BY CellUnder
<1>2. Down(rows, path) \subseteq rows
  BY DEF Down
<1>3. \A r : cell(r).key = CellKey(keys, series, r)
  BY CellKeeps
<1>4. ASSUME NEW r \in rows, NEW c \in sub, c.key = CellKey(keys, series, r) PROVE c = cell(r)
  <2>1. PICK q \in rows : c = cell(q)
    BY UnderFrom, <1>2
  <2>2. CellKey(keys, series, q) = CellKey(keys, series, r)
    BY <1>3, <1>4, <2>1
  <2> QED BY <2>1, <2>2
<1>5. \A r \in Down(rows, path) : cell(r) \in S => cell(r) \in sub
  BY <1>1, <1>2
<1>6. \A c \in sub : c \in under /\ c \in S
  OBVIOUS
<1> HIDE DEF cell, under
<1>7. \A r \in rows : (\E c \in sub : c.key = CellKey(keys, series, r))
                        <=> r \in Down(rows, path) /\ cell(r) \in S
  <2> TAKE r \in rows
  <2>1. ASSUME NEW c \in sub, c.key = CellKey(keys, series, r)
        PROVE  r \in Down(rows, path) /\ cell(r) \in S
    BY <1>1, <1>4, <1>6, <2>1
  <2>2. ASSUME r \in Down(rows, path), cell(r) \in S
        PROVE  \E c \in sub : c.key = CellKey(keys, series, r)
    BY <1>3, <1>5, <2>2
  <2> QED BY <2>1, <2>2
<1> QED BY <1>2, <1>7 DEF RowsOf, cell

\* A bar of the breakdown is the measure of the rows it stands for.
BarMeasures(spec, keys, series, rows, path, r) ==
  LET dim == keys[Len(path) + 1]
      x == DimExpr(dim, r)
  IN Reagg(spec, BarCells(Cells(spec, keys, series, rows), path, FALSE, x, <<>>))
       = MeasureOf(measure(spec), AtValue(Down(rows, path), dim, x))

LEMMA MatviewBarIs ==
  ASSUME NEW spec, spec.mode # "clause", NEW keys, NEW series, NEW rows, SoundTable(rows),
         NEW path, OnKeys(keys, path), NEW r \in Down(rows, path)
  PROVE  BarMeasures(spec, keys, series, rows, path, r)
<1> DEFINE cells == Cells(spec, keys, series, rows)
           cell(q) == CellOf(spec, keys, series, rows, CellKey(keys, series, q))
           at == Len(path) + 1
           x == DimExpr(keys[at], r)
           S == {c \in cells : c.g[at] = x}
           sub == BarCells(cells, path, FALSE, x, <<>>)
<1>1. at \in 1..Len(keys)
  BY DEF OnKeys
<1>2. Down(rows, path) \subseteq rows
  BY DEF Down
<1>3. sub = {c \in Under(cells, path) : c \in S}
  BY DEF BarCells, Under
<1>4. \A q \in rows : cell(q) \in cells /\ cell(q).g[at] = DimExpr(keys[at], q)
                      /\ (cell(q) \in Under(cells, path) <=> q \in Down(rows, path))
  BY <1>1, CellUnder, CellsAll
<1>5. \A q \in Down(rows, path) : cell(q) \in S <=> DimExpr(keys[at], q) = x
  BY <1>2, <1>4
<1>6. cell(r) \in sub
  BY <1>2, <1>3, <1>4, <1>5
<1>7. sub \subseteq cells /\ sub # {}
  BY <1>6 DEF BarCells, Under
<1> HIDE DEF sub, S, cells
<1>8. RowsOf(keys, series, rows, sub) = {q \in Down(rows, path) : cell(q) \in S}
  BY <1>3, RowsOfPicked DEF cells
<1>9. RowsOf(keys, series, rows, sub) = AtValue(Down(rows, path), keys[at], x)
  <2> HIDE DEF cell, x, at
  <2> QED BY <1>5, <1>8 DEF AtValue
<1>10. Reagg(spec, sub) = MeasureOf(measure(spec), RowsOf(keys, series, rows, sub))
  BY <1>7, CellsRoll DEF cells
<1> QED BY <1>9, <1>10 DEF sub, cells, BarMeasures

\* A level of the breakdown is the level answered from its rows.
LEMMA MatviewNamed ==
  ASSUME NEW spec, spec.mode # "clause", NEW keys, NEW series, NEW rows, SoundTable(rows),
         NEW path, OnKeys(keys, path)
  PROVE  MatviewLevel(spec, Cells(spec, keys, series, rows), path, FALSE)
           = NamedBars(spec, Down(rows, path), keys[Len(path) + 1])
<1> DEFINE cells == Cells(spec, keys, series, rows)
           cell(q) == CellOf(spec, keys, series, rows, CellKey(keys, series, q))
           dim == keys[Len(path) + 1]
           down == Down(rows, path)
           bar(x) == MatviewBar(spec, cells, path, FALSE, x, <<>>)
           named(r) == Bar(DimExpr(dim, r), <<>>,
                           MeasureOf(measure(spec), AtValue(down, dim, DimExpr(dim, r))))
<1>1. MatviewLevel(spec, cells, path, FALSE) = {bar(c.g[Len(path) + 1]) : c \in Under(cells, path)}
  BY DEF MatviewLevel
<1>2. NamedBars(spec, down, dim) = {named(r) : r \in down}
  BY DEF NamedBars
<1>3. \A r \in down : bar(DimExpr(dim, r)) = named(r)
  <2> TAKE r \in down
  <2>1. Reagg(spec, BarCells(cells, path, FALSE, DimExpr(dim, r), <<>>))
          = MeasureOf(measure(spec), AtValue(down, dim, DimExpr(dim, r)))
    <3>1. BarMeasures(spec, keys, series, rows, path, r)
      BY MatviewBarIs
    <3> QED BY <3>1 DEF BarMeasures
  <2> HIDE DEF cells, dim, down
  <2> QED BY <2>1 DEF MatviewBar
<1>4. \A r \in down : cell(r) \in Under(cells, path) /\ cell(r).g[Len(path) + 1] = DimExpr(dim, r)
  <2>1. Len(path) + 1 \in 1..Len(keys) /\ down \subseteq rows
    BY DEF OnKeys, Down
  <2> TAKE r \in down
  <2>2. /\ cell(r) \in Under(cells, path) <=> r \in down
        /\ \A i \in 1..Len(keys) : cell(r).g[i] = DimExpr(keys[i], r)
    BY <2>1, CellUnder
  <2> HIDE DEF cell, cells, down
  <2> QED BY <2>1, <2>2
<1>5. \A c \in Under(cells, path) : \E r \in down : c = cell(r)
  BY UnderFrom
<1> HIDE DEF bar, named, cell, down, cells, dim
<1> DEFINE at == Len(path) + 1
<1>6. \A c \in Under(cells, path) : \E r \in down : bar(c.g[at]) = named(r)
  BY <1>3, <1>4, <1>5
<1>7. \A r \in down : \E c \in Under(cells, path) : bar(c.g[at]) = named(r)
  BY <1>3, <1>4
<1>8. {bar(c.g[at]) : c \in Under(cells, path)} = {named(r) : r \in down}
  BY <1>6, <1>7
<1> QED BY <1>1, <1>2, <1>8 DEF cells, down, dim

(***************************************************************************)
(* The dimensions a chart is drilled through, and the names of its bars.   *)
(***************************************************************************)
LEMMA WithoutRuns ==
  ASSUME NEW S, NEW s \in Seq(S), NEW gap
  PROVE  \E f : /\ f[0] = <<>> /\ f[Len(s)] = Without(s, gap)
                /\ \A n \in 1..Len(s) :
                     f[n] = IF s[n] = gap THEN f[n - 1] ELSE Append(f[n - 1], s[n])
<1> DEFINE N == Len(s)
           More1(n, x) == IF s[n] = gap THEN x ELSE Append(x, s[n])
           H == [p \in (1..N) \X Seq(S) |-> More1(p[1], p[2])]
           upTo == CHOOSE f : f = [n \in 0..N |-> IF n = 0 THEN <<>> ELSE More1(n, f[n - 1])]
<1>1. N \in Nat /\ \A n \in 1..N : s[n] \in S
  OBVIOUS
<1>2. Without(s, gap) = upTo[N]
  BY DEF Without
<1>3. <<>> \in Seq(S)
  OBVIOUS
<1>4. \A n \in 1..N, x \in Seq(S) : More1(n, x) \in Seq(S)
  <2> SUFFICES ASSUME NEW n \in 1..N, NEW x \in Seq(S) PROVE More1(n, x) \in Seq(S)
    OBVIOUS
  <2>1. s[n] \in S
    BY <1>1
  <2>2. Append(x, s[n]) \in Seq(S)
    BY <2>1
  <2> QED BY <2>2
<1> HIDE DEF N, More1
<1>5. H \in Steps(N, Seq(S)) /\ \A n \in 1..N, x \in Seq(S) : H[<<n, x>>] = More1(n, x)
  BY <1>4 DEF Steps
<1> HIDE DEF H
<1>6. \E f : f = [n \in 0..N |-> IF n = 0 THEN <<>> ELSE More1(n, f[n - 1])]
  <2>1. PICK f : Iterates(f, N, Seq(S), <<>>, H)
    BY <1>1, <1>3, <1>5, IterationExists
  <2>2. ASSUME NEW n \in 0..N PROVE f[n] = IF n = 0 THEN <<>> ELSE More1(n, f[n - 1])
    <3>1. CASE n = 0
      BY <2>1, <3>1 DEF Iterates
    <3>2. CASE n # 0
      <4>1. n \in 1..N /\ n - 1 \in 0..N
        BY <1>1, <3>2
      <4>2. f[n - 1] \in Seq(S) /\ f[n] = H[<<n, f[n - 1]>>]
        BY <2>1, <4>1 DEF Iterates
      <4> QED BY <1>5, <3>2, <4>1, <4>2
    <3> QED BY <3>1, <3>2
  <2>3. f = [n \in 0..N |-> f[n]]
    BY <2>1 DEF Iterates
  <2>4. f = [n \in 0..N |-> IF n = 0 THEN <<>> ELSE More1(n, f[n - 1])]
    BY <2>2, <2>3
  <2> QED BY <2>4
<1>7. upTo = [n \in 0..N |-> IF n = 0 THEN <<>> ELSE More1(n, upTo[n - 1])]
  BY <1>6
<1> HIDE DEF upTo
<1>8. upTo[0] = <<>> /\ \A n \in 1..N : upTo[n] = More1(n, upTo[n - 1])
  BY <1>1, <1>7
<1> QED BY <1>2, <1>8 DEF N, More1

\* What is kept is in the order it was in.
Kept(s, S, gap, n, w) ==
  /\ w \in Seq(S) /\ Len(w) <= n
  /\ \A i \in 1..Len(w) : w[i] # gap /\ \E j \in 1..n : i <= j /\ w[i] = s[j]

LEMMA WithoutKeeps ==
  ASSUME NEW S, NEW s \in Seq(S), NEW gap
  PROVE  Kept(s, S, gap, Len(s), Without(s, gap))
<1> DEFINE N == Len(s)
<1>1. N \in Nat /\ \A n \in 1..N : s[n] \in S
  OBVIOUS
<1>2. PICK f : /\ f[0] = <<>> /\ f[N] = Without(s, gap)
               /\ \A n \in 1..N : f[n] = IF s[n] = gap THEN f[n - 1] ELSE Append(f[n - 1], s[n])
  BY WithoutRuns
<1> HIDE DEF N
<1> DEFINE G == {n \in Nat : n <= N => Kept(s, S, gap, n, f[n])}
<1>3. 0 \in G
  <2> DEFINE none == f[0]
  <2>1. none \in Seq(S) /\ Len(none) = 0 /\ 1..0 = {}
    BY <1>2
  <2> HIDE DEF none
  <2>2. Kept(s, S, gap, 0, none)
    BY <2>1 DEF Kept
  <2> QED BY <2>2 DEF none
<1>4. ASSUME NEW n \in Nat, n \in G PROVE n + 1 \in G
  <2> SUFFICES ASSUME n + 1 <= N PROVE Kept(s, S, gap, n + 1, f[n + 1])
    OBVIOUS
  <2> DEFINE w == f[n]
  <2>1. n + 1 \in 1..N /\ n <= N /\ (n + 1) - 1 = n
    BY <1>1
  <2>2. Kept(s, S, gap, n, w)
    BY <1>4, <2>1
  <2>3. f[n + 1] = IF s[n + 1] = gap THEN w ELSE Append(w, s[n + 1])
    BY <1>2, <2>1
  <2>4. s[n + 1] \in S
    BY <1>1, <2>1
  <2> HIDE DEF w
  <2>5. CASE s[n + 1] = gap
    BY <2>2, <2>3, <2>5 DEF Kept
  <2>6. CASE s[n + 1] # gap
    <3> DEFINE x == s[n + 1]
               v == Append(w, x)
    <3>1. w \in Seq(S) /\ Len(w) \in Nat /\ Len(w) <= n
      BY <2>2 DEF Kept
    <3>2. v \in Seq(S) /\ Len(v) = Len(w) + 1 /\ v[Len(w) + 1] = x
          /\ \A i \in 1..Len(w) : v[i] = w[i]
      <4>1. x \in S
        BY <2>4
      <4> HIDE DEF x
      <4> QED BY <3>1, <4>1
    <3>3. f[n + 1] = v
      BY <2>3, <2>6
    <3> HIDE DEF v
    <3>4. ASSUME NEW i \in 1..Len(v)
          PROVE  v[i] # gap /\ \E j \in 1..(n + 1) : i <= j /\ v[i] = s[j]
      <4>1. CASE i = Len(w) + 1
        BY <2>6, <3>1, <3>2, <4>1
      <4>2. CASE i # Len(w) + 1
        <5>1. i \in 1..Len(w) /\ v[i] = w[i]
          BY <3>1, <3>2, <4>2
        <5>2. PICK j \in 1..n : w[i] # gap /\ i <= j /\ w[i] = s[j]
          BY <2>2, <5>1 DEF Kept
        <5> QED BY <5>1, <5>2
      <4> QED BY <4>1, <4>2
    <3> QED BY <3>1, <3>2, <3>3, <3>4 DEF Kept
  <2> QED BY <2>5, <2>6
<1> HIDE DEF G
<1>5. N \in G
  BY <1>1, <1>3, <1>4, SetInduction
<1> QED BY <1>1, <1>2, <1>5 DEF G, N

LEMMA ShiftedType ==
  ASSUME NEW scope, scope.conds \in Seq(Condition), scope.logic \in Seq(Lexeme), NEW k \in Nat
  PROVE  Shifted(scope, k) \in Seq(Lexeme)
<1> DEFINE body == Expressed(scope)
           m == 2 * Len(scope.conds) - 1
           word(i) == IF i % 2 = 1 THEN Num((i + 1) \div 2) ELSE Word("AND")
           w == Shift(body, k)
           lp == <<Word("(")>>
           rp == <<Word(")")>>
<1>1. body \in Seq(Lexeme)
  <2>1. CASE scope.logic # <<>>
    BY <2>1 DEF Expressed
  <2>2. CASE scope.logic = <<>>
    <3>1. Len(scope.conds) \in Nat
      OBVIOUS
    <3>2. \A i \in 1..m : word(i) \in Lexeme
      <4>1. Word("AND") \in Lexeme
        BY WordsAssumption DEF Word, Lexeme
      <4>2. \A i \in 1..m : (i + 1) \div 2 \in Nat
        BY <3>1
      <4>3. \A n \in Nat : Num(n) \in Lexeme
        BY DEF Num, Lexeme
      <4> QED BY <4>1, <4>2, <4>3
    <3>3. body = [i \in 1..m |-> word(i)]
      BY <2>2 DEF Expressed
    <3>4. CASE Len(scope.conds) = 0
      <4>1. 1..m = {}
        BY <3>4
      <4> HIDE DEF m, word
      <4>2. \A B : B = {} => [i \in B |-> word(i)] = <<>>
        OBVIOUS
      <4>3. body = <<>>
        BY <3>3, <4>1, <4>2
      <4> QED BY <4>3
    <3>5. CASE Len(scope.conds) # 0
      <4>1. m \in Nat
        BY <3>1, <3>5
      <4> HIDE DEF m, word
      <4> QED BY <3>2, <3>3, <4>1
    <3> QED BY <3>4, <3>5
  <2> QED BY <2>1, <2>2
<1>2. Shifted(scope, k) = (lp \o w) \o rp
  BY DEF Shifted, Expressed, Shift
<1> HIDE DEF body
<1>3. w \in Seq(Lexeme)
  BY <1>1, ShiftTokens
<1>4. lp \in Seq(Lexeme) /\ rp \in Seq(Lexeme)
  BY WordToken
<1> HIDE DEF w, lp, rp
<1>5. (lp \o w) \o rp \in Seq(Lexeme)
  <2> DEFINE L == Lexeme
  <2>1. w \in Seq(L) /\ lp \in Seq(L) /\ rp \in Seq(L)
    BY <1>3, <1>4
  <2> HIDE DEF L
  <2>2. lp \o w \in Seq(L)
    BY <2>1
  <2>3. (lp \o w) \o rp \in Seq(L)
    BY <2>1, <2>2
  <2> QED BY <2>3 DEF L
<1> QED BY <1>2, <1>5

LEMMA MergeType ==
  ASSUME NEW base, base.conds \in Seq(Condition), base.logic \in Seq(Lexeme),
         NEW spec, spec.conds \in Seq(Condition), spec.logic \in Seq(Lexeme)
  PROVE  LET m == mergeScope(base, spec)
         IN m.conds \in Seq(Condition) /\ m.logic \in Seq(Lexeme)
<1>1. CASE base.conds = <<>>
  BY <1>1 DEF mergeScope
<1>2. CASE base.conds # <<>> /\ spec.conds = <<>>
  BY <1>2 DEF mergeScope
<1>3. CASE base.conds # <<>> /\ spec.conds # <<>>
  <2> DEFINE n == Len(base.conds)
             p == Shifted(base, 0)
             q == Shifted(spec, n)
             and == <<Word("AND")>>
             cs == base.conds \o spec.conds
  <2>1. mergeScope(base, spec) = [conds |-> cs, logic |-> p \o and \o q]
    BY <1>3 DEF mergeScope
  <2>2. n \in Nat
    OBVIOUS
  <2>3. p \in Seq(Lexeme) /\ q \in Seq(Lexeme)
    <3>1. p \in Seq(Lexeme)
      <4> DEFINE z == 0
      <4>1. z \in Nat /\ z = 0
        OBVIOUS
      <4> HIDE DEF z
      <4>2. Shifted(base, z) \in Seq(Lexeme)
        BY <4>1, ShiftedType
      <4> QED BY <4>1, <4>2
    <3> HIDE DEF n
    <3>2. Shifted(spec, n) \in Seq(Lexeme)
      BY <2>2, ShiftedType
    <3> QED BY <3>1, <3>2
  <2>4. and \in Seq(Lexeme)
    BY WordToken
  <2>5. cs \in Seq(Condition)
    <3> DEFINE C == Condition
               a == base.conds
               b == spec.conds
    <3>1. a \in Seq(C) /\ b \in Seq(C)
      OBVIOUS
    <3> HIDE DEF C, a, b
    <3>2. a \o b \in Seq(C)
      BY <3>1
    <3> QED BY <3>2 DEF C, a, b
  <2> HIDE DEF n, p, q, and, cs
  <2>6. p \o and \o q \in Seq(Lexeme)
    <3> DEFINE L == Lexeme
    <3>1. p \in Seq(L) /\ q \in Seq(L) /\ and \in Seq(L)
      BY <2>3, <2>4
    <3> HIDE DEF L
    <3>2. p \o and \in Seq(L)
      BY <3>1
    <3>3. (p \o and) \o q \in Seq(L)
      BY <3>1, <3>2
    <3> QED BY <3>3 DEF L
  <2> QED BY <2>1, <2>5, <2>6
<1> QED BY <1>1, <1>2, <1>3

\* The chart that is asked, and its conditions.
Same(q, spec) ==
  /\ q.type = spec.type /\ q.mode = spec.mode /\ q.dimension = spec.dimension
  /\ q.groupBy = spec.groupBy /\ q.series = spec.series /\ q.compareField = spec.compareField
  /\ q.measure = spec.measure /\ q.groupAgg = spec.groupAgg /\ q.drilldown = spec.drilldown
  /\ q.filters = spec.filters /\ q.openOnly = spec.openOnly

LEMMA ResolvedSame == ASSUME Posed PROVE Same(Resolved, chart)
BY QuestionsAssumption DEF Posed, ChartSpec, Resolved, resolveSpec, Same

LEMMA ChartTyped ==
  ASSUME Posed
  PROVE  /\ chart.type \in STRING /\ chart.mode \in STRING /\ chart.dimension \in STRING
         /\ chart.groupBy \in Seq(STRING) /\ chart.series \in STRING
         /\ chart.compareField \in STRING /\ chart.drilldown \in Seq(STRING)
BY QuestionsAssumption DEF Posed, ChartSpec

LEMMA AskedTyped ==
  ASSUME Posed
  PROVE  /\ specConditions(Resolved).conds \in Seq(Condition)
         /\ specConditions(Resolved).logic \in Seq(Lexeme)
<1> DEFINE plain == [conds |-> chart.conds, logic |-> chart.logic]
           m == mergeScope(view, plain)
<1>1. view \in ViewScope /\ chart \in ChartSpec
  BY QuestionsAssumption DEF Posed
<1>2. /\ view.conds \in Seq(Condition) /\ view.logic \in Seq(Lexeme)
      /\ chart.conds \in Seq(Condition) /\ chart.logic \in Seq(Lexeme)
      /\ chart.filters \in Seq([field : STRING, value : Int]) /\ chart.openOnly \in BOOLEAN
  BY <1>1 DEF ViewScope, ChartSpec
<1>3. /\ Resolved.conds = m.conds /\ Resolved.logic = m.logic
      /\ Resolved.filters = chart.filters /\ Resolved.openOnly = chart.openOnly
  BY <1>1, ResolvedIs DEF Resolved
<1>4. plain.conds \in Seq(Condition) /\ plain.logic \in Seq(Lexeme)
  BY <1>2
<1> HIDE DEF plain
<1>5. m.conds \in Seq(Condition) /\ m.logic \in Seq(Lexeme)
  BY <1>2, <1>4, MergeType
<1> HIDE DEF m
<1> DEFINE q == Resolved
<1>6. /\ q.conds \in Seq(Condition) /\ q.logic \in Seq(Lexeme)
      /\ q.filters \in Seq([field : STRING, value : Int]) /\ q.openOnly \in BOOLEAN
  BY <1>2, <1>3, <1>5
<1> HIDE DEF q
<1>7. specConditions(q).conds \in Seq(Condition) /\ specConditions(q).logic \in Seq(Lexeme)
  BY <1>6, OwnIs
<1> QED BY <1>7 DEF q

\* The dimensions a chart is drilled through.
Keys == drillSequence(chart)

LEMMA OneIsSeq ==
  ASSUME NEW S, NEW x \in S
  PROVE  <<x>> \in Seq(S) /\ Len(<<x>>) = 1 /\ <<x>>[1] = x
OBVIOUS

LEMMA EmptyIsSeq == ASSUME NEW S PROVE <<>> \in Seq(S)
OBVIOUS

LEMMA FewStrings ==
  /\ <<>> \in Seq(STRING)
  /\ \A x \in STRING : <<x>> \in Seq(STRING) /\ Len(<<x>>) = 1 /\ <<x>>[1] = x
<1> DEFINE S == STRING
<1> HIDE DEF S
<1>1. <<>> \in Seq(S) /\ \A x \in S : <<x>> \in Seq(S) /\ Len(<<x>>) = 1 /\ <<x>>[1] = x
  BY OneIsSeq, EmptyIsSeq
<1> QED BY <1>1 DEF S

Preceded(s, S, one, t) ==
  /\ s \in Seq(S) /\ s[1] = one[1]
  /\ \A j \in 2..Len(s) : j - 1 \in 1..Len(t) /\ s[j] = t[j - 1]

LEMMA OneBefore ==
  ASSUME NEW S, NEW one \in Seq(S), Len(one) = 1, NEW t \in Seq(S)
  PROVE  Preceded(one \o t, S, one, t)
<1>1. one \o t \in Seq(S) /\ Len(one \o t) = 1 + Len(t)
  BY ConcatProperties
<1>2. \A j \in 1..Len(one \o t) : (one \o t)[j] = IF j <= Len(one) THEN one[j]
                                                ELSE t[j - Len(one)]
  BY ConcatProperties
<1>3. Len(t) \in Nat
  OBVIOUS
<1> DEFINE s == one \o t
           k == Len(s)
           n == Len(t)
<1> HIDE DEF n, k, s
<1>4. k = 1 + n /\ n \in Nat
  BY <1>1, <1>3 DEF k, n, s
<1>5. \A j \in 1..k : s[j] = IF j <= 1 THEN one[j] ELSE t[j - 1]
  BY <1>2 DEF k, s
<1>6. s[1] = one[1] /\ \A j \in 2..k : j - 1 \in 1..n /\ s[j] = t[j - 1]
  BY <1>4, <1>5
<1> QED BY <1>1, <1>6 DEF s, k, n, Preceded

LEMMA DrilledKept ==
  ASSUME Posed, chart.mode # "clause", NEW i \in 1..Len(Keys)
  PROVE  /\ Keys[i] # None
         /\ \/ i = 1 /\ Keys[i] = chart.dimension
            \/ \E j \in 1..Len(chart.drilldown) : Keys[i] = chart.drilldown[j]
<1> DEFINE d == chart.dimension
           t == chart.drilldown
           one == <<d>>
           s == one \o t
           w == Without(s, None)
<1>1. Keys = w
  BY DEF Keys, drillSequence
<1>2. d \in STRING /\ t \in Seq(STRING)
  BY ChartTyped
<1>3. one \in Seq(STRING) /\ Len(one) = 1 /\ one[1] = d
  BY <1>2
<1> HIDE DEF d, t, one
<1>4. s \in Seq(STRING) /\ s[1] = d
      /\ \A j \in 2..Len(s) : j - 1 \in 1..Len(t) /\ s[j] = t[j - 1]
  <2>1. Preceded(s, STRING, one, t)
    BY <1>2, <1>3, OneBefore
  <2> QED BY <1>3, <2>1 DEF Preceded
<1> HIDE DEF s
<1>5. Kept(s, STRING, None, Len(s), w)
  BY <1>4, WithoutKeeps
<1> HIDE DEF w
<1>6. w[i] # None /\ \E j \in 1..Len(s) : i <= j /\ w[i] = s[j]
  BY <1>1, <1>5 DEF Kept
<1>7. PICK j \in 1..Len(s) : i <= j /\ w[i] = s[j]
  BY <1>6
<1>8. Len(w) \in Nat /\ Len(s) \in Nat /\ i \in 1..Len(w)
  BY <1>1, <1>4, <1>5 DEF Kept
<1>9. CASE j = 1
  BY <1>1, <1>4, <1>6, <1>7, <1>8, <1>9 DEF d
<1>10. CASE j # 1
  <2>1. j \in 2..Len(s)
    BY <1>8, <1>10
  <2> QED BY <1>1, <1>4, <1>6, <1>7, <2>1 DEF t
<1> QED BY <1>9, <1>10

LEMMA KeysAre ==
  ASSUME Posed
  PROVE  /\ Keys \in Seq(STRING) /\ drillSequence(Resolved) = Keys
         /\ chart.mode = "clause" => Keys = groupByKeys(chart)
         /\ groupByKeys(Resolved) = groupByKeys(chart) /\ groupByKeys(chart) \in Seq(STRING)
<1>1. Same(Resolved, chart)
  BY ResolvedSame
<1>2. drillSequence(Resolved) = Keys /\ groupByKeys(Resolved) = groupByKeys(chart)
  BY <1>1 DEF Same, drillSequence, groupByKeys, Keys
<1>3. groupByKeys(chart) \in Seq(STRING)
  <2> DEFINE g == chart.groupBy
             s == chart.series
  <2>1. g \in Seq(STRING) /\ s \in STRING
    BY ChartTyped
  <2>2. groupByKeys(chart) = IF g # <<>> THEN g ELSE IF s # None THEN <<s>> ELSE <<>>
    BY DEF groupByKeys
  <2> HIDE DEF g, s
  <2>3. <<s>> \in Seq(STRING) /\ <<>> \in Seq(STRING)
    BY <2>1, FewStrings
  <2> QED BY <2>1, <2>2, <2>3
<1>4. CASE chart.mode = "clause"
  BY <1>2, <1>3, <1>4 DEF Keys, drillSequence
<1>5. CASE chart.mode # "clause"
  <2> DEFINE d == chart.dimension
             t == chart.drilldown
             s == <<d>> \o t
             w == Without(s, None)
  <2>1. Keys = w
    BY <1>5 DEF Keys, drillSequence
  <2>2. d \in STRING /\ t \in Seq(STRING)
    BY ChartTyped
  <2> DEFINE one == <<d>>
  <2> HIDE DEF d, t
  <2>5. one \in Seq(STRING) /\ Len(one) = 1
    BY <2>2, FewStrings
  <2> HIDE DEF one
  <2>3. s \in Seq(STRING)
    <3>1. Preceded(one \o t, STRING, one, t)
      BY <2>2, <2>5, OneBefore
    <3> QED BY <3>1 DEF one, Preceded
  <2> HIDE DEF s
  <2>4. Kept(s, STRING, None, Len(s), w)
    BY <2>3, WithoutKeeps
  <2> QED BY <1>2, <1>3, <1>5, <2>1, <2>4 DEF Kept
<1> QED BY <1>4, <1>5

\* Those below the first, and the first of a chart that needs one, exist.
LEMMA KeysKnown ==
  ASSUME Posed, chart.type # "table", validateSpec(Resolved), NEW i \in 1..Len(Keys),
         i = 1 => chart.mode \in {"clause", "compare"} \/ needsDimension(chart.type)
  PROVE  Keys[i] \in DOMAIN Dimensions
<1>1. Same(Resolved, chart)
  BY ResolvedSame
<1>2. Dims(chart.drilldown)
  BY <1>1 DEF validateSpec, Same
<1>3. \A s \in Seq(STRING) : Dims(s) => \A j \in 1..Len(s) : s[j] \in DOMAIN Dimensions
  BY DEF Dims, ToSet
<1>4. CASE chart.mode = "clause"
  <2>1. Dims(groupByKeys(Resolved))
    BY <1>1, <1>4 DEF validateSpec, Same
  <2> QED BY <1>3, <1>4, <2>1, KeysAre
<1>5. CASE chart.mode # "clause"
  <2>1. \A j \in 1..Len(chart.drilldown) : chart.drilldown[j] \in DOMAIN Dimensions
    BY <1>2, <1>3, ChartTyped
  <2>2. CASE \E j \in 1..Len(chart.drilldown) : Keys[i] = chart.drilldown[j]
    BY <2>1, <2>2
  <2>3. CASE i = 1 /\ Keys[i] = chart.dimension
    <3>1. \A a, b : Dims(<<a, b>>) => a \in DOMAIN Dimensions
      BY DEF Dims, ToSet
    <3>2. \A a : Dims(<<a>>) => a \in DOMAIN Dimensions
      BY DEF Dims, ToSet
    <3>3. CASE chart.mode = "compare"
      <4>1. Dims(<<Resolved.dimension, Resolved.compareField>>)
        BY <1>1, <3>3 DEF validateSpec, Same
      <4> QED BY <1>1, <2>3, <3>1, <4>1 DEF Same
    <3>4. CASE chart.mode # "compare" /\ needsDimension(chart.type)
      <4>1. Dims(<<Resolved.dimension>>)
        BY <1>1, <1>5, <3>4 DEF validateSpec, Same
      <4> QED BY <1>1, <2>3, <3>2, <4>1 DEF Same
    <3> QED BY <1>5, <2>3, <3>3, <3>4
  <2> QED BY <1>5, <2>2, <2>3, DrilledKept
<1> QED BY <1>4, <1>5

\* What a bar that can be clicked is named.
Names == Nat \cup {Null, NoneText, Single}

LEMMA NamesAre == /\ \A x \in Names : x \in Int /\ x # Other
                  /\ Single \in Names /\ Null \in Names
BY DEF Names, Null, NoneText, Single, Other

\* A level answered from the table names its bars by a dimension.
Named(spec, override) ==
  LET keys == groupByKeys(spec) IN
  /\ DimOf(spec, override) \in DOMAIN Dimensions
  /\ spec.mode = "clause" => \E i \in DOMAIN keys : keys[i] = DimOf(spec, override)

LEMMA LevelNames ==
  ASSUME NEW spec, NEW rows, SoundTable(rows), NEW override, NEW drop,
         Alone(spec, override) \/ Named(spec, override)
  PROVE  \A b \in Aggregated(spec, rows, override, drop) : b.x \in Names
<1> DEFINE level == Aggregated(spec, rows, override, drop)
           dim == DimOf(spec, override)
<1>1. CASE Alone(spec, override)
  <2> DEFINE o == Bar(Single, <<>>, MeasureOf(measure(spec), rows))
  <2>1. level = {o}
    BY <1>1, AggregatedIs
  <2>2. o.x = Single
    BY BarFields
  <2> HIDE DEF o, level
  <2>3. \A b \in level : b.x \in Names
    BY <2>1, <2>2, NamesAre
  <2> QED BY <2>3 DEF level
<1>2. CASE ~Alone(spec, override)
  <2>1. dim \in DOMAIN Dimensions
        /\ (spec.mode = "clause" => \E i \in DOMAIN groupByKeys(spec) : groupByKeys(spec)[i] = dim)
    BY <1>2 DEF Named
  <2>2. \A r \in rows : DimExpr(dim, r) \in Names
    BY <2>1, DimExprType DEF Names
  <2>3. CASE RollsUp(spec)
    <3>1. level = RolledBars(spec, rows, dim) /\ spec.mode = "clause"
      BY <1>2, <2>3, AggregatedIs DEF RollsUp
    <3> HIDE DEF level, dim
    <3>2. \A b \in level : \E r \in rows : b.x = DimExpr(dim, r)
      BY <2>1, <3>1, RolledNames
    <3> QED BY <2>2, <3>2 DEF level
  <2>4. CASE ~RollsUp(spec)
    <3> DEFINE series == seriesKeys(spec, drop)
               grouped == GroupedBars(spec, rows, dim, series)
    <3>1. level = grouped
      BY <1>2, <2>4, AggregatedIs
    <3> HIDE DEF dim, series
    <3>2. \A b \in grouped : \E r \in rows : b.x = DimExpr(dim, r)
      BY GroupedNames
    <3> HIDE DEF level, grouped
    <3> QED BY <2>2, <3>1, <3>2 DEF level
  <2> QED BY <2>3, <2>4
<1> QED BY <1>1, <1>2

\* The first level of a chart that may be asked.
LEMMA FirstNamed ==
  ASSUME NEW spec, validateSpec(spec), spec.type # "table", spec.groupBy \in Seq(STRING),
         ~Alone(spec, None)
  PROVE  Named(spec, None)
<1> DEFINE dim == DimOf(spec, None)
           keys == groupByKeys(spec)
<1>1. spec.mode = "clause" => 1 \in DOMAIN keys /\ keys[1] = dim /\ Dims(keys)
  <2> SUFFICES ASSUME spec.mode = "clause"
               PROVE  1 \in DOMAIN keys /\ keys[1] = dim /\ Dims(keys)
    OBVIOUS
  <2>1. keys # <<>> /\ Dims(keys) /\ dim = keys[1]
    BY DEF Alone, validateSpec, DimOf
  <2>2. 1 \in DOMAIN keys
    BY <2>1 DEF groupByKeys
  <2> QED BY <2>1, <2>2
<1>2. spec.mode # "clause" => dim \in DOMAIN Dimensions
  BY DEF Alone, validateSpec, DimOf, Dims, ToSet
<1>3. dim \in DOMAIN Dimensions
  BY <1>1, <1>2 DEF Dims, ToSet
<1> QED BY <1>1, <1>3 DEF Named

\* A chart that keeps a breakdown has a dimension.
LEMMA KeysSome ==
  ASSUME Posed, breakdownFor(Resolved)
  PROVE  Len(Keys) \in Nat /\ Len(Keys) > 0 /\ \A i \in 1..Len(Keys) : Keys[i] \in DOMAIN Dimensions
<1>1. Keys \in Seq(STRING) /\ drillSequence(Resolved) = Keys
  BY KeysAre
<1>2. Keys # <<>> /\ Dims(Keys)
  BY <1>1 DEF breakdownFor
<1> DEFINE k == Keys
<1>3. k \in Seq(STRING) /\ k # <<>> /\ Dims(k)
  BY <1>1, <1>2
<1> HIDE DEF k
<1>4. Len(k) \in Nat /\ Len(k) > 0 /\ \A i \in 1..Len(k) : k[i] \in DOMAIN Dimensions
  BY <1>3 DEF Dims, ToSet
<1> QED BY <1>4 DEF k

\* A level answered from a breakdown names its bars by its dimension, too.
LEMMA MatviewNames ==
  ASSUME NEW spec, NEW keys \in Seq(STRING),
         \A i \in 1..Len(keys) : keys[i] \in DOMAIN Dimensions,
         NEW series, NEW rows, SoundTable(rows), NEW path, Len(path) \in Nat,
         Len(path) < Len(keys), NEW withSeries,
         NEW answer \in aggregateChartMatview(spec, Cells(spec, keys, series, rows), path, withSeries)
  PROVE  \A b \in answer : b.x \in Names \cup {Other}
<1> DEFINE cells == Cells(spec, keys, series, rows)
           level == MatviewLevel(spec, cells, path, withSeries)
           at == Len(path) + 1
           rest == Bar(Other, <<>>, Reagg(spec, TailCells(cells, path, level)))
           bar(c) == MatviewBar(spec, cells, path, withSeries, c.g[at],
                                IF withSeries THEN c.s ELSE <<>>)
<1>1. at \in 1..Len(keys) /\ keys[at] \in DOMAIN Dimensions
  <2> DEFINE n == Len(keys)
             k == Len(path)
  <2>1. n \in Nat /\ k \in Nat /\ k < n
    OBVIOUS
  <2> HIDE DEF n, k
  <2>2. k + 1 \in 1..n
    BY <2>1
  <2> QED BY <2>2 DEF n, k
<1>2. \A r : Values(keys, r)[at] = DimExpr(keys[at], r)
  BY <1>1 DEF Values
<1>3. \A c \in cells : c.g[at] \in Names
  <2>1. \A c \in cells : \E r \in rows : c.g = Values(keys, r)
    BY CellsAre
  <2>2. \A r \in rows : DimExpr(keys[at], r) \in Names
    BY <1>1, DimExprType DEF Names
  <2> HIDE DEF cells, at
  <2> QED BY <1>2, <2>1, <2>2
<1>4. level = {bar(c) : c \in Under(cells, path)}
  BY DEF MatviewLevel
<1>5. \A c : bar(c).x = c.g[at]
  BY BarFields DEF MatviewBar
<1>6. Under(cells, path) \subseteq cells
  BY DEF Under
<1>7. aggregateChartMatview(spec, cells, path, withSeries) =
        IF Cardinality(level) =< ChartTopGroups THEN {level}
        ELSE IF withSeries THEN Foremost(level, ChartTopGroups + 1)
        ELSE {Top(level) \cup {rest}}
  BY MatviewAnswers
<1>8. rest.x = Other
  BY BarFields
<1> HIDE DEF bar, rest, at
<1>9. \A b \in level : b.x \in Names
  BY <1>3, <1>4, <1>5, <1>6
<1> HIDE DEF level, cells
<1>10. Top(level) \subseteq level /\ \A kept \in Foremost(level, ChartTopGroups + 1) : kept \subseteq level
  BY DEF Top, Foremost
<1>11. answer \in aggregateChartMatview(spec, cells, path, withSeries)
  BY DEF cells
<1>12. answer \subseteq level \/ answer = Top(level) \cup {rest}
  BY <1>7, <1>10, <1>11
<1> QED BY <1>8, <1>9, <1>10, <1>12

\* The steps of the panel lead down the chart's dimensions.
GoodPath(path) ==
  /\ path \in Seq(DrillStep)
  /\ \A i \in 1..Len(path) : path[i].value # Null /\ path[i].dimension = Keys[i]
  /\ path # <<>> => Len(path) < Len(Keys)

\* Every bar that is shown can be clicked, but for "Other".
LEMMA BarsNamed ==
  ASSUME Posed, table \in Tables, chart.type # "table", NEW path, GoodPath(path),
         NEW built, NEW answer \in ReadLevel(path, built), answer # Refused
  PROVE  \A b \in answer : b.x \in Names \cup {Other}
<1> DEFINE w == Where(Resolved, path)
<1>1. /\ Keys \in Seq(STRING) /\ drillSequence(Resolved) = Keys
      /\ groupByKeys(Resolved) = groupByKeys(chart)
      /\ chart.mode = "clause" => Keys = groupByKeys(chart)
      /\ Resolved.mode = chart.mode /\ Resolved.type = chart.type /\ Resolved.groupBy \in Seq(STRING)
  BY KeysAre, ResolvedSame, ResolvedKeeps DEF Same
<1>2. SoundTable(table) /\ \A f : SoundTable(Selected(table, f))
  BY SoundPart, TablesAssumption DEF SoundTable, Selected
<1>3. validateSpec(Resolved) /\ ~Where(Resolved, <<>>).bad
  BY DEF ReadLevel
<1>4. Len(path) \in Nat /\ (path = <<>> => Len(path) = 0)
  BY DEF GoodPath
<1>5. CASE built /\ breakdownFor(Resolved)
  <2> DEFINE rows == Selected(table, Where(Resolved, <<>>))
             split == path = <<>> /\ breakdownSeries(Resolved) # <<>>
             series == breakdownSeries(Resolved)
  <2>1. answer \in aggregateChartMatview(Resolved, Cells(Resolved, Keys, series, rows), path, split)
    BY <1>1, <1>3, <1>5 DEF ReadLevel, buildBreakdownMatview
  <2>2. Len(Keys) > 0 /\ \A i \in 1..Len(Keys) : Keys[i] \in DOMAIN Dimensions
    BY <1>5, KeysSome
  <2>3. Len(path) < Len(Keys)
    BY <1>4, <2>2 DEF GoodPath
  <2>4. SoundTable(rows)
    BY <1>2
  <2> HIDE DEF rows, split, series
  <2> QED BY <1>1, <1>4, <2>1, <2>2, <2>3, <2>4, MatviewNames
<1>6. CASE ~(built /\ breakdownFor(Resolved)) /\ path = <<>>
  <2>1. answer = buildAggregation(Resolved, table)
    BY <1>3, <1>6 DEF ReadLevel
  <2>2. answer = Aggregated(Resolved, Selected(table, Where(Resolved, <<>>)), None, FALSE)
    BY <1>3, <2>1 DEF buildAggregation, buildAggregationCore, Answered
  <2>3. Alone(Resolved, None) \/ Named(Resolved, None)
    BY <1>1, <1>3, FirstNamed
  <2> QED BY <1>2, <2>2, <2>3, LevelNames
<1>7. CASE ~(built /\ breakdownFor(Resolved)) /\ path # <<>>
  <2> DEFINE at == Len(path) + 1
             dim == Keys[at]
  <2>1. answer = buildDrill(Resolved, table, path)
    BY <1>3, <1>7 DEF ReadLevel
  <2>2. at \in 1..Len(Keys) /\ at # 1
    <3> DEFINE n == Len(Keys)
               k == Len(path)
    <3>1. k < n /\ n \in Nat /\ k \in Nat /\ k # 0
      BY <1>1, <1>4, <1>7 DEF GoodPath
    <3> HIDE DEF n, k
    <3>2. k + 1 \in 1..n /\ k + 1 # 1
      BY <3>1
    <3> QED BY <3>2 DEF n, k
  <2>3. answer = Aggregated(Resolved, Selected(table, w), dim, TRUE)
    <3>1. ~(Len(path) >= Len(Keys))
      BY <1>1, <1>4, <1>7 DEF GoodPath
    <3>2. answer = buildAggregationCore(Resolved, table, path, dim, TRUE)
      BY <1>1, <2>1, <3>1 DEF buildDrill
    <3> QED BY <3>2 DEF buildAggregationCore, Answered
  <2>4. dim \in DOMAIN Dimensions
    BY <1>3, <2>2, KeysKnown
  <2>5. DimOf(Resolved, dim) = dim
    BY <2>4, CatalogAssumption DEF DimOf
  <2>6. Named(Resolved, dim)
    <3>1. chart.mode = "clause" => \E i \in DOMAIN groupByKeys(Resolved) : groupByKeys(Resolved)[i] = dim
      BY <1>1, <2>2
    <3> QED BY <1>1, <2>4, <2>5, <3>1 DEF Named
  <2> HIDE DEF dim, at
  <2> QED BY <1>2, <2>3, <2>6, LevelNames
<1> QED BY <1>5, <1>6, <1>7

(***************************************************************************)
(* What holds of the panel at every step (Walked).                         *)
(***************************************************************************)
\* The panel's steps lead down the chart's dimensions, and its bars are an
\* answer to them.
Walked ==
  /\ Posed /\ table \in Tables /\ GoodPath(steps)
  /\ chart.type = "table" => bars = Refused /\ steps = <<>>
  /\ bars = Refused \/ \E built \in BOOLEAN : bars \in ReadLevel(steps, built)

LEMMA WalkedBars ==
  ASSUME Walked, NEW b \in Bars
  PROVE  b.x \in Names \cup {Other} /\ bars # Refused /\ chart.type # "table"
<1>1. bars # Refused /\ b \in bars /\ chart.type # "table"
  BY DEF Bars, Walked
<1>2. PICK built \in BOOLEAN : bars \in ReadLevel(steps, built)
  BY <1>1 DEF Walked
<1> QED BY <1>1, <1>2, BarsNamed DEF Walked

\* One step more.
Longer(new, path, e) ==
  /\ Len(new) = Len(path) + 1 /\ new[Len(path) + 1] = e
  /\ \A i \in 1..Len(path) : new[i] = path[i]

LEMMA StepFurther ==
  ASSUME NEW keys \in Seq(STRING), NEW path \in Seq(DrillStep), NEW e,
         e.dimension = keys[Len(path) + 1], e \in DrillStep, e.value # Null,
         \A i \in 1..Len(path) : path[i].value # Null /\ path[i].dimension = keys[i]
  PROVE  LET new == Append(path, e) IN
         /\ new \in Seq(DrillStep) /\ Longer(new, path, e)
         /\ \A i \in 1..Len(new) : new[i].value # Null /\ new[i].dimension = keys[i]
<1> DEFINE D == DrillStep
           k == Len(path)
           new == Append(path, e)
<1>1. path \in Seq(D) /\ e \in D /\ k \in Nat
  OBVIOUS
<1> HIDE DEF D
<1>2. new \in Seq(D) /\ Len(new) = Len(path) + 1 /\ new[Len(path) + 1] = e
      /\ \A i \in 1..Len(path) : new[i] = path[i]
  BY <1>1
<1>3. Len(new) = k + 1 /\ new[k + 1] = e /\ \A i \in 1..k : new[i] = path[i]
  BY <1>2
<1>4. e.dimension = keys[k + 1] /\ e.value # Null
      /\ \A i \in 1..k : path[i].value # Null /\ path[i].dimension = keys[i]
  OBVIOUS
<1> HIDE DEF k, new
<1>5. \A i \in 1..Len(new) : i = k + 1 \/ i \in 1..k
  BY <1>1, <1>3
<1>6. \A i \in 1..Len(new) : new[i].value # Null /\ new[i].dimension = keys[i]
  BY <1>3, <1>4, <1>5
<1>7. Longer(new, path, e)
  BY <1>3 DEF Longer, k
<1> QED BY <1>2, <1>6, <1>7 DEF D, new

\* A click leads one dimension further.
LEMMA StepAdded ==
  ASSUME Walked, NEW b \in Bars, b.x # Other, Len(steps) < Len(Keys)
  PROVE  LET e == StepOf(b)
             new == Append(steps, e)
         IN /\ e.dimension = Keys[Len(steps) + 1] /\ (b.x # Null => e.value = b.x)
            /\ new \in Seq(DrillStep) /\ Longer(new, steps, e)
            /\ \A i \in 1..Len(new) : new[i].value # Null /\ new[i].dimension = Keys[i]
<1> DEFINE e == StepOf(b)
<1>1. Keys \in Seq(STRING) /\ drillSequence(chart) = Keys
  BY KeysAre DEF Walked, Keys
<1>2. b.x \in Int /\ b.x # Other
  BY WalkedBars, NamesAre
<1>3. /\ e.dimension = Keys[Len(steps) + 1] /\ e.value # Null /\ e.value \in Int
      /\ b.x # Null => e.value = b.x
  BY <1>1, <1>2 DEF StepOf, Dash, Null
<1>4. steps \in Seq(DrillStep) /\ Len(steps) < Len(Keys)
      /\ \A i \in 1..Len(steps) : steps[i].value # Null /\ steps[i].dimension = Keys[i]
  BY DEF Walked, GoodPath
<1>5. e \in DrillStep
  <2> DEFINE n == Len(Keys)
             k == Len(steps)
  <2>1. n \in Nat /\ k \in Nat /\ k < n
    BY <1>1, <1>4
  <2> HIDE DEF n, k
  <2>2. k + 1 \in 1..n
    BY <2>1
  <2>3. Keys[k + 1] \in STRING
    BY <1>1, <2>2 DEF n
  <2>4. e = [dimension |-> Keys[k + 1], value |-> e.value]
    BY <1>1 DEF StepOf, k
  <2> HIDE DEF e
  <2> QED BY <1>3, <2>3, <2>4 DEF DrillStep
<1> HIDE DEF e
<1> DEFINE keys == Keys
           path == steps
<1>6. keys \in Seq(STRING) /\ path \in Seq(DrillStep)
      /\ e.dimension = keys[Len(path) + 1] /\ e \in DrillStep /\ e.value # Null
      /\ \A i \in 1..Len(path) : path[i].value # Null /\ path[i].dimension = keys[i]
  BY <1>1, <1>3, <1>4, <1>5
<1> HIDE DEF keys, path
<1> DEFINE new == Append(path, e)
<1>7. /\ new \in Seq(DrillStep) /\ Longer(new, path, e)
      /\ \A i \in 1..Len(new) : new[i].value # Null /\ new[i].dimension = keys[i]
  BY <1>6, StepFurther
<1> QED BY <1>3, <1>7 DEF keys, path, e

LEMMA ClickSteps ==
  ASSUME Walked, NEW b \in Bars, Clickable(b), Len(steps) < Len(drillSequence(chart)) - 1
  PROVE  GoodPath(Append(steps, StepOf(b)))
<1> DEFINE k == Len(steps)
           n == Len(Keys)
           new == Append(steps, StepOf(b))
<1>1. Keys \in Seq(STRING) /\ drillSequence(chart) = Keys /\ steps \in Seq(DrillStep)
  BY KeysAre DEF Walked, Keys, GoodPath
<1>2. n \in Nat /\ k \in Nat /\ k < n - 1
  BY <1>1
<1> HIDE DEF k, n
<1>3. k < n
  BY <1>2
<1>4. /\ new \in Seq(DrillStep) /\ Longer(new, steps, StepOf(b))
      /\ \A i \in 1..Len(new) : new[i].value # Null /\ new[i].dimension = Keys[i]
  BY <1>3, StepAdded DEF Clickable, k, n
<1> HIDE DEF new
<1>5. Len(new) = k + 1
  BY <1>4 DEF Longer, k
<1>6. Len(new) < n
  BY <1>2, <1>5
<1> QED BY <1>4, <1>6 DEF GoodPath, n, new

LEMMA JumpSteps ==
  ASSUME Walked, steps # <<>>, NEW level \in 0..(Len(steps) - 1)
  PROVE  GoodPath(SubSeq(steps, 1, level))
<1> DEFINE D == DrillStep
           k == Len(steps)
           n == Len(Keys)
           new == SubSeq(steps, 1, level)
<1>1. Keys \in Seq(STRING) /\ steps \in Seq(D) /\ k < n
  BY KeysAre DEF Walked, GoodPath
<1>2. n \in Nat /\ k \in Nat /\ level \in Nat /\ level < k
  BY <1>1
<1>3. \A i \in 1..k : steps[i].value # Null /\ steps[i].dimension = Keys[i]
  BY DEF Walked, GoodPath
<1> HIDE DEF D
<1>4. new \in Seq(D) /\ Len(new) = level /\ \A i \in 1..level : new[i] = steps[i]
  BY <1>1, <1>2
<1> HIDE DEF k, n, new
<1>5. \A i \in 1..level : i \in 1..k
  BY <1>2
<1>6. \A i \in 1..Len(new) : new[i].value # Null /\ new[i].dimension = Keys[i]
  BY <1>3, <1>4, <1>5
<1>7. Len(new) < n
  BY <1>1, <1>2, <1>4
<1> QED BY <1>4, <1>6, <1>7 DEF GoodPath, D, n, new

LEMMA WalkedFirst == Init => Walked
<1> SUFFICES ASSUME Init PROVE Walked
  OBVIOUS
<1>1. steps = <<>> /\ <<>> \in Seq(DrillStep) /\ Len(steps) = 0
  <2> DEFINE D == DrillStep
  <2> HIDE DEF D
  <2>1. <<>> \in Seq(D)
    BY EmptyIsSeq
  <2>2. steps = <<>> /\ Len(steps) = 0
    BY DEF Init
  <2> QED BY <2>1, <2>2 DEF D
<1>2. GoodPath(steps)
  BY <1>1 DEF GoodPath
<1> QED BY <1>1, <1>2 DEF Init, Walked, Posed

LEMMA WalkedNext ==
  ASSUME Walked, [Next]_vars
  PROVE  Walked'
<1>1. ASSUME UNCHANGED <<table, view, chart>>
      PROVE  /\ Posed' /\ (table \in Tables)' /\ chart' = chart /\ Keys' = Keys
             /\ Resolved' = Resolved /\ table' = table
  BY <1>1 DEF Walked, Posed, Keys, Resolved
<1>2. ASSUME UNCHANGED <<table, view, chart>>, GoodPath(steps'),
             (chart.type = "table" => bars = Refused /\ steps = <<>>)',
             bars' = Refused \/ \E built \in BOOLEAN : bars' \in ReadLevel(steps', built)
      PROVE  Walked'
  <2>1. GoodPath(steps)'
    BY <1>1, <1>2 DEF GoodPath
  <2>2. ASSUME NEW built \in BOOLEAN PROVE bars' \in ReadLevel(steps', built) => (bars \in ReadLevel(steps, built))'
    BY <1>1, <1>2 DEF ReadLevel
  <2> QED BY <1>1, <1>2, <2>1, <2>2 DEF Walked
<1>3. ASSUME UNCHANGED <<table, view, chart, steps, bars>> PROVE Walked'
  BY <1>2, <1>3 DEF Walked
<1>4. CASE UNCHANGED vars
  BY <1>3, <1>4 DEF vars
<1>5. ASSUME NEW built \in BOOLEAN, Open(built) PROVE Walked'
  <2>1. UNCHANGED <<table, view, chart, steps>> /\ steps = <<>>
    BY <1>5 DEF Open
  <2>2. CASE chart.type = "table"
    BY <1>3, <1>5, <2>2 DEF Open
  <2>3. CASE chart.type # "table"
    <3>1. bars' \in ReadLevel(steps', built)
      BY <1>5, <2>1, <2>3 DEF Open
    <3> QED BY <1>2, <2>1, <2>3, <3>1 DEF Walked
  <2> QED BY <2>2, <2>3
<1>6. ASSUME NEW b \in Bars, NEW built \in BOOLEAN, onSectionClick(b, built) PROVE Walked'
  <2>1. /\ UNCHANGED <<table, view, chart>> /\ steps' = Append(steps, StepOf(b))
        /\ bars' \in ReadLevel(steps', built)
        /\ Clickable(b) /\ Len(steps) < Len(drillSequence(chart)) - 1
    BY <1>6 DEF onSectionClick
  <2>2. GoodPath(steps')
    BY <2>1, ClickSteps
  <2>3. chart.type # "table"
    BY WalkedBars
  <2> QED BY <1>2, <2>1, <2>2, <2>3
<1>7. ASSUME NEW level \in 0..(Len(steps) - 1), NEW built \in BOOLEAN, jumpTo(level, built)
      PROVE  Walked'
  <2>1. /\ UNCHANGED <<table, view, chart>> /\ steps' = SubSeq(steps, 1, level)
        /\ bars' \in ReadLevel(steps', built) /\ steps # <<>>
    BY <1>7 DEF jumpTo
  <2>2. GoodPath(steps')
    BY <2>1, JumpSteps
  <2>3. chart.type # "table"
    BY <2>1 DEF Walked
  <2> QED BY <1>2, <2>1, <2>2, <2>3
<1>8. ASSUME NEW b \in Bars, ShowRecords(b) PROVE Walked'
  BY <1>3, <1>8 DEF ShowRecords
<1>9. CASE previewQuery
  BY <1>3, <1>9 DEF previewQuery
<1>10. CASE previewDrill
  BY <1>3, <1>10 DEF previewDrill
<1> QED BY <1>4, <1>5, <1>6, <1>7, <1>8, <1>9, <1>10 DEF Next

\* The rows a chart has before any drill.
Base == Selected(table, Where(Resolved, <<>>))

\* What is selected under a path is what the chart selects and meets its steps.
LEMMA DownSelects ==
  ASSUME Posed, table \in Tables, NEW path \in Seq(DrillStep),
         \A i \in 1..Len(path) : path[i].value # Null
  PROVE  /\ Where(Resolved, path).bad
              <=> \/ Where(Resolved, <<>>).bad
                  \/ \E i \in 1..Len(path) : path[i].dimension \notin DOMAIN Dimensions
         /\ ~Where(Resolved, path).bad => Selected(table, Where(Resolved, path)) = Down(Base, path)
<1> DEFINE scope == specConditions(Resolved)
           w == buildChartWhere(scope, path)
           w0 == buildChartWhere(scope, <<>>)
           rows == table
<1>1. scope.conds \in Seq(Condition) /\ scope.logic \in Seq(Lexeme)
  BY AskedTyped
<1>2. SoundTable(rows)
  BY TablesAssumption DEF SoundTable
<1>3. w = Where(Resolved, path) /\ w0 = Where(Resolved, <<>>)
  BY DEF Where
<1>4. Base = Selected(rows, w0)
  BY <1>3 DEF Base
<1> HIDE DEF scope, rows
<1>5. /\ w.bad <=> w0.bad \/ \E i \in 1..Len(path) : path[i].dimension \notin DOMAIN Dimensions
      /\ ~w.bad => Selected(rows, w) = {r \in Selected(rows, w0) :
                                         \A i \in 1..Len(path) : Meets(path[i], r)}
  BY <1>1, <1>2, DrillSelects
<1> HIDE DEF w, w0
<1> QED BY <1>3, <1>4, <1>5 DEF Down, rows

(***************************************************************************)
(* The levels below the first, and the records behind a bar.               *)
(***************************************************************************)
\* A path that leads somewhere has a dimension left.
LEMMA PathLeft ==
  ASSUME Posed, NEW path, GoodPath(path), path # <<>>
  PROVE  /\ OnKeys(Keys, path)
         /\ Len(path) + 1 \in 1..Len(Keys) /\ Len(path) + 1 # 1 /\ ~(Len(path) >= Len(Keys))
<1> DEFINE n == Len(Keys)
           k == Len(path)
<1>1. Keys \in Seq(STRING) /\ path \in Seq(DrillStep) /\ k < n
      /\ \A i \in 1..k : path[i].value # Null /\ path[i].dimension = Keys[i]
  BY KeysAre DEF GoodPath
<1>2. n \in Nat /\ k \in Nat /\ k # 0
  BY <1>1
<1>3. OnKeys(Keys, path)
  BY <1>1 DEF OnKeys
<1> HIDE DEF n, k
<1>4. k + 1 \in 1..n /\ k + 1 # 1 /\ ~(k >= n)
  BY <1>1, <1>2
<1> QED BY <1>3, <1>4 DEF n, k

\* The bars below the first level, of a chart that is no grouping.
LevelAt(path) == NamedBars(Resolved, Down(Base, path), Keys[Len(path) + 1])

LEMMA LiveLevel ==
  ASSUME Posed, table \in Tables, chart.mode # "clause", NEW path, GoodPath(path), path # <<>>,
         buildDrill(Resolved, table, path) # Refused
  PROVE  /\ buildDrill(Resolved, table, path) = LevelAt(path)
         /\ ~Where(Resolved, path).bad
<1> DEFINE w == Where(Resolved, path)
           at == Len(path) + 1
           dim == Keys[at]
           rows == Selected(table, w)
<1>1. drillSequence(Resolved) = Keys /\ Resolved.mode = chart.mode
  BY KeysAre, ResolvedSame DEF Same
<1>2. at \in 1..Len(Keys) /\ ~(Len(path) >= Len(Keys))
  BY PathLeft
<1>3. buildDrill(Resolved, table, path) = buildAggregationCore(Resolved, table, path, dim, TRUE)
  BY <1>1, <1>2 DEF buildDrill
<1>4. ~w.bad /\ buildDrill(Resolved, table, path) = Aggregated(Resolved, rows, dim, TRUE)
  BY <1>3 DEF buildAggregationCore, Answered
<1>5. dim # None
  BY <1>2, DrilledKept
<1>6. rows = Down(Base, path)
  BY <1>4, DownSelects DEF GoodPath
<1>7. ~Alone(Resolved, dim) /\ ~RollsUp(Resolved) /\ DimOf(Resolved, dim) = dim
      /\ seriesKeys(Resolved, TRUE) = <<>>
  BY <1>1, <1>5 DEF Alone, RollsUp, DimOf, seriesKeys
<1> HIDE DEF rows, dim
<1>8. Aggregated(Resolved, rows, dim, TRUE) = GroupedBars(Resolved, rows, dim, <<>>)
  BY <1>7, AggregatedIs
<1>9. GroupedBars(Resolved, rows, dim, <<>>) = NamedBars(Resolved, rows, dim)
  BY GroupedNamed
<1> QED BY <1>4, <1>6, <1>8, <1>9 DEF LevelAt, dim

\* A level as it is, or its first bars and one for the rest.
Trimmed(answer, level, rest) ==
  \/ answer = level
  \/ ~(Cardinality(level) <= ChartTopGroups) /\ answer = Top(level) \cup {Bar(Other, <<>>, rest)}
CellsHere == Cells(Resolved, Keys, breakdownSeries(Resolved), Base)
TailAt(path) == Reagg(Resolved, TailCells(CellsHere, path, LevelAt(path)))

LEMMA StoredLevel ==
  ASSUME Posed, table \in Tables, chart.mode # "clause", NEW path, GoodPath(path), path # <<>>,
         NEW answer \in aggregateChartMatview(Resolved, buildBreakdownMatview(Resolved, table),
                                              path, FALSE)
  PROVE  Trimmed(answer, LevelAt(path), TailAt(path))
<1> DEFINE series == breakdownSeries(Resolved)
           rows == Base
           cells == Cells(Resolved, Keys, series, rows)
           level == MatviewLevel(Resolved, cells, path, FALSE)
<1>1. drillSequence(Resolved) = Keys /\ Resolved.mode # "clause"
  BY KeysAre, ResolvedSame DEF Same
<1>2. buildBreakdownMatview(Resolved, table) = cells
  BY <1>1 DEF buildBreakdownMatview, Base
<1>3. OnKeys(Keys, path) /\ SoundTable(rows)
  BY PathLeft, SoundPart, TablesAssumption DEF SoundTable, Selected, Base
<1> HIDE DEF rows, series
<1>4. level = NamedBars(Resolved, Down(rows, path), Keys[Len(path) + 1])
  BY <1>1, <1>3, MatviewNamed
<1> DEFINE rest == Bar(Other, <<>>, Reagg(Resolved, TailCells(cells, path, level)))
<1>5. answer \in IF Cardinality(level) =< ChartTopGroups THEN {level}
                 ELSE {Top(level) \cup {rest}}
  <2> HIDE DEF rest
  <2>1. aggregateChartMatview(Resolved, cells, path, FALSE) =
          IF Cardinality(level) =< ChartTopGroups THEN {level}
          ELSE IF FALSE THEN Foremost(level, ChartTopGroups + 1)
          ELSE {Top(level) \cup {Bar(Other, <<>>, Reagg(Resolved, TailCells(cells, path, level)))}}
    BY MatviewAnswers
  <2> HIDE DEF level, cells
  <2> QED BY <1>2, <2>1 DEF rest
<1>6. level = LevelAt(path) /\ cells = CellsHere
  BY <1>4 DEF LevelAt, CellsHere, rows, series
<1> HIDE DEF level, cells
<1> QED BY <1>5, <1>6 DEF Trimmed, TailAt

\* What a level below the first one shows, and that it could be asked.
LEMMA LevelShown ==
  ASSUME Posed, table \in Tables, chart.mode # "clause", chart.type # "table",
         NEW path, GoodPath(path), path # <<>>,
         NEW built, NEW answer \in ReadLevel(path, built), answer # Refused
  PROVE  /\ Trimmed(answer, LevelAt(path), TailAt(path))
         /\ validateSpec(Resolved) /\ ~Where(Resolved, <<>>).bad
         /\ \A i \in 1..Len(Keys) : i <= Len(path) + 1 => Keys[i] \in DOMAIN Dimensions
<1>1. validateSpec(Resolved) /\ ~Where(Resolved, <<>>).bad
  BY DEF ReadLevel
<1>2. CASE built /\ breakdownFor(Resolved)
  <2>1. answer \in aggregateChartMatview(Resolved, buildBreakdownMatview(Resolved, table), path, FALSE)
    BY <1>1, <1>2 DEF ReadLevel
  <2>2. \A i \in 1..Len(Keys) : Keys[i] \in DOMAIN Dimensions
    BY <1>2, KeysSome
  <2> QED BY <1>1, <2>1, <2>2, StoredLevel
<1>3. CASE ~(built /\ breakdownFor(Resolved))
  <2>1. answer = buildDrill(Resolved, table, path)
    BY <1>1, <1>3 DEF ReadLevel
  <2>2. answer = LevelAt(path) /\ ~Where(Resolved, path).bad
    BY <2>1, LiveLevel
  <2>3. \A i \in 1..Len(path) : Keys[i] \in DOMAIN Dimensions
    BY <2>2, DownSelects DEF GoodPath
  <2>4. ASSUME NEW i \in 1..Len(Keys), i <= Len(path) + 1 PROVE Keys[i] \in DOMAIN Dimensions
    <3>1. CASE i <= Len(path)
      BY <2>3, <3>1
    <3>2. CASE ~(i <= Len(path))
      <4>1. Len(path) \in Nat /\ Len(path) + 1 # 1 /\ i \in Nat
        BY PathLeft DEF GoodPath
      <4>2. i # 1
        BY <2>4, <3>2, <4>1
      <4> QED BY <1>1, <4>2, KeysKnown
    <3> QED BY <3>1, <3>2
  <2> QED BY <1>1, <2>2, <2>4 DEF Trimmed
<1> QED BY <1>2, <1>3

\* Fewer records than were asked for are all there are.
LEMMA NewestAll ==
  ASSUME NEW rows, IsFiniteSet(rows), \A r \in rows : r.id \in Nat, NEW n \in Nat,
         Cardinality(Newest(rows, n)) < n
  PROVE  Newest(rows, n) = rows
<1> DEFINE new == Newest(rows, n)
           out == rows \ new
           ids == {r["id"] : r \in out}
           later(r) == {q \in rows : q.id > r.id}
<1>1. new \subseteq rows /\ \A r \in rows : Cardinality(later(r)) < n => r \in new
  BY DEF Newest
<1> SUFFICES ASSUME out # {} PROVE FALSE
  BY <1>1
<1>2. IsFiniteSet(out) /\ IsFiniteSet(new)
  BY <1>1, FS_Subset
<1>3. IsFiniteSet(ids)
  BY <1>2, ColumnFinite
<1>4. ids # {} /\ ids \subseteq Int
  OBVIOUS
<1> HIDE DEF new, ids
<1>5. Max(ids) \in ids /\ \A x \in ids : x <= Max(ids)
  BY <1>3, <1>4, ExtremesAre DEF Extremes
<1>6. PICK r \in out : r["id"] = Max(ids)
  BY <1>5 DEF ids
<1>7. \A q \in out : q.id <= r.id
  BY <1>5, <1>6 DEF ids
<1>8. later(r) \subseteq new
  BY <1>6, <1>7
<1>9. Cardinality(later(r)) <= Cardinality(new) /\ IsFiniteSet(later(r))
  BY <1>2, <1>8, FS_Subset
<1>10. Cardinality(later(r)) \in Nat /\ Cardinality(new) \in Nat /\ Cardinality(new) < n
  BY <1>2, <1>9, FS_CardinalityType DEF new
<1> HIDE DEF later
<1>11. Cardinality(later(r)) < n
  BY <1>9, <1>10
<1> QED BY <1>1, <1>6, <1>11

\* The last drill of a chart that is no grouping starts below the first level.
LEMMA LastDeep ==
  ASSUME Posed, ~isClauseChart(Resolved), GoodPath(steps),
         Len(Keys) > 1, Len(steps) = Len(Keys) - 1
  PROVE  /\ steps # <<>> /\ chart.mode # "clause" /\ Len(steps) < Len(Keys)
         /\ Len(steps) + 1 = Len(Keys) /\ Len(Keys) \in Nat
<1> DEFINE n == Len(Keys)
           k == Len(steps)
<1>1. Keys \in Seq(STRING) /\ steps \in Seq(DrillStep)
  BY KeysAre DEF GoodPath
<1>2. n \in Nat /\ k \in Nat /\ (steps = <<>> => k = 0)
  BY <1>1
<1>3. chart.mode # "clause"
  <2> SUFFICES ASSUME chart.mode = "clause" PROVE FALSE
    OBVIOUS
  <2>1. Keys = groupByKeys(chart) /\ chart.groupBy = <<>>
    BY KeysAre, ResolvedSame DEF Same, isClauseChart
  <2>2. Keys = <<>> \/ Keys = <<chart.series>>
    BY <2>1 DEF groupByKeys
  <2>3. Len(Keys) = 0 \/ Len(Keys) = 1
    BY <2>2
  <2> QED BY <2>3
<1> HIDE DEF n, k
<1>4. n > 1 /\ k = n - 1
  BY DEF n, k
<1>5. k # 0 /\ k < n /\ k + 1 = n
  BY <1>2, <1>4
<1> QED BY <1>2, <1>3, <1>5 DEF n, k

\* A bar of a level is the measure of the rows one step further down.
LEMMA BarIsDown ==
  ASSUME NEW rows, NEW path \in Seq(DrillStep), NEW e, NEW new \in Seq(DrillStep),
         Longer(new, path, e), NEW dim, NEW x, e.dimension = dim, e.value = x
  PROVE  Down(rows, new) = AtValue(Down(rows, path), dim, x)
<1> DEFINE n == Len(path)
<1>1. n \in Nat /\ Len(new) = n + 1 /\ new[n + 1] = e /\ \A i \in 1..n : new[i] = path[i]
  BY DEF Longer
<1>2. Down(rows, path) = {r \in rows : \A i \in 1..n : Meets(path[i], r)}
      /\ Down(rows, new) = {r \in rows : \A i \in 1..(n + 1) : Meets(new[i], r)}
  BY <1>1 DEF Down
<1> HIDE DEF n
<1>3. ASSUME NEW r
      PROVE  (\A i \in 1..(n + 1) : Meets(new[i], r))
               <=> (\A i \in 1..n : Meets(path[i], r)) /\ DimExpr(dim, r) = x
  <2>1. Meets(new[n + 1], r) <=> DimExpr(dim, r) = x
    BY <1>1 DEF Meets
  <2>2. \A i \in 1..n : new[i] = path[i]
    BY <1>1
  <2>3. \A i \in 1..(n + 1) : i \in 1..n \/ i = n + 1
    BY <1>1
  <2>4. n + 1 \in 1..(n + 1) /\ \A i \in 1..n : i \in 1..(n + 1)
    BY <1>1
  <2> QED BY <2>1, <2>2, <2>3, <2>4
<1> QED BY <1>2, <1>3 DEF AtValue

LEMMA BarMeasured ==
  ASSUME NEW path, NEW answer, Trimmed(answer, LevelAt(path), TailAt(path)),
         NEW b \in answer, b.x # Other
  PROVE  b.y = MeasureOf(measure(Resolved), AtValue(Down(Base, path), Keys[Len(path) + 1], b.x))
<1> DEFINE rows == Down(Base, path)
           dim == Keys[Len(path) + 1]
<1>1. b \in LevelAt(path)
  <2> DEFINE level == LevelAt(path)
             rest == TailAt(path)
  <2>1. Top(level) \subseteq level
    BY DEF Top
  <2>2. Bar(Other, <<>>, rest).x = Other
    BY DEF Bar
  <2> HIDE DEF level, rest
  <2>3. answer = level \/ answer = Top(level) \cup {Bar(Other, <<>>, rest)}
    BY DEF Trimmed, level, rest
  <2> QED BY <2>1, <2>2, <2>3 DEF level
<1>2. b \in NamedBars(Resolved, rows, dim)
  BY <1>1 DEF LevelAt
<1> HIDE DEF rows, dim
<1>3. PICK r \in rows : b = Bar(DimExpr(dim, r), <<>>,
                                MeasureOf(measure(Resolved), AtValue(rows, dim, DimExpr(dim, r))))
  BY <1>2 DEF NamedBars
<1>4. b.x = DimExpr(dim, r)
      /\ b.y = MeasureOf(measure(Resolved), AtValue(rows, dim, DimExpr(dim, r)))
  BY <1>3 DEF Bar
<1> QED BY <1>4 DEF rows, dim

LEMMA RecordsAre ==
  ASSUME Walked, NEW b \in Bars, ShowRecords(b), b.x # Null, ~isClauseChart(Resolved),
         Cardinality(records') < MaxExportRecords
  PROVE  MeasureOf(measure(Resolved), records') = b.y
<1> DEFINE e == StepOf(b)
           new == Append(steps, e)
           dim == Keys[Len(steps) + 1]
<1>1. b.x # Other /\ Len(Keys) > 1 /\ Len(steps) = Len(Keys) - 1
      /\ records' = buildRecordsQuery(Resolved, table, new)
  BY DEF ShowRecords, Clickable, Keys
<1>2. Posed /\ table \in Tables /\ GoodPath(steps) /\ chart.type # "table" /\ bars # Refused
      /\ b \in bars
  BY WalkedBars DEF Walked, Bars
<1>3. steps # <<>> /\ chart.mode # "clause" /\ Len(steps) < Len(Keys)
      /\ Len(steps) + 1 = Len(Keys) /\ Len(Keys) \in Nat
  BY <1>1, <1>2, LastDeep
<1>4. /\ e.dimension = dim /\ e.value = b.x
      /\ new \in Seq(DrillStep) /\ Longer(new, steps, e)
      /\ \A i \in 1..Len(new) : new[i].value # Null /\ new[i].dimension = Keys[i]
  BY <1>1, <1>3, StepAdded
<1>5. PICK built \in BOOLEAN : bars \in ReadLevel(steps, built)
  BY <1>2 DEF Walked
<1>6. /\ Trimmed(bars, LevelAt(steps), TailAt(steps))
      /\ ~Where(Resolved, <<>>).bad
      /\ \A i \in 1..Len(Keys) : i <= Len(steps) + 1 => Keys[i] \in DOMAIN Dimensions
  BY <1>2, <1>3, <1>5, LevelShown
<1>7. b.y = MeasureOf(measure(Resolved), AtValue(Down(Base, steps), dim, b.x))
  BY <1>1, <1>2, <1>6, BarMeasured
<1> HIDE DEF e, new
<1>8. Len(new) = Len(Keys)
  BY <1>3, <1>4 DEF Longer
<1>9. OnPath(Resolved, new)
  <2>1. drillSequence(Resolved) = Keys
    BY <1>2, KeysAre
  <2>2. Len(new) =< Len(Keys)
    BY <1>3, <1>8
  <2>3. DOMAIN new = 1..Len(new)
    BY <1>4
  <2> QED BY <1>4, <2>1, <2>2, <2>3 DEF OnPath
<1>10. ~Where(Resolved, new).bad
       /\ Selected(table, Where(Resolved, new)) = Down(Base, new)
  <2>1. \A i \in 1..Len(new) : new[i].dimension \in DOMAIN Dimensions
    BY <1>3, <1>4, <1>6, <1>8
  <2> QED BY <1>2, <1>4, <1>6, <2>1, DownSelects
<1>11. Down(Base, new) = AtValue(Down(Base, steps), dim, b.x)
  BY <1>2, <1>4, BarIsDown DEF GoodPath
<1> DEFINE rows == Down(Base, new)
<1>12. records' = Newest(rows, MaxExportRecords)
  BY <1>1, <1>9, <1>10 DEF buildRecordsQuery, new, e
<1>13. IsFiniteSet(rows) /\ \A r \in rows : r.id \in Nat
  <2>1. rows \subseteq table
    BY DEF Down, Base, Selected
  <2> QED BY <1>2, <2>1, TablesAssumption, FS_Subset
<1>14. MaxExportRecords \in Nat
  BY LimitsAssumption
<1> HIDE DEF rows, dim
<1>15. records' = rows
  BY <1>12, <1>13, <1>14, NewestAll
<1> QED BY <1>7, <1>11, <1>15 DEF rows

\* The records behind a bar, in every chart, table and path: clicking a bar of
\* the deepest level lists records whose measure is the bar's value, unless
\* there are as many as an export holds (buildRecordsQuery, onSectionClick).
THEOREM RecordsAreBehind == Spec => RecordsBehindBar
<1>1. Init => Walked
  BY WalkedFirst
<1>2. Walked /\ [Next]_vars => Walked'
  BY WalkedNext
<1>3. Walked /\ [Next]_vars =>
        [\A b \in Bars :
           ShowRecords(b) /\ b.x # Null /\ ~isClauseChart(Resolved)
             /\ Cardinality(records') < MaxExportRecords
             /\ {c \in Bars : c.x = b.x} = {b}
           => MeasureOf(measure(Resolved), records') = b.y]_vars
  BY RecordsAre
<1> QED BY <1>1, <1>2, <1>3, PTL DEF Spec, RecordsBehindBar

(***************************************************************************)
(* A level of the breakdown is that of the table (LevelsAgree).            *)
(***************************************************************************)
ByValue(level) == {p \in level \X level : Before(p[1], p[2])}

LEMMA TopIs ==
  ASSUME NEW level, Distinct(level)
  PROVE  /\ Ordered(ByValue(level), level)
         /\ Top(level) = FirstOf(ByValue(level), level, ChartTopGroups)
<1> DEFINE R == ByValue(level)
<1>1. \A b \in level : b.y \in Nat \cup {Null} /\ b.x \in Int
  BY DEF Distinct
<1>2. \A b \in level, c \in level : <<c, b>> \in R <=> Before(c, b)
  BY DEF ByValue
<1> HIDE DEF R
<1>3. Null \in Int
  BY DEF Null
<1>4. \A a \in level : <<a, a>> \notin R
  BY <1>1, <1>2, <1>3 DEF Before
<1>5. \A a \in level, b \in level : a # b => <<a, b>> \in R \/ <<b, a>> \in R
  <2> SUFFICES ASSUME NEW a \in level, NEW b \in level, a # b
               PROVE  Before(a, b) \/ Before(b, a)
    BY <1>2
  <2>1. a.x # b.x
    BY DEF Distinct
  <2> QED BY <2>1, <1>1, <1>3 DEF Before, Null
<1>6. \A a \in level, b \in level, c \in level :
        <<a, b>> \in R /\ <<b, c>> \in R => <<a, c>> \in R
  <2> SUFFICES ASSUME NEW a \in level, NEW b \in level, NEW c \in level,
                      Before(a, b), Before(b, c)
               PROVE  Before(a, c)
    BY <1>2
  <2> QED BY <1>1, <1>3 DEF Before, Null
<1>7. \A b \in level : {c \in level : Before(c, b)} = Ahead(R, level, b)
  BY <1>2 DEF Ahead
<1>8. Top(level) = {b \in level : Cardinality({c \in level : Before(c, b)}) < ChartTopGroups}
  BY DEF Top
<1>9. Top(level) = FirstOf(R, level, ChartTopGroups)
  BY <1>7, <1>8 DEF FirstOf
<1> QED BY <1>4, <1>5, <1>6, <1>9 DEF Ordered, R

\* What is left of a level with more groups than are shown.
LEMMA TopLeaves ==
  ASSUME NEW level, Distinct(level), ~(Cardinality(level) <= ChartTopGroups)
  PROVE  /\ Top(level) \subseteq level
         /\ Cardinality(Top(level)) = ChartTopGroups
         /\ level \ Top(level) # {}
<1> DEFINE R == ByValue(level)
           top == Top(level)
           n == Cardinality(level)
<1>1. Ordered(R, level) /\ top = FirstOf(R, level, ChartTopGroups) /\ IsFiniteSet(level)
  BY TopIs DEF Distinct
<1>2. ChartTopGroups \in Nat /\ n \in Nat
  BY <1>1, LimitsAssumption, FS_CardinalityType
<1>3. ChartTopGroups <= n /\ n # ChartTopGroups
  <2> HIDE DEF n
  <2>1. ~(n <= ChartTopGroups)
    BY DEF n
  <2> QED BY <1>2, <2>1
<1> HIDE DEF R
<1>4. Cardinality(FirstOf(R, level, ChartTopGroups)) = ChartTopGroups
  BY <1>1, <1>2, <1>3, FirstCount
<1>5. top \subseteq level
  BY DEF Top
<1> HIDE DEF top
<1>6. top # level
  BY <1>1, <1>3, <1>4
<1> QED BY <1>1, <1>4, <1>5, <1>6 DEF top

(* Cells of some of the rows.                                               *)
Keyed(keys, series, rows, sub) ==
  sub \subseteq rows /\ \A r \in sub, q \in rows :
    CellKey(keys, series, q) = CellKey(keys, series, r) => q \in sub

LEMMA CellsOfPart ==
  ASSUME NEW spec, NEW keys, NEW series, NEW rows, NEW sub, Keyed(keys, series, rows, sub)
  PROVE  Cells(spec, keys, series, sub)
           = {CellOf(spec, keys, series, rows, CellKey(keys, series, r)) : r \in sub}
<1> DEFINE key(r) == CellKey(keys, series, r)
<1>1. ASSUME NEW r \in sub PROVE OfKey(keys, series, sub, key(r)) = OfKey(keys, series, rows, key(r))
  BY DEF Keyed, OfKey
<1>2. ASSUME NEW r \in sub
      PROVE  CellOf(spec, keys, series, sub, key(r)) = CellOf(spec, keys, series, rows, key(r))
  <2> HIDE DEF key
  <2> QED BY <1>1 DEF CellOf
<1>3. Cells(spec, keys, series, sub) = {CellOf(spec, keys, series, sub, key(r)) : r \in sub}
  BY CellsAll
<1> HIDE DEF key
<1>4. Cells(spec, keys, series, sub) = {CellOf(spec, keys, series, rows, key(r)) : r \in sub}
  BY <1>2, <1>3
<1> QED BY <1>4 DEF key

\* The rows down a path whose value is one of some, and their cells.
ValueIn(rows, dim, names) == {r \in rows : DimExpr(dim, r) \in names}
CellsNamed(cells, path, names) == {c \in Under(cells, path) : c.g[Len(path) + 1] \in names}

LEMMA NamedCells ==
  ASSUME NEW spec, NEW keys, NEW series, NEW rows, NEW path, OnKeys(keys, path), NEW names
  PROVE  CellsNamed(Cells(spec, keys, series, rows), path, names)
           = Cells(spec, keys, series, ValueIn(Down(rows, path), keys[Len(path) + 1], names))
<1> DEFINE at == Len(path) + 1
           dim == keys[at]
           sub == ValueIn(Down(rows, path), dim, names)
           cells == Cells(spec, keys, series, rows)
           key(r) == CellKey(keys, series, r)
           cell(r) == CellOf(spec, keys, series, rows, key(r))
<1>1. at \in 1..Len(keys) /\ DOMAIN keys = 1..Len(keys) /\ \A i \in 1..Len(path) : i \in 1..Len(keys)
  BY DEF OnKeys
<1> HIDE DEF at
<1>2. ASSUME NEW r, NEW q, key(q) = key(r), NEW i \in 1..Len(keys)
      PROVE  DimExpr(keys[i], q) = DimExpr(keys[i], r)
  <2>1. Values(keys, q) = Values(keys, r)
    BY <1>2 DEF CellKey
  <2>2. Values(keys, q)[i] = DimExpr(keys[i], q) /\ Values(keys, r)[i] = DimExpr(keys[i], r)
    BY <1>1 DEF Values
  <2> QED BY <2>1, <2>2
<1>3. Keyed(keys, series, rows, sub)
  <2>1. sub \subseteq rows
    BY DEF ValueIn, Down
  <2>2. ASSUME NEW r \in sub, NEW q \in rows, key(q) = key(r) PROVE q \in sub
    <3>1. r \in Down(rows, path) /\ DimExpr(dim, r) \in names
      BY DEF ValueIn
    <3>2. DimExpr(dim, q) \in names
      BY <1>1, <1>2, <2>2, <3>1
    <3>3. \A i \in 1..Len(path) : Meets(path[i], r) => Meets(path[i], q)
      <4> SUFFICES ASSUME NEW i \in 1..Len(path) PROVE Meets(path[i], r) => Meets(path[i], q)
        OBVIOUS
      <4>1. path[i].dimension = keys[i] /\ i \in 1..Len(keys)
        BY <1>1 DEF OnKeys
      <4>2. DimExpr(keys[i], q) = DimExpr(keys[i], r)
        BY <1>2, <2>2, <4>1
      <4> QED BY <4>1, <4>2 DEF Meets
    <3>4. q \in Down(rows, path)
      BY <3>1, <3>3 DEF Down
    <3> QED BY <3>2, <3>4 DEF ValueIn
  <2> QED BY <2>1, <2>2 DEF Keyed
<1>4. Cells(spec, keys, series, sub) = {cell(r) : r \in sub}
  BY <1>3, CellsOfPart
<1>5. \A r \in rows : /\ cell(r) \in Under(cells, path) <=> r \in Down(rows, path)
                      /\ cell(r).g[at] = DimExpr(dim, r)
  BY <1>1, CellUnder
<1>6. \A c \in Under(cells, path) : \E r \in Down(rows, path) : c = cell(r)
  BY UnderFrom
<1>7. CellsNamed(cells, path, names) = {c \in Under(cells, path) : c.g[at] \in names}
  BY DEF CellsNamed, at
<1>8. Down(rows, path) \subseteq rows
  BY DEF Down
<1> HIDE DEF cell, cells, key
<1>9. CellsNamed(cells, path, names) = {cell(r) : r \in sub}
  BY <1>5, <1>6, <1>7, <1>8 DEF ValueIn
<1> QED BY <1>4, <1>9 DEF cells, at

ValuesIn(rows, dim) == {DimExpr(dim, r) : r \in rows}
FoldedBar(spec, cells, x) == Bar(x, <<>>, Reagg(spec, cells))
FoldedBars(spec, keys, series, rows, dim) ==
  {FoldedBar(spec, Cells(spec, keys, series, ValueIn(rows, dim, {x})), x)
   : x \in ValuesIn(rows, dim)}

LEMMA MatviewFolded ==
  ASSUME NEW spec, NEW keys, NEW series, NEW rows, NEW path, OnKeys(keys, path)
  PROVE  MatviewLevel(spec, Cells(spec, keys, series, rows), path, FALSE)
           = FoldedBars(spec, keys, series, Down(rows, path), keys[Len(path) + 1])
<1> DEFINE at == Len(path) + 1
           dim == keys[at]
           cells == Cells(spec, keys, series, rows)
           under == Under(cells, path)
           down == Down(rows, path)
           cell(r) == CellOf(spec, keys, series, rows, CellKey(keys, series, r))
           bar(x) == FoldedBar(spec, Cells(spec, keys, series, ValueIn(down, dim, {x})), x)
<1>1. at \in 1..Len(keys)
  BY DEF OnKeys
<1>2. ASSUME NEW x PROVE MatviewBar(spec, cells, path, FALSE, x, <<>>) = bar(x)
  <2>1. BarCells(cells, path, FALSE, x, <<>>) = CellsNamed(cells, path, {x})
    BY DEF BarCells, CellsNamed
  <2>2. CellsNamed(cells, path, {x}) = Cells(spec, keys, series, ValueIn(down, dim, {x}))
    BY NamedCells
  <2> QED BY <2>1, <2>2 DEF MatviewBar, FoldedBar
<1>3. \A r \in rows : /\ cell(r) \in under <=> r \in down
                      /\ cell(r).g[at] = DimExpr(dim, r)
  BY <1>1, CellUnder
<1>4. \A c \in under : \E r \in down : c = cell(r)
  BY UnderFrom
<1>5. down \subseteq rows
  BY DEF Down
<1>6. MatviewLevel(spec, cells, path, FALSE)
        = {MatviewBar(spec, cells, path, FALSE, c.g[at], <<>>) : c \in under}
  BY DEF MatviewLevel
<1> HIDE DEF cell, under, down, at, bar
<1>7. {c.g[at] : c \in under} = ValuesIn(down, dim)
  BY <1>3, <1>4, <1>5 DEF ValuesIn
<1> HIDE DEF cells
<1>8. MatviewLevel(spec, cells, path, FALSE) = {bar(x) : x \in {c.g[at] : c \in under}}
  BY <1>2, <1>6
<1>9. MatviewLevel(spec, cells, path, FALSE) = {bar(x) : x \in ValuesIn(down, dim)}
  BY <1>7, <1>8
<1> QED BY <1>9 DEF cells, FoldedBars, bar, down, at

\* The counts of the deepest groups add up to the number of rows.
LEMMA CountsAdd ==
  ASSUME NEW spec, spec.mode = "clause", NEW levels, NEW rows, IsFiniteSet(rows), rows # {},
         NEW agg \in {"count", "sum"}
  PROVE  Over(Cells(spec, levels, <<>>, rows), agg) = Cardinality(rows)
<1> DEFINE sub == Cells(spec, levels, <<>>, rows)
           key(r) == CellKey(levels, <<>>, r)
           cell(k) == CellOf(spec, levels, <<>>, rows, k)
           h == [r \in rows |-> cell(key(r))]
<1>1. sub = {cell(key(r)) : r \in rows}
  BY CellsAll
<1>2. Counting(sub)
  BY CountedIs
<1>3. sub # {} /\ \A r \in rows : h[r] \in sub
  BY <1>1
<1>4. ASSUME NEW c \in sub PROVE c["v"] = Cardinality(Part(rows, h, c))
  <2>1. PICK q \in rows : c = cell(key(q))
    BY <1>1
  <2>2. \A k : cell(k).key = k
    BY CellKeeps
  <2>3. \A r \in rows : h[r] = c <=> key(r) = key(q)
    <3> HIDE DEF cell, key
    <3> QED BY <2>1, <2>2
  <2> HIDE DEF h
  <2>4. Part(rows, h, c) = OfKey(levels, <<>>, rows, key(q))
    BY <2>3 DEF Part, OfKey
  <2>5. c.v = Cardinality(OfKey(levels, <<>>, rows, key(q)))
    BY <2>1, CellCounts
  <2>6. c["v"] = c.v
    BY <1>2 DEF Counting
  <2> QED BY <2>4, <2>5, <2>6
<1> HIDE DEF sub, h
<1>5. ColumnSum(sub, "v") = Cardinality(rows)
  BY <1>2, <1>3, <1>4, CountOfParts DEF Counting
<1>6. {c \in sub : c.v # Null} = sub
  BY <1>2 DEF Counting, Null
<1>7. Over(sub, agg) = ColumnSum(sub, "v")
  BY <1>3, <1>6, OverIs
<1> QED BY <1>5, <1>7 DEF sub

\* A grouping of the number of records.
Grouping(spec) ==
  spec.mode = "clause" /\ spec.groupBy # <<>> /\ spec.measure = "count"

LEMMA CountIs ==
  ASSUME NEW spec, Grouping(spec), NEW rows
  PROVE  MeasureOf(measure(spec), rows) = Cardinality(rows)
<1>1. measure(spec) = Measures["count"] /\ measure(spec).agg = "count" /\ measure(spec).test = "none"
  BY CatalogAssumption DEF Grouping, measure
<1>2. Tested(measure(spec), rows) = rows
  BY <1>1 DEF Tested
<1> DEFINE m == measure(spec)
<1>3. m.agg \in Aggregates /\ m.agg = "count"
  BY <1>1 DEF Aggregates
<1> HIDE DEF m
<1>4. MeasureOf(m, rows) = Cardinality(Tested(m, rows))
  BY <1>3, MeasureIs
<1> QED BY <1>2, <1>4 DEF m

LEMMA CountFolded ==
  ASSUME NEW spec, Grouping(spec), ~RollsUp(spec), NEW keys, NEW rows, IsFiniteSet(rows), NEW dim
  PROVE  NamedBars(spec, rows, dim) = FoldedBars(spec, keys, <<>>, rows, dim)
<1> DEFINE of(x) == ValueIn(rows, dim, {x})
           bar(x) == FoldedBar(spec, Cells(spec, keys, <<>>, of(x)), x)
           named(r) == Bar(DimExpr(dim, r), <<>>,
                           MeasureOf(measure(spec), AtValue(rows, dim, DimExpr(dim, r))))
<1>1. ASSUME NEW r \in rows PROVE named(r) = bar(DimExpr(dim, r))
  <2> DEFINE x == DimExpr(dim, r)
             part == of(x)
             cells == Cells(spec, keys, <<>>, part)
  <2>1. part = AtValue(rows, dim, x) /\ part # {}
    BY DEF ValueIn, AtValue
  <2>2. IsFiniteSet(part)
    BY FS_Subset DEF ValueIn
  <2>3. Reagg(spec, cells) = Over(cells, groupAggOf(spec)) /\ groupAggOf(spec) \in {"count", "sum"}
    BY DEF Reagg, isClauseChart, clauseMeasureParts, groupAggOf, Grouping, RollsUp
  <2> HIDE DEF part
  <2>4. Over(cells, groupAggOf(spec)) = Cardinality(part)
    BY <2>1, <2>2, <2>3, CountsAdd DEF Grouping
  <2>5. MeasureOf(measure(spec), part) = Cardinality(part)
    BY CountIs
  <2> HIDE DEF cells, x
  <2>6. Bar(x, <<>>, MeasureOf(measure(spec), AtValue(rows, dim, x))) = FoldedBar(spec, cells, x)
    BY <2>1, <2>3, <2>4, <2>5 DEF FoldedBar
  <2> QED BY <2>6 DEF x, cells, part
<1>2. NamedBars(spec, rows, dim) = {named(r) : r \in rows}
  BY DEF NamedBars
<1>3. FoldedBars(spec, keys, <<>>, rows, dim) = {bar(x) : x \in ValuesIn(rows, dim)}
  BY DEF FoldedBars
<1> HIDE DEF named, bar
<1>4. {named(r) : r \in rows} = {bar(x) : x \in ValuesIn(rows, dim)}
  BY <1>1 DEF ValuesIn
<1> QED BY <1>2, <1>3, <1>4

\* The bars of a grouping that rolls up its counts are those of its breakdown.
LEMMA RolledFolded ==
  ASSUME NEW spec, RollsUp(spec), spec.groupBy # <<>>,
         NEW keys \in Seq(STRING), keys = groupByKeys(spec), NEW rows, NEW none, none = <<>>,
         NEW dim, \E i \in 1..Len(keys) : keys[i] = dim
  PROVE  RolledBars(spec, rows, dim) = FoldedBars(spec, keys, none, rows, dim)
<1> DEFINE nested == Cells(spec, keys, none, rows)
           at == CHOOSE i \in DOMAIN keys : keys[i] = dim
           of(x) == ValueIn(rows, dim, {x})
           key(r) == CellKey(keys, none, r)
           cell(r) == CellOf(spec, keys, none, rows, key(r))
           folded(x) == Bar(x, <<>>, clauseMeasureParts(spec, {c \in nested : c.g[at] = x}))
           bar(x) == FoldedBar(spec, Cells(spec, keys, none, of(x)), x)
<1>1. DOMAIN keys = 1..Len(keys)
  OBVIOUS
<1>2. at \in DOMAIN keys /\ keys[at] = dim
  BY <1>1
<1> HIDE DEF at
<1>3. \A r : Values(keys, r)[at] = DimExpr(dim, r)
  BY <1>2 DEF Values
<1>4. \A r : cell(r).g[at] = DimExpr(dim, r)
  <2>1. \A r : cell(r).g = Values(keys, r)
    BY CellKeeps DEF CellKey
  <2> QED BY <1>3, <2>1
<1>5. nested = {cell(r) : r \in rows}
  BY CellsAll
<1>6. ASSUME NEW x PROVE {c \in nested : c.g[at] = x} = Cells(spec, keys, none, of(x))
  <2>1. Keyed(keys, none, rows, of(x))
    <3>1. ASSUME NEW r \in of(x), NEW q \in rows, key(q) = key(r) PROVE q \in of(x)
      <4>1. Values(keys, q) = Values(keys, r)
        BY <3>1 DEF CellKey
      <4>2. DimExpr(dim, q) = DimExpr(dim, r)
        BY <1>3, <4>1
      <4> QED BY <4>2 DEF ValueIn
    <3> QED BY <3>1 DEF Keyed, ValueIn
  <2>2. Cells(spec, keys, none, of(x)) = {cell(r) : r \in of(x)}
    BY <2>1, CellsOfPart
  <2> HIDE DEF cell, nested
  <2>3. {c \in nested : c.g[at] = x} = {cell(r) : r \in of(x)}
    BY <1>4, <1>5 DEF ValueIn
  <2> QED BY <2>2, <2>3
<1>7. isClauseChart(spec)
  BY DEF isClauseChart, RollsUp
<1>8. ASSUME NEW x PROVE folded(x) = bar(x)
  BY <1>6, <1>7 DEF FoldedBar, Reagg
<1>9. RolledBars(spec, rows, dim) = {folded(x) : x \in {c.g[at] : c \in nested}}
  BY DEF RolledBars, at
<1> HIDE DEF folded, bar, cell, nested
<1>10. {c.g[at] : c \in nested} = ValuesIn(rows, dim)
  BY <1>4, <1>5 DEF ValuesIn
<1>11. RolledBars(spec, rows, dim) = {bar(x) : x \in ValuesIn(rows, dim)}
  BY <1>8, <1>9, <1>10
<1> QED BY <1>11 DEF FoldedBars, bar

\* What a chart that keeps a breakdown is: as the designer writes it.
Keeping(spec) ==
  /\ isClauseChart(spec) => spec.measure = "count"
  /\ spec.mode = "clause" => isClauseChart(spec)

\* The level a chart without a split first level has, live and stored.
LEMMA LevelFolded ==
  ASSUME NEW spec, Keeping(spec), NEW rows, SoundTable(rows), NEW path,
         NEW keys, OnKeys(keys, path), NEW override, NEW drop,
         spec.mode = "clause" => keys = groupByKeys(spec),
         ~Alone(spec, override), DimOf(spec, override) = keys[Len(path) + 1],
         seriesKeys(spec, drop) = <<>>
  PROVE  MatviewLevel(spec, Cells(spec, keys, breakdownSeries(spec), rows), path, FALSE)
           = Aggregated(spec, Down(rows, path), override, drop)
<1> DEFINE down == Down(rows, path)
           at == Len(path) + 1
           dim == keys[at]
           series == breakdownSeries(spec)
           level == MatviewLevel(spec, Cells(spec, keys, series, rows), path, FALSE)
<1>1. at \in 1..Len(keys) /\ keys \in Seq(STRING)
  BY DEF OnKeys
<1>2. Aggregated(spec, down, override, drop)
        = IF RollsUp(spec) THEN RolledBars(spec, down, dim) ELSE GroupedBars(spec, down, dim, <<>>)
  BY AggregatedIs
<1> HIDE DEF series
<1>3. level = FoldedBars(spec, keys, series, down, dim)
  <2>1. OnKeys(keys, path)
    OBVIOUS
  <2> QED BY ONLY <2>1, MatviewFolded
<1>4. IsFiniteSet(down)
  BY FS_Subset DEF Down, SoundTable
<1> HIDE DEF level, down, at, series
<1>5. CASE spec.mode = "clause"
  <2>1. series = <<>> /\ keys = groupByKeys(spec) /\ spec.groupBy # <<>> /\ Grouping(spec)
    BY <1>5 DEF Keeping, breakdownSeries, isClauseChart, Grouping, series
  <2>2. CASE RollsUp(spec)
    <3>1. RolledBars(spec, down, dim) = FoldedBars(spec, keys, series, down, dim)
      BY <1>1, <2>1, <2>2, RolledFolded
    <3> QED BY <1>2, <1>3, <2>1, <2>2, <3>1 DEF level, down, series
  <2>3. CASE ~RollsUp(spec)
    <3>1. GroupedBars(spec, down, dim, <<>>) = NamedBars(spec, down, dim)
      BY GroupedNamed
    <3>2. NamedBars(spec, down, dim) = FoldedBars(spec, keys, <<>>, down, dim)
      BY <1>4, <2>1, <2>3, CountFolded
    <3> QED BY <1>2, <1>3, <2>1, <2>3, <3>1, <3>2 DEF level, down, series
  <2> QED BY <2>2, <2>3
<1>6. CASE spec.mode # "clause"
  <2>1. ~RollsUp(spec)
    BY <1>6 DEF RollsUp
  <2>2. GroupedBars(spec, down, dim, <<>>) = NamedBars(spec, down, dim)
    BY GroupedNamed
  <2>3. level = NamedBars(spec, down, dim)
    BY <1>6, MatviewNamed DEF level, down, at, series
  <2> QED BY <1>2, <2>1, <2>2, <2>3 DEF level, down, series
<1> QED BY <1>5, <1>6

Headed(w, S, x) == w \in Seq(S) /\ Len(w) # 0 /\ w[1] = x

LEMMA HeadedMore ==
  ASSUME NEW S, NEW w, NEW x, Headed(w, S, x), NEW e \in S
  PROVE  Headed(Append(w, e), S, x)
BY DEF Headed

\* A first element that is kept stays the first.
LEMMA WithoutFirst ==
  ASSUME NEW S, NEW s \in Seq(S), NEW gap, Len(s) # 0, s[1] # gap
  PROVE  Without(s, gap)[1] = s[1]
<1> DEFINE N == Len(s)
<1>1. N \in Nat /\ N # 0 /\ \A n \in 1..N : s[n] \in S
  OBVIOUS
<1>2. PICK f : /\ f[0] = <<>> /\ f[N] = Without(s, gap)
               /\ \A n \in 1..N : f[n] = IF s[n] = gap THEN f[n - 1] ELSE Append(f[n - 1], s[n])
  <2>1. s \in Seq(S)
    OBVIOUS
  <2> QED BY ONLY <2>1, WithoutRuns
<1> HIDE DEF N
<1> DEFINE G == {n \in Nat : n # 0 /\ n <= N => Headed(f[n], S, s[1])}
<1>3. 0 \in G
  OBVIOUS
<1>4. ASSUME NEW n \in Nat, n \in G PROVE n + 1 \in G
  <2> SUFFICES ASSUME n + 1 <= N PROVE Headed(f[n + 1], S, s[1])
    OBVIOUS
  <2> DEFINE w == f[n]
  <2>1. n + 1 \in 1..N /\ n <= N /\ (n + 1) - 1 = n
    BY <1>1
  <2>2. f[n + 1] = IF s[n + 1] = gap THEN w ELSE Append(w, s[n + 1])
    BY <1>2, <2>1
  <2>3. s[n + 1] \in S
    BY <1>1, <2>1
  <2>4. CASE n = 0
    <3>1. f[n + 1] = Append(<<>>, s[1])
      BY <1>2, <2>2, <2>4
    <3>2. s[1] \in S
      BY <2>3, <2>4
    <3> DEFINE one == Append(<<>>, s[1])
    <3>3. one \in Seq(S) /\ Len(one) = 1 /\ one[1] = s[1]
      BY <3>2
    <3> HIDE DEF one
    <3>4. Headed(one, S, s[1])
      BY <3>3 DEF Headed
    <3> QED BY <3>1, <3>4 DEF one
  <2>5. CASE n # 0
    <3>1. Headed(w, S, s[1])
      BY <1>4, <2>1, <2>5
    <3> HIDE DEF w
    <3> QED BY <2>2, <2>3, <3>1, HeadedMore
  <2> QED BY <2>4, <2>5
<1>5. Nat \subseteq G
  BY <1>3, <1>4, SetInduction
<1> QED BY <1>1, <1>2, <1>5 DEF Headed

\* The first level of a chart that has a dimension of its own is that of it.
LEMMA FirstKey ==
  ASSUME Posed, chart.mode # "clause", chart.dimension # None, Len(Keys) > 0
  PROVE  Keys[1] = chart.dimension
<1> DEFINE d == chart.dimension
           t == chart.drilldown
           one == <<d>>
           s == one \o t
           w == Without(s, None)
<1>1. Keys = w
  BY DEF Keys, drillSequence
<1>2. d \in STRING /\ t \in Seq(STRING)
  BY ChartTyped
<1>3. one \in Seq(STRING) /\ Len(one) = 1 /\ one[1] = d
  BY <1>2
<1> HIDE DEF t, one
<1>4. s \in Seq(STRING) /\ s[1] = d
  <2>1. Preceded(s, STRING, one, t)
    BY <1>2, <1>3, OneBefore
  <2> QED BY <1>3, <2>1 DEF Preceded
<1> HIDE DEF s
<1>5. Kept(s, STRING, None, Len(s), w)
  BY <1>4, WithoutKeeps
<1> HIDE DEF w, d
<1>6. Len(s) # 0
  BY <1>1, <1>5 DEF Kept
<1>7. w[1] = s[1]
  BY <1>4, <1>6, WithoutFirst DEF w, d
<1> QED BY <1>1, <1>4, <1>7 DEF d

\* The chart of a breakdown, at one of its levels.
OverrideAt(path) == IF path = <<>> THEN None ELSE Keys[Len(path) + 1]
Askable(path) ==
  /\ Posed /\ table \in Tables /\ chart.type # "table" /\ Designed(chart) /\ GoodPath(path)
  /\ breakdownFor(Resolved) /\ validateSpec(Resolved) /\ ~Where(Resolved, <<>>).bad

LEMMA KeptAt ==
  ASSUME NEW path, Askable(path)
  PROVE  /\ Keeping(Resolved) /\ OnKeys(Keys, path) /\ Len(path) + 1 \in 1..Len(Keys)
         /\ Keys \in Seq(STRING)
         /\ \A i \in 1..Len(Keys) : Keys[i] \in DOMAIN Dimensions
         /\ Resolved.mode = "clause" => Keys = groupByKeys(Resolved)
<1>1. Same(Resolved, chart) /\ Posed
  BY ResolvedSame DEF Askable
<1>2. Keys \in Seq(STRING) /\ (chart.mode = "clause" => Keys = groupByKeys(Resolved))
  BY <1>1, KeysAre
<1>3. /\ Len(Keys) \in Nat /\ Len(Keys) > 0
      /\ \A i \in 1..Len(Keys) : Keys[i] \in DOMAIN Dimensions
  BY <1>1, KeysSome DEF Askable
<1>4. Keeping(Resolved)
  BY <1>1 DEF Keeping, Askable, Designed, Same, breakdownFor, isClauseChart
<1>5. OnKeys(Keys, path) /\ Len(path) + 1 \in 1..Len(Keys)
  <2>1. CASE path = <<>>
    <3>1. Len(path) = 0 /\ path \in Seq(DrillStep)
      BY <2>1 DEF Askable, GoodPath
    <3> DEFINE n == Len(Keys)
               k == Len(path)
    <3> HIDE DEF n, k
    <3>2. k = 0 /\ n \in Nat /\ n > 0
      BY <1>3, <3>1 DEF n, k
    <3>3. k < n /\ k + 1 \in 1..n /\ 1..k = {}
      BY <3>2
    <3> QED BY <1>2, <3>1, <3>3 DEF OnKeys, n, k
  <2>2. CASE path # <<>>
    BY <2>2, PathLeft DEF Askable
  <2> QED BY <2>1, <2>2
<1> QED BY <1>1, <1>2, <1>3, <1>4, <1>5 DEF Same

\* Which bars a level of a breakdown is compared with.
LEMMA AskedAt ==
  ASSUME NEW path, Askable(path), path = <<>> => breakdownSeries(Resolved) = <<>>
  PROVE  /\ ~Alone(Resolved, OverrideAt(path))
         /\ DimOf(Resolved, OverrideAt(path)) = Keys[Len(path) + 1]
         /\ seriesKeys(Resolved, path # <<>>) = <<>>
<1> DEFINE at == Len(path) + 1
<1>1. at \in 1..Len(Keys) /\ \A i \in 1..Len(Keys) : Keys[i] \in DOMAIN Dimensions
  BY KeptAt
<1>2. Keys[at] # None
  BY <1>1, CatalogAssumption
<1>3. Same(Resolved, chart) /\ Posed /\ validateSpec(Resolved) /\ chart.type # "table"
  BY ResolvedSame DEF Askable
<1>4. CASE path # <<>>
  <2>1. OverrideAt(path) = Keys[at]
    BY <1>4 DEF OverrideAt
  <2> QED BY <1>2, <1>4, <2>1 DEF Alone, DimOf, seriesKeys
<1>5. CASE path = <<>>
  <2>1. OverrideAt(path) = None /\ at = 1 /\ breakdownSeries(Resolved) = <<>>
    BY <1>5 DEF OverrideAt
  <2>2. CASE chart.mode = "clause"
    <3>1. isClauseChart(Resolved) /\ Resolved.mode = "clause" /\ Keys = groupByKeys(Resolved)
      BY <1>3, <2>2, KeptAt DEF Same, Keeping
    <3>2. groupByKeys(Resolved) # <<>>
      BY <3>1 DEF isClauseChart, groupByKeys
    <3>3. DimOf(Resolved, None) = Keys[1] /\ ~Alone(Resolved, None)
      BY <3>1, <3>2 DEF DimOf, Alone
    <3> QED BY <2>1, <3>1, <3>3 DEF seriesKeys
  <2>3. CASE chart.mode # "clause"
    <3>1. /\ Resolved.mode # "clause" /\ Resolved.mode # "compare"
          /\ needsDimension(Resolved.type) /\ groupByKeys(Resolved) = <<>>
      <4>1. ~isClauseChart(Resolved)
        BY <1>3, <2>3 DEF Same, isClauseChart
      <4>2. Resolved.mode # "compare" /\ Resolved.drilldown # <<>>
        BY <4>1 DEF Askable, breakdownFor
      <4>3. needsDimension(chart.type)
        BY <1>3, <4>2 DEF Askable, Designed, Same
      <4> QED BY <1>3, <2>1, <2>3, <4>1, <4>2, <4>3 DEF Same, breakdownSeries
    <3>2. Dims(<<Resolved.dimension>>)
      BY <1>3, <3>1 DEF validateSpec, Same
    <3>3. chart.dimension \in DOMAIN Dimensions
      <4> DEFINE d == Resolved.dimension
                 one == <<d>>
      <4>1. one[1] \in ToSet(one)
        BY DEF ToSet
      <4> HIDE DEF d
      <4>2. d \in DOMAIN Dimensions
        BY <3>2, <4>1 DEF Dims, d
      <4> QED BY <1>3, <4>2 DEF Same, d
    <3>4. chart.dimension # None /\ Len(Keys) > 0
      <4>1. Len(Keys) > 0
        BY KeysSome DEF Askable
      <4> QED BY <3>3, <4>1, CatalogAssumption
    <3>5. Keys[1] = Resolved.dimension
      BY <1>3, <2>3, <3>4, FirstKey DEF Same
    <3> QED BY <2>1, <3>1, <3>5 DEF seriesKeys, Alone, DimOf
  <2> QED BY <2>2, <2>3
<1> QED BY <1>4, <1>5

\* The answer the table gives at a path.
LEMMA LiveIs ==
  ASSUME NEW path, Askable(path)
  PROVE  /\ LiveAt(path) = Aggregated(Resolved, Down(Base, path), OverrideAt(path), path # <<>>)
         /\ Selected(table, Where(Resolved, path)) = Down(Base, path)
<1> DEFINE w == Where(Resolved, path)
<1>1. /\ OnKeys(Keys, path) /\ Len(path) + 1 \in 1..Len(Keys)
      /\ \A i \in 1..Len(Keys) : Keys[i] \in DOMAIN Dimensions
  BY KeptAt
<1>2. /\ path \in Seq(DrillStep) /\ DOMAIN path = 1..Len(path)
      /\ \A i \in 1..Len(path) : /\ path[i].value # Null /\ path[i].dimension = Keys[i]
                                 /\ i \in 1..Len(Keys)
  BY <1>1 DEF OnKeys
<1>3. ~w.bad /\ Selected(table, w) = Down(Base, path)
  BY <1>1, <1>2, DownSelects DEF Askable
<1>4. validateSpec(Resolved) /\ drillSequence(Resolved) = Keys
  BY KeysAre DEF Askable
<1>5. \A o, drop : buildAggregationCore(Resolved, table, path, o, drop)
                     = Aggregated(Resolved, Down(Base, path), o, drop)
  BY <1>3, <1>4 DEF buildAggregationCore, Answered
<1>6. CASE path = <<>>
  <2>1. (path # <<>>) = FALSE /\ OverrideAt(path) = None
    BY <1>6 DEF OverrideAt
  <2>2. LiveAt(path) = buildAggregationCore(Resolved, table, path, None, FALSE)
    BY <1>6 DEF LiveAt, buildAggregation
  <2>3. LiveAt(path) = Aggregated(Resolved, Down(Base, path), None, FALSE)
    BY <1>5, <2>2
  <2> QED BY <1>3, <2>1, <2>3
<1>7. CASE path # <<>>
  <2>1. OnPath(Resolved, path) /\ ~(Len(path) >= Len(Keys))
    BY <1>1, <1>2, <1>4 DEF OnPath, OnKeys
  <2>2. (path # <<>>) = TRUE /\ OverrideAt(path) = Keys[Len(path) + 1]
    BY <1>7 DEF OverrideAt
  <2>3. LiveAt(path) = buildAggregationCore(Resolved, table, path, Keys[Len(path) + 1], TRUE)
    BY <1>4, <1>7, <2>1 DEF LiveAt, buildDrill
  <2>4. LiveAt(path) = Aggregated(Resolved, Down(Base, path), Keys[Len(path) + 1], TRUE)
    BY <1>5, <2>3
  <2> QED BY <1>3, <2>2, <2>4
<1> QED BY <1>3, <1>6, <1>7

\* The level a breakdown gives is the one the table gives, a bar for each value.
LevelHere(path) == MatviewLevel(Resolved, CellsHere, path, FALSE)

LEMMA StoredIsLive ==
  ASSUME NEW path, Askable(path), path = <<>> => breakdownSeries(Resolved) = <<>>
  PROVE  LevelHere(path) = LiveAt(path) /\ Distinct(LevelHere(path))
<1> DEFINE o == OverrideAt(path)
           drop == path # <<>>
           rows == Base
           down == Down(rows, path)
           live == Aggregated(Resolved, down, o, drop)
           at == Len(path) + 1
<1>1. /\ ~Alone(Resolved, o) /\ DimOf(Resolved, o) = Keys[at]
      /\ seriesKeys(Resolved, drop) = <<>>
  BY AskedAt
<1>2. /\ Keeping(Resolved) /\ OnKeys(Keys, path) /\ at \in 1..Len(Keys) /\ Keys \in Seq(STRING)
      /\ \A i \in 1..Len(Keys) : Keys[i] \in DOMAIN Dimensions
      /\ Resolved.mode = "clause" => Keys = groupByKeys(Resolved)
  BY KeptAt
<1>3. SoundTable(rows)
  BY SoundPart, TablesAssumption DEF SoundTable, Selected, Base, Askable
<1>4. LiveAt(path) = live
  BY LiveIs
<1>5. SoundTable(down)
  BY <1>3, SoundPart DEF Down
<1> HIDE DEF rows, down, o, drop, at
<1>6. LevelHere(path) = live
  <2>1. MatviewLevel(Resolved, Cells(Resolved, Keys, breakdownSeries(Resolved), rows), path, FALSE)
          = Aggregated(Resolved, Down(rows, path), o, drop)
    BY <1>1, <1>2, <1>3, LevelFolded DEF at
  <2> QED BY <2>1 DEF LevelHere, CellsHere, rows, down
<1>7. Named(Resolved, o)
  <2>1. \E i \in 1..Len(Keys) : Keys[i] = Keys[at]
    BY <1>2
  <2>2. DOMAIN Keys = 1..Len(Keys)
    BY <1>2
  <2> QED BY <1>1, <1>2, <2>1, <2>2 DEF Named
<1>8. \A b \in live : b.x \in Names
  BY <1>5, <1>7, LevelNames
<1>9. IsFiniteSet(live) /\ \A b \in live : IsBar(b) /\ b.y \in Nat \cup {Null}
  BY <1>5, LevelType
<1>10. \A b \in live, c \in live : b.x = c.x => b = c
  <2>1. live = IF RollsUp(Resolved) THEN RolledBars(Resolved, down, Keys[at])
               ELSE GroupedBars(Resolved, down, Keys[at], <<>>)
    BY <1>1, AggregatedIs
  <2>2. CASE RollsUp(Resolved)
    <3>1. Resolved.mode = "clause"
      BY <2>2 DEF RollsUp
    <3> HIDE DEF live
    <3> QED BY <1>5, <2>1, <2>2, <3>1, RolledAre
  <2>3. CASE ~RollsUp(Resolved)
    <3> DEFINE none == <<>>
    <3> HIDE DEF none, live
    <3>1. live = GroupedBars(Resolved, down, Keys[at], none)
      BY <2>1, <2>3 DEF none
    <3> QED BY <1>5, <3>1, GroupedDistinct DEF none
  <2> QED BY <2>2, <2>3
<1> HIDE DEF live
<1>11. Distinct(live)
  BY <1>8, <1>9, <1>10, NamesAre DEF Distinct
<1> QED BY <1>4, <1>6, <1>11

\* The rows whose bar is not one of those shown.
RowsPast(rows, dim, named) == {r \in rows : \A b \in named : b.x # DimExpr(dim, r)}

LEMMA PastTop ==
  ASSUME NEW level, Distinct(level), NEW rows, NEW dim,
         {b.x : b \in level} = ValuesIn(rows, dim)
  PROVE  RowsPast(rows, dim, Top(level))
           = ValueIn(rows, dim, {b.x : b \in level \ Top(level)})
<1> DEFINE top == Top(level)
           tail == {b.x : b \in level \ top}
<1>1. top \subseteq level
  BY DEF Top
<1> HIDE DEF top
<1>2. ASSUME NEW r \in rows PROVE (\A b \in top : b.x # DimExpr(dim, r)) <=> DimExpr(dim, r) \in tail
  <2>1. PICK c \in level : c.x = DimExpr(dim, r)
    BY DEF ValuesIn
  <2>2. \A b \in level : b.x = c.x => b = c
    BY DEF Distinct
  <2> QED BY <1>1, <2>1, <2>2
<1> QED BY <1>2 DEF RowsPast, ValueIn, top

\* All the cells of some rows are made of all of them.
LEMMA CellsRollAll ==
  ASSUME NEW spec, spec.mode # "clause", NEW levels, NEW series, NEW rows, SoundTable(rows),
         rows # {}
  PROVE  Reagg(spec, Cells(spec, levels, series, rows)) = MeasureOf(measure(spec), rows)
<1> DEFINE sub == Cells(spec, levels, series, rows)
           key(r) == CellKey(levels, series, r)
           cell(r) == CellOf(spec, levels, series, rows, key(r))
<1>1. sub = {cell(r) : r \in rows}
  BY CellsAll
<1>2. \A r : cell(r).key = key(r)
  BY CellKeeps
<1> HIDE DEF cell, sub, key
<1>3. sub # {} /\ \A r \in rows : \E c \in sub : c.key = key(r)
  BY <1>1, <1>2
<1>4. RowsOf(levels, series, rows, sub) = rows
  BY <1>3 DEF RowsOf, key
<1>5. Reagg(spec, sub) = MeasureOf(measure(spec), RowsOf(levels, series, rows, sub))
  BY <1>3, CellsRoll DEF sub
<1> QED BY <1>4, <1>5 DEF sub

\* "Other" is the measure of the records it stands for.
OtherAt(rest) ==
  IF isClauseChart(Resolved)
  THEN clauseMeasureParts(Resolved, Cells(Resolved, Keys, <<>>, rest))
  ELSE MeasureOf(measure(Resolved), rest)
DimAt(path) == Keys[Len(path) + 1]

LEMMA OtherIs ==
  ASSUME NEW path, Askable(path), path = <<>> => breakdownSeries(Resolved) = <<>>,
         LevelHere(path) \ Top(LevelHere(path)) # {}
  PROVE  Reagg(Resolved, TailCells(CellsHere, path, LevelHere(path)))
           = OtherAt(RowsPast(Down(Base, path), DimAt(path), Top(LevelHere(path))))
<1> DEFINE level == LevelHere(path)
           dim == DimAt(path)
           down == Down(Base, path)
           tail == {b.x : b \in level \ Top(level)}
           rest == ValueIn(down, dim, tail)
           series == breakdownSeries(Resolved)
           spec == Resolved
<1>1. OnKeys(Keys, path) /\ Keeping(spec)
  BY KeptAt
<1>2. Distinct(level)
  BY StoredIsLive
<1> HIDE DEF series, spec
<1>3. level = FoldedBars(spec, Keys, series, down, dim)
  <2>1. MatviewLevel(spec, Cells(spec, Keys, series, Base), path, FALSE)
          = FoldedBars(spec, Keys, series, Down(Base, path), Keys[Len(path) + 1])
    BY ONLY <1>1, MatviewFolded
  <2> QED BY <2>1 DEF LevelHere, CellsHere, DimAt, spec, series
<1> HIDE DEF level, down, dim
<1>4. {b.x : b \in level} = ValuesIn(down, dim)
  <2> DEFINE bar(x) == FoldedBar(spec, Cells(spec, Keys, series, ValueIn(down, dim, {x})), x)
  <2>1. \A x : bar(x).x = x
    BY DEF FoldedBar, Bar
  <2>2. level = {bar(x) : x \in ValuesIn(down, dim)}
    BY <1>3 DEF FoldedBars
  <2> HIDE DEF bar
  <2> QED BY <2>1, <2>2
<1>5. RowsPast(down, dim, Top(level)) = rest
  BY <1>2, <1>4, PastTop
<1>6. TailCells(CellsHere, path, level) = Cells(spec, Keys, series, rest)
  <2>1. TailCells(CellsHere, path, level) = CellsNamed(CellsHere, path, tail)
    BY DEF TailCells, CellsNamed
  <2> HIDE DEF tail
  <2>2. CellsNamed(Cells(spec, Keys, series, Base), path, tail)
          = Cells(spec, Keys, series, ValueIn(Down(Base, path), Keys[Len(path) + 1], tail))
    BY ONLY <1>1, NamedCells
  <2> QED BY <2>1, <2>2 DEF CellsHere, down, dim, DimAt, spec, series
<1>7. rest # {}
  <2>1. PICK b \in level : b \notin Top(level)
    BY DEF level
  <2>2. b.x \in tail
    BY <2>1
  <2>3. PICK r \in down : DimExpr(dim, r) = b.x
    BY <1>4, <2>1 DEF ValuesIn
  <2> QED BY <2>2, <2>3 DEF ValueIn
<1>8. SoundTable(rest)
  <2>1. SoundTable(table)
    BY TablesAssumption DEF SoundTable, Askable
  <2>2. rest \subseteq table
    BY DEF ValueIn, Down, Base, Selected, down
  <2> HIDE DEF rest
  <2> QED BY <2>1, <2>2, SoundPart
<1> HIDE DEF rest
<1>9. Reagg(spec, Cells(spec, Keys, series, rest)) = OtherAt(rest)
  <2>1. CASE isClauseChart(spec)
    <3>1. series = <<>>
      BY <2>1 DEF series, spec, breakdownSeries
    <3> QED BY <2>1, <3>1 DEF Reagg, OtherAt, spec
  <2>2. CASE ~isClauseChart(spec)
    <3>1. spec.mode # "clause"
      BY <1>1, <2>2 DEF Keeping
    <3>2. Reagg(spec, Cells(spec, Keys, series, rest)) = MeasureOf(measure(spec), rest)
      BY <1>7, <1>8, <3>1, CellsRollAll
    <3> QED BY <2>2, <3>2 DEF OtherAt, spec
  <2> QED BY <2>1, <2>2
<1> QED BY <1>5, <1>6, <1>9 DEF level, down, dim, spec

OfSeries(rows, dim, series, r) ==
  {q \in rows : DimExpr(dim, q) = DimExpr(dim, r) /\ Values(series, q) = Values(series, r)}
SeriesBar(spec, rows, dim, series, r) ==
  Bar(DimExpr(dim, r), Label(series, r), MeasureOf(measure(spec), OfSeries(rows, dim, series, r)))
SeriesBars(spec, rows, dim, series) == {SeriesBar(spec, rows, dim, series, r) : r \in rows}

LEMMA GroupedSeries ==
  ASSUME NEW spec, NEW rows, NEW dim, NEW series
  PROVE  GroupedBars(spec, rows, dim, series) = SeriesBars(spec, rows, dim, series)
<1> DEFINE key(r) == <<DimExpr(dim, r), Values(series, r)>>
           of(k) == {r \in rows : key(r) = k}
           bar(k) == Bar(k[1], Without(k[2], Null), MeasureOf(measure(spec), of(k)))
<1>1. ASSUME NEW r \in rows PROVE bar(key(r)) = SeriesBar(spec, rows, dim, series, r)
  <2>1. of(key(r)) = OfSeries(rows, dim, series, r)
    BY DEF OfSeries
  <2>2. key(r)[1] = DimExpr(dim, r) /\ Without(key(r)[2], Null) = Label(series, r)
    BY DEF Label
  <2> HIDE DEF key, of
  <2> QED BY <2>1, <2>2 DEF SeriesBar
<1>2. GroupedBars(spec, rows, dim, series) = {bar(k) : k \in {key(r) : r \in rows}}
  BY DEF GroupedBars
<1> HIDE DEF bar, key
<1> QED BY <1>1, <1>2 DEF SeriesBars

\* The first level of a breakdown that keeps the series.
LEMMA SeriesLevel ==
  ASSUME NEW spec, spec.mode # "clause", NEW keys \in Seq(STRING), Len(keys) > 0,
         NEW series, NEW rows, SoundTable(rows), Labelled(series, rows)
  PROVE  MatviewLevel(spec, Cells(spec, keys, series, rows), <<>>, TRUE)
           = SeriesBars(spec, rows, keys[1], series)
<1> DEFINE path == <<>>
           dim == keys[1]
           cells == Cells(spec, keys, series, rows)
           under == Under(cells, path)
           cell(r) == CellOf(spec, keys, series, rows, CellKey(keys, series, r))
           picked(x, s) == {c \in under : c.g[1] = x /\ c.s = s}
           bar(x, s) == Bar(x, s, Reagg(spec, picked(x, s)))
<1>1. path \in Seq(DrillStep) /\ Len(path) = 0
  <2> DEFINE D == DrillStep
  <2> HIDE DEF D
  <2>1. <<>> \in Seq(D)
    BY EmptyIsSeq
  <2> QED BY <2>1 DEF D
<1>2. OnKeys(keys, path) /\ Down(rows, path) = rows /\ Len(path) + 1 = 1 /\ 1 \in 1..Len(keys)
  <2> DEFINE n == Len(keys)
  <2>1. n \in Nat
    OBVIOUS
  <2> HIDE DEF path, n
  <2>2. n > 0
    BY DEF n
  <2>3. 0 < n /\ 1..0 = {} /\ 1 \in 1..n
    BY <2>1, <2>2
  <2> QED BY <1>1, <2>3 DEF OnKeys, Down, n
<1> HIDE DEF path
<1>3. ASSUME NEW x, NEW s PROVE MatviewBar(spec, cells, path, TRUE, x, s) = bar(x, s)
  <2>1. BarCells(cells, path, TRUE, x, s) = picked(x, s)
    BY <1>2 DEF BarCells
  <2> QED BY <2>1 DEF MatviewBar
<1>4. MatviewLevel(spec, cells, path, TRUE)
        = {MatviewBar(spec, cells, path, TRUE, c.g[1], c.s) : c \in under}
  BY <1>2 DEF MatviewLevel
<1>5. \A r \in rows : cell(r) \in under /\ cell(r).g[1] = DimExpr(dim, r)
                      /\ cell(r).s = Label(series, r)
  <2>1. \A r \in rows : cell(r) \in under <=> r \in Down(rows, path)
    BY <1>2, CellUnder
  <2>2. \A r \in rows : cell(r).g[1] = DimExpr(dim, r)
    <3>1. \A r : cell(r).g = Values(keys, r)
      BY CellKeeps DEF CellKey
    <3>2. \A r : Values(keys, r)[1] = DimExpr(dim, r)
      <4>1. 1 \in DOMAIN keys
        BY <1>2
      <4> QED BY <4>1 DEF Values
    <3> QED BY <3>1, <3>2
  <2>3. \A r : cell(r).s = Label(series, r)
    BY CellKeeps DEF CellKey, Label
  <2> QED BY <1>2, <2>1, <2>2, <2>3
<1>6. \A c \in under : \E r \in rows : c = cell(r)
  BY <1>2, UnderFrom
<1>7. ASSUME NEW r \in rows
      PROVE  bar(DimExpr(dim, r), Label(series, r)) = SeriesBar(spec, rows, dim, series, r)
  <2> DEFINE x == DimExpr(dim, r)
             s == Label(series, r)
             sub == picked(x, s)
  <2>1. sub \subseteq cells /\ sub # {}
    BY <1>5 DEF Under
  <2>2. sub = {c \in Under(cells, path) : c \in sub}
    OBVIOUS
  <2>3. \A q \in rows : cell(q) \in sub <=> DimExpr(dim, q) = x /\ Label(series, q) = s
    BY <1>5
  <2> HIDE DEF sub
  <2>4. RowsOf(keys, series, rows, sub) = {q \in Down(rows, path) : cell(q) \in sub}
    <3>1. OnKeys(keys, path)
      BY <1>2
    <3> QED BY ONLY <2>2, <3>1, RowsOfPicked
  <2> HIDE DEF cell
  <2>5. RowsOf(keys, series, rows, sub) = OfSeries(rows, dim, series, r)
    BY <1>2, <2>3, <2>4 DEF OfSeries, Labelled, Label
  <2>6. Reagg(spec, sub) = MeasureOf(measure(spec), RowsOf(keys, series, rows, sub))
    BY <2>1, CellsRoll
  <2> QED BY <2>5, <2>6 DEF SeriesBar, sub
<1> HIDE DEF bar, cell, under, cells
<1>8. MatviewLevel(spec, cells, path, TRUE) = {bar(c.g[1], c.s) : c \in under}
  BY <1>3, <1>4
<1>9. {bar(c.g[1], c.s) : c \in under} = {bar(DimExpr(dim, r), Label(series, r)) : r \in rows}
  BY <1>5, <1>6
<1>10. {bar(DimExpr(dim, r), Label(series, r)) : r \in rows} = SeriesBars(spec, rows, dim, series)
  BY <1>7 DEF SeriesBars
<1> QED BY <1>8, <1>9, <1>10 DEF cells, path

LEMMA StoredAsks ==
  ASSUME Walked, Designed(chart), bars # Refused, bars # LiveAt(steps)
  PROVE  /\ Askable(steps)
         /\ bars \in aggregateChartMatview(Resolved, CellsHere, steps, Split)
<1>1. PICK built \in BOOLEAN : bars \in ReadLevel(steps, built)
  BY DEF Walked
<1>2. validateSpec(Resolved) /\ ~Where(Resolved, <<>>).bad
  BY <1>1 DEF ReadLevel
<1>3. built /\ breakdownFor(Resolved)
  <2> SUFFICES ASSUME ~(built /\ breakdownFor(Resolved)) PROVE FALSE
    OBVIOUS
  <2>1. bars = LiveAt(steps)
    BY <1>1, <1>2 DEF ReadLevel, LiveAt
  <2> QED BY <2>1
<1>4. buildBreakdownMatview(Resolved, table) = CellsHere
  BY KeysAre DEF buildBreakdownMatview, Base, CellsHere, Walked
<1>5. bars \in aggregateChartMatview(Resolved, buildBreakdownMatview(Resolved, table), steps,
                                     steps = <<>> /\ breakdownSeries(Resolved) # <<>>)
  BY <1>1, <1>2, <1>3 DEF ReadLevel
<1>6. bars \in aggregateChartMatview(Resolved, CellsHere, steps, Split)
  BY <1>4, <1>5 DEF Split
<1> QED BY <1>2, <1>3, <1>6 DEF Askable, Walked

\* The first level of a chart with series.
LEMMA SplitAgrees ==
  ASSUME Walked, Askable(steps), Split, Labelled(groupByKeys(chart), table)
  PROVE  MatviewLevel(Resolved, CellsHere, steps, TRUE) = LiveAt(steps)
<1> DEFINE spec == Resolved
           series == breakdownSeries(Resolved)
           rows == Base
<1>1. Same(Resolved, chart) /\ steps = <<>> /\ series # <<>> /\ validateSpec(Resolved)
      /\ chart.type # "table"
  BY ResolvedSame DEF Askable, Split
<1>2. ~isClauseChart(spec) /\ series = groupByKeys(spec)
  BY <1>1 DEF breakdownSeries
<1>3. spec.mode # "clause" /\ spec.mode # "compare" /\ spec.drilldown # <<>>
  BY <1>2, KeptAt DEF Askable, Keeping, breakdownFor
<1>4. needsDimension(spec.type)
  BY <1>1, <1>3 DEF Askable, Designed, Same
<1>5. Keys[1] = spec.dimension /\ Len(Keys) > 0 /\ Keys \in Seq(STRING)
  <2>1. Len(Keys) > 0 /\ Keys \in Seq(STRING)
    BY KeysSome, KeptAt DEF Askable
  <2>2. Dims(<<spec.dimension>>)
    BY <1>1, <1>3, <1>4 DEF validateSpec, Same
  <2>3. spec.dimension \in DOMAIN Dimensions
    <3> DEFINE d == spec.dimension
               one == <<d>>
    <3>1. one[1] \in ToSet(one)
      BY DEF ToSet
    <3> HIDE DEF d
    <3> QED BY <2>2, <3>1 DEF Dims, d
  <2>4. chart.dimension = spec.dimension /\ chart.dimension # None /\ chart.mode # "clause"
    BY <1>1, <1>3, <2>3, CatalogAssumption DEF Same
  <2> QED BY <2>1, <2>4, FirstKey DEF Askable
<1>6. LiveAt(steps) = Aggregated(spec, Down(rows, steps), None, FALSE)
  <2>1. OverrideAt(steps) = None /\ (steps # <<>>) = FALSE
    BY <1>1 DEF OverrideAt
  <2>2. LiveAt(steps) = Aggregated(spec, Down(rows, steps), OverrideAt(steps), steps # <<>>)
    BY LiveIs
  <2> QED BY <2>1, <2>2
<1>7. Down(rows, steps) = rows
  <2>1. Len(steps) = 0
    BY <1>1
  <2> QED BY <2>1 DEF Down
<1>8. ~Alone(spec, None) /\ ~RollsUp(spec) /\ DimOf(spec, None) = Keys[1]
      /\ seriesKeys(spec, FALSE) = series
  BY <1>2, <1>3, <1>4, <1>5 DEF Alone, RollsUp, DimOf, seriesKeys
<1>9. SoundTable(rows) /\ Labelled(series, rows)
  <2>1. SoundTable(table) /\ rows \subseteq table
    BY TablesAssumption DEF SoundTable, Base, Selected, Askable
  <2>2. groupByKeys(chart) = series
    BY <1>1, <1>2 DEF Same, groupByKeys
  <2> HIDE DEF rows, series
  <2>3. Labelled(series, rows)
    BY <2>1, <2>2 DEF Labelled
  <2> QED BY <2>1, <2>3, SoundPart
<1> HIDE DEF rows, series, spec
<1>10. Aggregated(spec, rows, None, FALSE) = SeriesBars(spec, rows, Keys[1], series)
  <2>1. Aggregated(spec, rows, None, FALSE) = GroupedBars(spec, rows, Keys[1], series)
    BY <1>8, AggregatedIs
  <2> QED BY <2>1, GroupedSeries
<1>11. MatviewLevel(spec, Cells(spec, Keys, series, rows), <<>>, TRUE)
         = SeriesBars(spec, rows, Keys[1], series)
  BY <1>3, <1>5, <1>9, SeriesLevel
<1>12. CellsHere = Cells(spec, Keys, series, rows)
  BY DEF CellsHere, spec, series, rows
<1> QED BY <1>1, <1>6, <1>7, <1>10, <1>11, <1>12 DEF spec

\* LevelsAgree, of the bars on screen.
Agreeing(live, rest) ==
  IF Split THEN bars \subseteq live /\ Cardinality(bars) = ChartTopGroups + 1
  ELSE LET named == {b \in bars : b.x # Other} IN
       /\ named \subseteq live /\ Cardinality(named) = ChartTopGroups
       /\ bars \ named = {Bar(Other, <<>>, OtherAt(rest))}

LEMMA AgreeingIs ==
  ASSUME Posed,
         bars # Refused /\ bars # LiveAt(steps) =>
           Agreeing(LiveAt(steps), RowsPast(Selected(table, Where(Resolved, steps)), DimAt(steps),
                                            {b \in bars : b.x # Other}))
  PROVE  LevelsAgree
<1>1. drillSequence(Resolved) = Keys
  BY KeysAre
<1> QED BY <1>1 DEF LevelsAgree, Agreeing, LiveAt, RowsPast, DimAt, OtherAt

LEMMA WholeAgrees ==
  ASSUME Walked, Askable(steps), ~Split, bars # LiveAt(steps),
         bars \in aggregateChartMatview(Resolved, CellsHere, steps, FALSE)
  PROVE  Agreeing(LiveAt(steps), RowsPast(Selected(table, Where(Resolved, steps)), DimAt(steps),
                                          {b \in bars : b.x # Other}))
<1> DEFINE level == LevelHere(steps)
           top == Top(level)
           rest == Bar(Other, <<>>, Reagg(Resolved, TailCells(CellsHere, steps, level)))
           named == {b \in bars : b.x # Other}
<1>1. steps = <<>> => breakdownSeries(Resolved) = <<>>
  BY DEF Split
<1>2. level = LiveAt(steps) /\ Distinct(level)
  BY <1>1, StoredIsLive
<1>3. bars \in IF Cardinality(level) =< ChartTopGroups THEN {level} ELSE {top \cup {rest}}
  <2> HIDE DEF rest, top
  <2>1. aggregateChartMatview(Resolved, CellsHere, steps, FALSE) =
          IF Cardinality(level) =< ChartTopGroups THEN {level}
          ELSE IF FALSE THEN Foremost(level, ChartTopGroups + 1)
          ELSE {Top(level) \cup {Bar(Other, <<>>, Reagg(Resolved, TailCells(CellsHere, steps, level)))}}
    BY MatviewAnswers DEF LevelHere
  <2> HIDE DEF level
  <2> QED BY <2>1 DEF rest, top
<1> HIDE DEF level, rest
<1>4. ~(Cardinality(level) <= ChartTopGroups) /\ bars = top \cup {rest}
  BY <1>2, <1>3
<1>5. top \subseteq level /\ Cardinality(top) = ChartTopGroups /\ level \ top # {}
  BY <1>2, <1>4, TopLeaves
<1>6. rest.x = Other
  BY BarFields DEF rest
<1>7. \A b \in level : b.x # Other
  BY <1>2 DEF Distinct
<1> HIDE DEF top
<1>8. named = top /\ bars \ named = {rest}
  BY <1>4, <1>5, <1>6, <1>7
<1>9. Selected(table, Where(Resolved, steps)) = Down(Base, steps)
  BY LiveIs
<1>10. Reagg(Resolved, TailCells(CellsHere, steps, level))
         = OtherAt(RowsPast(Down(Base, steps), DimAt(steps), top))
  BY <1>1, <1>5, OtherIs DEF level, top
<1>11. rest = Bar(Other, <<>>, OtherAt(RowsPast(Down(Base, steps), DimAt(steps), named)))
  BY <1>8, <1>10 DEF rest
<1> HIDE DEF named
<1> QED BY <1>2, <1>5, <1>8, <1>9, <1>11 DEF Agreeing, named

LEMMA LevelAgrees ==
  ASSUME Walked, Designed(chart), Labelled(seriesKeys(chart, FALSE), table)
  PROVE  LevelsAgree
<1> SUFFICES ASSUME bars # Refused, bars # LiveAt(steps)
             PROVE  Agreeing(LiveAt(steps),
                             RowsPast(Selected(table, Where(Resolved, steps)), DimAt(steps),
                                      {b \in bars : b.x # Other}))
  BY AgreeingIs DEF Walked
<1>1. Askable(steps) /\ bars \in aggregateChartMatview(Resolved, CellsHere, steps, Split)
  BY StoredAsks
<1>2. CASE Split
  <2> DEFINE level == MatviewLevel(Resolved, CellsHere, steps, TRUE)
             n == Cardinality(level)
  <2>1. seriesKeys(chart, FALSE) = groupByKeys(chart)
    <3>1. ~isClauseChart(Resolved)
      BY <1>2 DEF Split, breakdownSeries
    <3>2. Resolved.mode # "clause"
      BY <1>1, <3>1, KeptAt DEF Keeping
    <3>3. Resolved.mode # "compare"
      BY <1>1, <3>1 DEF Askable, breakdownFor
    <3> QED BY <3>2, <3>3, ResolvedSame DEF Walked, Same, seriesKeys
  <2>2. level = LiveAt(steps)
    BY <1>1, <1>2, <2>1, SplitAgrees
  <2>3. Split = TRUE
    BY <1>2 DEF Split
  <2>4. bars \in aggregateChartMatview(Resolved, CellsHere, steps, TRUE)
    BY <1>1, <2>3
  <2>5. bars \in IF n =< ChartTopGroups THEN {level} ELSE Foremost(level, ChartTopGroups + 1)
    BY <2>4, MatviewAnswers
  <2> HIDE DEF level
  <2>6. bars \subseteq level /\ Cardinality(bars) = ChartTopGroups + 1
    BY <2>2, <2>5 DEF Foremost
  <2> QED BY <1>2, <2>2, <2>6 DEF Agreeing
<1>3. CASE ~Split
  <2>1. Split = FALSE
    BY <1>3 DEF Split
  <2>2. bars \in aggregateChartMatview(Resolved, CellsHere, steps, FALSE)
    BY <1>1, <2>1
  <2> QED BY <1>1, <1>3, <2>2, WholeAgrees
<1> QED BY <1>2, <1>3

\* Whatever answers a level, the matview or the table, of a chart as the
\* designer writes it whose series can be told apart by their labels, the
\* screen shows the same bars: all of them, or the first, and "Other" for the
\* measure of all the records outside them (aggregateChartMatview).
THEOREM LevelsAreTheSame ==
  ASSUME \A q \in Questions : Designed(q.chart),
         \A q \in Questions : \A rows \in Tables : Labelled(seriesKeys(q.chart, FALSE), rows)
  PROVE  Spec => []LevelsAgree
<1>1. Init => Walked
  BY WalkedFirst
<1>2. Walked /\ [Next]_vars => Walked'
  BY WalkedNext
<1>3. Walked => LevelsAgree
  <2> SUFFICES ASSUME Walked PROVE LevelsAgree
    OBVIOUS
  <2>1. Designed(chart) /\ Labelled(seriesKeys(chart, FALSE), table)
    BY DEF Walked, Posed
  <2> QED BY <2>1, LevelAgrees
<1> QED BY <1>1, <1>2, <1>3, PTL DEF Spec

(***************************************************************************)
(* The total of bars, and what their rows are worth.                       *)
(***************************************************************************)
BarCell(b) == [v |-> b.y, x |-> b.x, s |-> b.s]
BarCellsOf(B) == {BarCell(b) : b \in B}
AreBars(B) == IsFiniteSet(B) /\ \A b \in B : IsBar(b) /\ b.y \in Nat \cup {Null}

LEMMA ValuedIs ==
  ASSUME NEW b
  PROVE  /\ BarCell(b).v = b.y /\ BarCell(b)["v"] = b.y
         /\ \A c : IsBar(b) /\ IsBar(c) /\ BarCell(b) = BarCell(c) => b = c
<1>1. BarCell(b).v = b.y /\ BarCell(b)["v"] = b.y
  BY DEF BarCell
<1>2. ASSUME NEW c, IsBar(b), IsBar(c), BarCell(b) = BarCell(c) PROVE b = c
  <2>1. b.y = c.y /\ b.x = c.x /\ b.s = c.s
    BY <1>2 DEF BarCell
  <2> QED BY <1>2, <2>1 DEF IsBar
<1> QED BY <1>1, <1>2

LEMMA SingleSum ==
  ASSUME NEW b, NEW col, b[col] \in Int
  PROVE  ColumnSum({b}, col) = b[col]
<1> DEFINE S == {b}
           f == [x \in S |-> b[col]]
<1>1. IsFiniteSet({}) /\ IsFiniteSet(S)
  BY FS_EmptySet, FS_Singleton
<1>2. \A x \in S : x[col] \in Int /\ f[x] = x[col] /\ f[x] \in Int
  OBVIOUS
<1> HIDE DEF f
<1>3. ColumnSum(S, col) = SumOf(f, S) /\ Adds(f, S)
  BY <1>1, <1>2, ColumnSumIs DEF Adds
<1>4. SumOf(f, {} \cup {b}) = f[b] + SumOf(f, {})
  <2> DEFINE none == {}
  <2>1. b \notin none /\ none \cup {b} = S
    OBVIOUS
  <2> HIDE DEF none
  <2>2. Adds(f, none \cup {b})
    BY <1>3, <2>1
  <2> QED BY <2>1, <2>2, SumWith DEF none
<1>5. SumOf(f, {}) = 0
  BY SumNone
<1> QED BY <1>2, <1>3, <1>4, <1>5

LEMMA SumValued ==
  ASSUME NEW B, IsFiniteSet(B), \A b \in B : IsBar(b) /\ b.y \in Int
  PROVE  ColumnSum(BarCellsOf(B), "v") = ColumnSum(B, "y")
<1> DEFINE K == BarCellsOf(B)
           h == [b \in B |-> BarCell(b)]
           col == "v"
           of == "y"
<1>1. IsFiniteSet(K) /\ \A b \in B : h[b] \in K
  <2>1. K = {h[b] : b \in B}
    BY DEF BarCellsOf
  <2> HIDE DEF K
  <2>2. IsFiniteSet({h[b] : b \in B})
    BY ImageFinite
  <2> QED BY <2>1, <2>2
<1>2. ASSUME NEW c \in K PROVE c[col] = ColumnSum(Part(B, h, c), of)
  <2>1. PICK b \in B : c = BarCell(b)
    BY DEF BarCellsOf
  <2>2. Part(B, h, c) = {b}
    <3>1. \A a \in B : BarCell(a) = BarCell(b) => a = b
      BY ValuedIs
    <3> QED BY <2>1, <3>1 DEF Part
  <2>3. b[of] \in Int /\ c[col] = b[of]
    BY <2>1, ValuedIs
  <2> HIDE DEF col, of
  <2>4. ColumnSum({b}, of) = b[of]
    BY <2>3, SingleSum
  <2> QED BY <2>2, <2>3, <2>4
<1>3. \A b \in B : b[of] \in Int
  OBVIOUS
<1> HIDE DEF K, h, col, of
<1>4. ColumnSum(K, col) = ColumnSum(B, of)
  BY <1>1, <1>2, <1>3, SumOfParts
<1> QED BY <1>4 DEF K, col, of

LEMMA TotalValued ==
  ASSUME NEW B, AreBars(B), NEW agg \in {"count", "sum", "min", "max"}
  PROVE  Total(B, agg) = Over(BarCellsOf(B), agg)
<1> DEFINE with == {b \in B : b.y # Null}
           K == {c \in BarCellsOf(B) : c.v # Null}
<1>1. K = BarCellsOf(with)
  BY ValuedIs DEF BarCellsOf
<1>2. {c.v : c \in K} = {b.y : b \in with}
  <2>1. \A b : BarCell(b).v = b.y
    BY ValuedIs
  <2> QED BY <1>1, <2>1 DEF BarCellsOf
<1>3. K = {} <=> with = {}
  BY <1>1 DEF BarCellsOf
<1>4. ColumnSum(K, "v") = ColumnSum(with, "y")
  <2>1. IsFiniteSet(with) /\ \A b \in with : IsBar(b) /\ b.y \in Int
    BY FS_Subset DEF AreBars
  <2> HIDE DEF with, K
  <2> QED BY <1>1, <2>1, SumValued
<1>5. Total(B, agg) = IF with = {} THEN Null
                      ELSE CASE agg = "min" -> Min({b.y : b \in with})
                             [] agg = "max" -> Max({b.y : b \in with})
                             [] OTHER -> ColumnSum(with, "y")
  BY DEF Total
<1> HIDE DEF with, K
<1>6. CASE with = {}
  <2>1. Over(BarCellsOf(B), agg) = Null
    BY <1>3, <1>6, OverIs DEF K
  <2> QED BY <1>5, <1>6, <2>1
<1>7. CASE with # {}
  <2>1. K # {}
    BY <1>3, <1>7
  <2>2. /\ agg = "min" => Over(BarCellsOf(B), agg) = Min({c.v : c \in K})
        /\ agg = "max" => Over(BarCellsOf(B), agg) = Max({c.v : c \in K})
        /\ agg \in {"count", "sum"} => Over(BarCellsOf(B), agg) = ColumnSum(K, "v")
    BY <2>1, OverIs DEF K
  <2> QED BY <1>2, <1>4, <1>5, <1>7, <2>2
<1> QED BY <1>6, <1>7

\* Bars that share rows out have their measure as a total.
LEMMA TotalOfParts ==
  ASSUME NEW m, m.agg \in {"count", "sum", "min", "max"}, NEW rows, HasColumn(rows, m.col),
         NEW B, AreBars(B), NEW h, Parted(B, rows, h),
         \A b \in B : b.y = MeasureOf(m, Part(rows, h, b))
  PROVE  Total(B, m.agg) = MeasureOf(m, rows)
<1> DEFINE K == BarCellsOf(B)
           g == [r \in rows |-> BarCell(h[r])]
<1>1. Parted(K, rows, g)
  <2> DEFINE e == [b \in B |-> BarCell(b)]
  <2>1. K = {e[b] : b \in B}
    BY DEF BarCellsOf
  <2> HIDE DEF e
  <2>2. IsFiniteSet(K)
    BY <2>1, ImageFinite DEF Parted
  <2> QED BY <2>2 DEF Parted, BarCellsOf
<1>2. ASSUME NEW c \in K PROVE c.v = MeasureOf(m, Part(rows, g, c)) /\ c["v"] = c.v
  <2>1. PICK b \in B : c = BarCell(b)
    BY DEF BarCellsOf
  <2>2. \A a \in B : BarCell(a) = BarCell(b) => a = b
    BY ValuedIs DEF AreBars
  <2>3. Part(rows, g, c) = Part(rows, h, b)
    BY <2>1, <2>2 DEF Part, Parted
  <2>4. c.v = b.y /\ c["v"] = c.v
    BY <2>1, ValuedIs
  <2> QED BY <2>3, <2>4
<1> HIDE DEF K, g
<1>3. Over(K, m.agg) = MeasureOf(m, rows)
  BY <1>1, <1>2, OverOfParts
<1>4. Total(B, m.agg) = Over(K, m.agg)
  BY TotalValued DEF K
<1> QED BY <1>3, <1>4

\* Counts of groups, as a column.
Folding(agg) == [agg |-> IF agg = "count" THEN "sum" ELSE agg,
                 col |-> "v", test |-> "none", on |-> "v"]

LEMMA FoldingIs ==
  ASSUME NEW cells, Counting(cells), NEW agg \in {"count", "sum", "min", "max"}
  PROVE  /\ Folding(agg).agg \in {"count", "sum", "min", "max"}
         /\ HasColumn(cells, Folding(agg).col)
         /\ Over(cells, agg) = MeasureOf(Folding(agg), cells)
<1> DEFINE m == Folding(agg)
           H == Having(m, cells)
<1>1. /\ m.agg \in {"sum", "min", "max"} /\ m.col = "v" /\ m.test = "none"
      /\ agg \in {"count", "sum"} => m.agg = "sum"
      /\ agg \in {"min", "max"} => m.agg = agg
  BY DEF Folding
<1>2. IsFiniteSet(cells) /\ \A c \in cells : c.v = c["v"] /\ c["v"] \in Nat
  BY DEF Counting
<1> HIDE DEF m
<1>3. HasColumn(cells, m.col)
  BY <1>1, <1>2 DEF HasColumn
<1>4. H = {c \in cells : c.v # Null}
  BY <1>1, <1>2 DEF Having, Tested
<1>5. {c[m.col] : c \in H} = {c.v : c \in H}
  BY <1>1, <1>2, <1>4
<1>6. m.agg \in Aggregates
  BY <1>1 DEF Aggregates
<1> HIDE DEF H
<1>7. CASE H = {}
  <2>1. Over(cells, agg) = Null
    BY <1>4, <1>7, OverIs
  <2>2. MeasureOf(m, cells) = Null
    BY <1>1, <1>6, <1>7, MeasureIs DEF H
  <2> QED BY <1>1, <1>3, <2>1, <2>2 DEF m
<1>8. CASE H # {}
  <2>1. /\ agg = "min" => Over(cells, agg) = Min({c.v : c \in H})
        /\ agg = "max" => Over(cells, agg) = Max({c.v : c \in H})
        /\ agg \in {"count", "sum"} => Over(cells, agg) = ColumnSum(H, "v")
    BY <1>4, <1>8, OverIs
  <2>2. /\ m.agg = "sum" => MeasureOf(m, cells) = ColumnSum(H, m.col)
        /\ m.agg = "min" => MeasureOf(m, cells) = Min({c[m.col] : c \in H})
        /\ m.agg = "max" => MeasureOf(m, cells) = Max({c[m.col] : c \in H})
    BY <1>6, <1>8, MeasureIs DEF H
  <2>3. Over(cells, agg) = MeasureOf(m, cells)
    BY <1>1, <1>5, <2>1, <2>2
  <2> QED BY <1>1, <1>3, <2>3 DEF m
<1> QED BY <1>7, <1>8

\* Rows shared out so that no group of a grouping is split.
Unsplit(rows, h) ==
  isClauseChart(Resolved) =>
    \A r \in rows, q \in rows : CellKey(Keys, <<>>, q) = CellKey(Keys, <<>>, r) => h[q] = h[r]

LEMMA CellsShared ==
  ASSUME NEW rows, NEW h, NEW keys, NEW none, none = <<>>, NEW spec,
         \A r \in rows, q \in rows : CellKey(keys, none, q) = CellKey(keys, none, r) => h[q] = h[r]
  PROVE  \E g : /\ \A c \in Cells(spec, keys, none, rows) : \E r \in rows : g[c] = h[r]
                /\ \A b : Part(Cells(spec, keys, none, rows), g, b)
                            = Cells(spec, keys, none, Part(rows, h, b))
<1> DEFINE cells == Cells(spec, keys, none, rows)
           key(r) == CellKey(keys, none, r)
           cell(r) == CellOf(spec, keys, none, rows, key(r))
           g == [c \in cells |-> h[CHOOSE r \in rows : cell(r) = c]]
<1>1. cells = {cell(r) : r \in rows}
  BY CellsAll
<1>2. \A r, q : cell(r) = cell(q) => key(r) = key(q)
  <2>1. \A r : cell(r).key = key(r)
    BY CellKeeps
  <2> HIDE DEF cell, key
  <2> QED BY <2>1
<1>3. \A b : Cells(spec, keys, none, Part(rows, h, b)) = {cell(r) : r \in Part(rows, h, b)}
  <2> SUFFICES ASSUME NEW b
               PROVE  Cells(spec, keys, none, Part(rows, h, b)) = {cell(r) : r \in Part(rows, h, b)}
    OBVIOUS
  <2> DEFINE sub == Part(rows, h, b)
  <2>1. Keyed(keys, none, rows, sub)
    BY DEF Keyed, Part
  <2> HIDE DEF sub
  <2>2. Cells(spec, keys, none, sub) = {cell(r) : r \in sub}
    BY ONLY <2>1, CellsOfPart
  <2> QED BY <2>2 DEF sub
<1> HIDE DEF cell, cells
<1>4. ASSUME NEW r \in rows PROVE cell(r) \in cells /\ g[cell(r)] = h[r]
  <2> DEFINE c == cell(r)
             q == CHOOSE q \in rows : cell(q) = c
  <2>1. c \in cells
    BY <1>1
  <2>2. q \in rows /\ cell(q) = c
    OBVIOUS
  <2>3. g[c] = h[q]
    BY <2>1
  <2> HIDE DEF q
  <2>4. h[q] = h[r]
    BY <1>2, <2>2
  <2> QED BY <2>1, <2>3, <2>4
<1> HIDE DEF g
<1>5. \A c \in cells : \E r \in rows : g[c] = h[r]
  BY <1>1, <1>4
<1>6. \A b : Part(cells, g, b) = {cell(r) : r \in Part(rows, h, b)}
  BY <1>1, <1>4 DEF Part
<1> QED BY <1>3, <1>5, <1>6 DEF cells

\* Bars that share rows out add up to what the rows are worth.
LEMMA WorthOfParts ==
  ASSUME AggOf(Resolved) # "avg", NEW rows, SoundTable(rows), NEW B, AreBars(B),
         NEW h, Parted(B, rows, h), Unsplit(rows, h),
         \A b \in B : b.y = OtherAt(Part(rows, h, b))
  PROVE  Total(B, AggOf(Resolved)) = OtherAt(rows)
<1> DEFINE agg == AggOf(Resolved)
<1>1. CASE ~isClauseChart(Resolved)
  <2> DEFINE m == measure(Resolved)
  <2>1. agg = m.agg /\ m.agg \in {"count", "sum", "min", "max"} /\ HasColumn(rows, m.col)
    BY <1>1, MeasureOfSpec DEF AggOf, Aggregates
  <2>2. \A s : OtherAt(s) = MeasureOf(m, s)
    BY <1>1 DEF OtherAt
  <2> HIDE DEF m, agg
  <2>3. Total(B, m.agg) = MeasureOf(m, rows)
    BY <2>1, <2>2, TotalOfParts
  <2> QED BY <2>1, <2>2, <2>3 DEF agg
<1>2. CASE isClauseChart(Resolved)
  <2> DEFINE none == <<>>
             spec == Resolved
             cells == Cells(spec, Keys, none, rows)
             m == Folding(agg)
  <2>1. agg = groupAggOf(spec) /\ agg \in {"count", "sum", "min", "max"} /\ spec.mode = "clause"
    BY <1>2 DEF AggOf, groupAggOf, isClauseChart
  <2>2. \A s : OtherAt(s) = Over(Cells(spec, Keys, none, s), agg)
    BY <1>2, <2>1 DEF OtherAt, clauseMeasureParts
  <2>3. \A s \in SUBSET rows : Counting(Cells(spec, Keys, none, s))
    <3> SUFFICES ASSUME NEW s \in SUBSET rows PROVE Counting(Cells(spec, Keys, none, s))
      OBVIOUS
    <3>1. IsFiniteSet(s)
      BY FS_Subset DEF SoundTable
    <3> QED BY <2>1, <3>1, CountedIs
  <2>4. \A r \in rows, q \in rows : CellKey(Keys, none, q) = CellKey(Keys, none, r) => h[q] = h[r]
    BY <1>2 DEF Unsplit
  <2>5. none = <<>>
    OBVIOUS
  <2> HIDE DEF none, spec
  <2>6. PICK g : /\ \A c \in cells : \E r \in rows : g[c] = h[r]
                 /\ \A b : Part(cells, g, b) = Cells(spec, Keys, none, Part(rows, h, b))
    BY <2>4, <2>5, CellsShared
  <2> HIDE DEF agg, m
  <2>7. \A s \in SUBSET rows : Over(Cells(spec, Keys, none, s), agg) = MeasureOf(m, Cells(spec, Keys, none, s))
    BY <2>1, <2>3, FoldingIs DEF m
  <2>8. m.agg \in {"count", "sum", "min", "max"} /\ HasColumn(cells, m.col)
    BY <2>1, <2>3, FoldingIs DEF m
  <2>9. Parted(B, cells, g)
    BY <2>6 DEF Parted
  <2>10. \A b \in B : b.y = MeasureOf(m, Part(cells, g, b))
    <3> SUFFICES ASSUME NEW b \in B PROVE b.y = MeasureOf(m, Part(cells, g, b))
      OBVIOUS
    <3> DEFINE s == Part(rows, h, b)
    <3>1. s \in SUBSET rows
      BY DEF Part
    <3>2. Part(cells, g, b) = Cells(spec, Keys, none, s) /\ b.y = OtherAt(s)
      BY <2>6
    <3> HIDE DEF s, cells
    <3> QED BY <2>2, <2>7, <3>1, <3>2
  <2> HIDE DEF cells
  <2>11. Total(B, m.agg) = MeasureOf(m, cells)
    BY <2>8, <2>9, <2>10, TotalOfParts
  <2>12. Total(B, agg) = Total(B, m.agg)
    BY <2>1 DEF Total, Folding, m
  <2> QED BY <2>2, <2>7, <2>11, <2>12 DEF cells, agg
<1> QED BY <1>1, <1>2

(***************************************************************************)
(* A level shown whole, or its first bars and one for the rest, adds up to *)
(* what its rows are worth.                                                *)
(***************************************************************************)
\* The bars of one dimension, each worth its rows.
Proper(level, rows, dim) ==
  /\ Distinct(level) /\ {b.x : b \in level} = ValuesIn(rows, dim)
  /\ \A b \in level : b.y = OtherAt(AtValue(rows, dim, b.x))

\* All of a level, or some of it and a bar for the rest.
ShownOf(B, level, rows, dim) ==
  LET named == {b \in B : b.x # Other} IN
  \/ B = level
  \/ named \subseteq level /\ B \ named = {Bar(Other, <<>>, OtherAt(RowsPast(rows, dim, named)))}

\* The bar that stands for a row.
BarFor(B, dim, r) ==
  CHOOSE b \in B : b.x = DimExpr(dim, r) \/ (b.x = Other /\ \A c \in B : c.x # DimExpr(dim, r))

LEMMA BarForIs ==
  ASSUME NEW level, NEW rows, NEW dim, Proper(level, rows, dim),
         NEW B, ShownOf(B, level, rows, dim), NEW r \in rows
  PROVE  /\ BarFor(B, dim, r) \in B
         /\ \A b \in B : BarFor(B, dim, r) = b
              <=> IF b.x = Other THEN \A c \in B : c.x # Other => c.x # DimExpr(dim, r)
                  ELSE b.x = DimExpr(dim, r)
<1> DEFINE x == DimExpr(dim, r)
           named == {b \in B : b.x # Other}
           rest == Bar(Other, <<>>, OtherAt(RowsPast(rows, dim, named)))
           fits(b) == b.x = x \/ (b.x = Other /\ \A c \in B : c.x # x)
<1>1. \A b \in level : b.x # Other
  BY DEF Proper, Distinct
<1>2. \A b \in level, c \in level : b.x = c.x => b = c
  BY DEF Proper, Distinct
<1>3. PICK a \in level : a.x = x
  BY DEF Proper, ValuesIn
<1>4. rest.x = Other
  BY BarFields
<1>5. B = level \/ (named \subseteq level /\ B \ named = {rest})
  BY DEF ShownOf
<1> HIDE DEF rest, x
<1>6. named \subseteq level
  BY <1>1, <1>5
<1>7. \A b \in B, c \in B : b.x = c.x => b = c
  BY <1>1, <1>2, <1>4, <1>5, <1>6
<1>8. x # Other
  BY <1>1, <1>3
<1>9. \E b \in B : fits(b)
  <2>1. CASE \E b \in B : b.x = x
    BY <2>1
  <2>2. CASE \A b \in B : b.x # x
    <3>1. B # level
      BY <1>3, <2>2
    <3> QED BY <1>4, <1>5, <2>2, <3>1
  <2> QED BY <2>1, <2>2
<1>10. \A b \in B, c \in B : fits(b) /\ fits(c) => b = c
  BY <1>7
<1>11. BarFor(B, dim, r) = CHOOSE b \in B : fits(b)
  BY DEF BarFor, x
<1> DEFINE bar == BarFor(B, dim, r)
<1>12. bar \in B /\ fits(bar)
  BY <1>9, <1>11
<1> HIDE DEF bar
<1>13. \A b \in B : bar = b <=> fits(b)
  BY <1>10, <1>12
<1>14. \A b \in B : fits(b) <=> IF b.x = Other THEN \A c \in B : c.x # Other => c.x # x
                                ELSE b.x = x
  BY <1>8
<1> HIDE DEF fits
<1> QED BY <1>12, <1>13, <1>14 DEF bar, x

LEMMA OtherType ==
  ASSUME table \in Tables, NEW rows \in SUBSET table, rows # {}, AggOf(Resolved) # "avg"
  PROVE  OtherAt(rows) \in Nat \cup {Null}
<1>1. SoundTable(rows)
  BY SoundPart, TablesAssumption DEF SoundTable
<1>2. CASE isClauseChart(Resolved)
  <2> DEFINE cells == Cells(Resolved, Keys, <<>>, rows)
  <2>1. Counting(cells)
    BY <1>1, <1>2, CountedIs DEF isClauseChart, SoundTable
  <2>2. cells # {}
    BY CellsAll
  <2> HIDE DEF cells
  <2>3. clauseMeasureParts(Resolved, cells) \in Nat
    BY <2>1, <2>2, ClausePartsType
  <2> QED BY <1>2, <2>3 DEF OtherAt, cells
<1>3. CASE ~isClauseChart(Resolved)
  BY <1>1, <1>3, MeasureType DEF OtherAt
<1> QED BY <1>2, <1>3

\* The values of the dimensions of a group are those of its rows.
LEMMA UnsplitBars ==
  ASSUME NEW rows, NEW h, NEW i \in 1..Len(Keys), Keys \in Seq(STRING), NEW B,
         \A r \in rows : h[r] = BarFor(B, Keys[i], r)
  PROVE  Unsplit(rows, h)
<1> SUFFICES ASSUME NEW r \in rows, NEW q \in rows,
                    CellKey(Keys, <<>>, q) = CellKey(Keys, <<>>, r)
             PROVE  h[q] = h[r]
  BY DEF Unsplit
<1>1. Values(Keys, q) = Values(Keys, r)
  BY DEF CellKey
<1>2. i \in DOMAIN Keys
  OBVIOUS
<1>3. DimExpr(Keys[i], q) = DimExpr(Keys[i], r)
  BY <1>1, <1>2 DEF Values
<1>4. BarFor(B, Keys[i], q) = BarFor(B, Keys[i], r)
  BY <1>3 DEF BarFor
<1> QED BY <1>4

\* What is shown of a level adds up to what its rows are worth.
LEMMA ShownWorth ==
  ASSUME table \in Tables, AggOf(Resolved) # "avg", Keys \in Seq(STRING), NEW i \in 1..Len(Keys),
         NEW rows \in SUBSET table, rows # {},
         NEW level, Proper(level, rows, Keys[i]), NEW B, ShownOf(B, level, rows, Keys[i]),
         \A b \in B : b.x = Other => \E r \in rows : \A c \in B : c.x # Other => c.x # DimExpr(Keys[i], r)
  PROVE  Total(B, AggOf(Resolved)) = OtherAt(rows)
<1> DEFINE dim == Keys[i]
           named == {b \in B : b.x # Other}
           past == RowsPast(rows, dim, named)
           rest == Bar(Other, <<>>, OtherAt(past))
           h == [r \in rows |-> BarFor(B, dim, r)]
<1>1. B = level \/ (named \subseteq level /\ B \ named = {rest})
  BY DEF ShownOf
<1>2. /\ IsFiniteSet(level)
      /\ \A b \in level : IsBar(b) /\ b.y \in Nat \cup {Null} /\ b.x # Other
  BY DEF Proper, Distinct
<1>3. named \subseteq level
  BY <1>1, <1>2
<1>4. rest.x = Other /\ rest.y = OtherAt(past) /\ IsBar(rest)
  BY BarFields
<1> HIDE DEF rest
<1>5. ASSUME NEW b \in B, b.x = Other
      PROVE  b = rest /\ past # {}
  <2>1. b = rest
    BY <1>1, <1>2, <1>5
  <2> QED BY <1>5, <2>1 DEF RowsPast
<1>6. AreBars(B)
  <2>1. IsFiniteSet(B)
    <3>1. B \subseteq level \cup {rest}
      BY <1>1
    <3>2. IsFiniteSet(level \cup {rest})
      BY <1>2, FS_AddElement
    <3> QED BY <3>1, <3>2, FS_Subset
  <2>2. ASSUME NEW b \in B PROVE IsBar(b) /\ b.y \in Nat \cup {Null}
    <3>1. CASE b.x = Other
      <4>1. past \in SUBSET table
        BY DEF RowsPast
      <4> HIDE DEF past
      <4>2. OtherAt(past) \in Nat \cup {Null}
        BY <1>5, <3>1, <4>1, OtherType
      <4> QED BY <1>4, <1>5, <3>1, <4>2
    <3>2. CASE b.x # Other
      BY <1>2, <1>3, <3>2
    <3> QED BY <3>1, <3>2
  <2> QED BY <2>1, <2>2 DEF AreBars
<1>7. \A r \in rows : h[r] \in B
  BY BarForIs
<1>8. ASSUME NEW b \in B PROVE b.y = OtherAt(Part(rows, h, b))
  <2>1. CASE b.x = Other
    <3>1. Part(rows, h, b) = past
      BY <2>1, BarForIs DEF Part, RowsPast
    <3> QED BY <1>4, <1>5, <2>1, <3>1
  <2>2. CASE b.x # Other
    <3>1. Part(rows, h, b) = AtValue(rows, dim, b.x)
      BY <2>2, BarForIs DEF Part, AtValue
    <3>2. b \in level
      BY <1>3, <2>2
    <3> QED BY <3>1, <3>2 DEF Proper
  <2> QED BY <2>1, <2>2
<1>9. Unsplit(rows, h)
  <2>1. \A r \in rows : h[r] = BarFor(B, Keys[i], r)
    OBVIOUS
  <2> HIDE DEF h
  <2> QED BY <2>1, UnsplitBars
<1>10. SoundTable(rows)
  BY SoundPart, TablesAssumption DEF SoundTable
<1> HIDE DEF h
<1>11. Parted(B, rows, h)
  BY <1>6, <1>7 DEF Parted, AreBars
<1> QED BY <1>6, <1>8, <1>9, <1>10, <1>11, WorthOfParts

(***************************************************************************)
(* A click breaks a bar down (BarsPartition).                              *)
(***************************************************************************)
\* A chart that can be drilled into, as the designer writes it, has dimensions
\* that exist; all of these but a comparison keep a breakdown.
Drillable ==
  /\ Posed /\ table \in Tables /\ Designed(chart) /\ chart.type # "table" /\ Len(Keys) > 1
  /\ validateSpec(Resolved) /\ ~Where(Resolved, <<>>).bad

LEMMA DrilledHas ==
  ASSUME Drillable
  PROVE  /\ Keys \in Seq(STRING) /\ \A i \in 1..Len(Keys) : Keys[i] \in DOMAIN Dimensions
         /\ chart.mode = "clause" => isClauseChart(Resolved)
         /\ chart.mode # "clause" => needsDimension(chart.type)
         /\ chart.mode # "compare" => breakdownFor(Resolved)
<1> DEFINE n == Len(Keys)
<1>1. /\ Keys \in Seq(STRING) /\ drillSequence(Resolved) = Keys /\ Same(Resolved, chart)
      /\ n \in Nat /\ DOMAIN Keys = 1..n
  BY KeysAre, ResolvedSame DEF Drillable
<1>2. chart.mode = "clause" => isClauseChart(Resolved)
  <2> SUFFICES ASSUME chart.mode = "clause", ~isClauseChart(Resolved) PROVE FALSE
    OBVIOUS
  <2>1. Keys = groupByKeys(chart) /\ chart.groupBy = <<>>
    BY <1>1, KeysAre DEF Same, isClauseChart, Drillable
  <2>2. Keys = <<>> \/ Keys = <<chart.series>>
    BY <2>1 DEF groupByKeys
  <2>3. Len(Keys) = 0 \/ Len(Keys) = 1
    BY <2>2
  <2>4. n > 1 /\ (n = 0 \/ n = 1)
    BY <2>3 DEF Drillable
  <2> HIDE DEF n
  <2> QED BY <2>4
<1>3. chart.mode # "clause" => chart.drilldown # <<>>
  <2> SUFFICES ASSUME chart.mode # "clause", chart.drilldown = <<>> PROVE FALSE
    OBVIOUS
  <2>1. 2 \in 1..Len(Keys)
    <3> HIDE DEF n
    <3>1. n > 1 /\ n \in Nat
      BY <1>1 DEF n, Drillable
    <3> QED BY <3>1 DEF n
  <2>2. \E j \in 1..Len(chart.drilldown) : Keys[2] = chart.drilldown[j]
    BY <2>1, DrilledKept DEF Drillable
  <2>3. Len(chart.drilldown) = 0
    OBVIOUS
  <2> QED BY <2>2, <2>3
<1>4. chart.mode # "clause" => needsDimension(chart.type)
  BY <1>3 DEF Drillable, Designed
<1>5. \A i \in 1..n : Keys[i] \in DOMAIN Dimensions
  BY <1>4, KeysKnown DEF Drillable
<1>6. chart.mode # "compare" => breakdownFor(Resolved)
  <2>1. Dims(Keys) /\ Keys # <<>>
    BY <1>1, <1>5 DEF Dims, ToSet, Drillable
  <2> QED BY <1>1, <1>2, <1>3, <2>1 DEF breakdownFor, Drillable, Same
<1> QED BY <1>1, <1>2, <1>4, <1>5, <1>6

LEMMA ProperStored ==
  ASSUME NEW path, Askable(path), path = <<>> => breakdownSeries(Resolved) = <<>>
  PROVE  Proper(LevelHere(path), Down(Base, path), DimAt(path))
<1> DEFINE level == LevelHere(path)
           dim == DimAt(path)
           down == Down(Base, path)
           series == breakdownSeries(Resolved)
           spec == Resolved
           of(x) == ValueIn(down, dim, {x})
           bar(x) == FoldedBar(spec, Cells(spec, Keys, series, of(x)), x)
<1>1. OnKeys(Keys, path) /\ Keeping(spec)
  BY KeptAt
<1>2. Distinct(level)
  BY StoredIsLive
<1> HIDE DEF series, spec
<1>3. level = FoldedBars(spec, Keys, series, down, dim)
  <2>1. MatviewLevel(spec, Cells(spec, Keys, series, Base), path, FALSE)
          = FoldedBars(spec, Keys, series, Down(Base, path), Keys[Len(path) + 1])
    BY ONLY <1>1, MatviewFolded
  <2> QED BY <2>1 DEF LevelHere, CellsHere, DimAt, spec, series
<1> HIDE DEF level, dim
<1>4. SoundTable(down)
  <2>1. SoundTable(table)
    BY TablesAssumption DEF SoundTable, Askable
  <2>2. down \subseteq table
    BY DEF Down, Base, Selected
  <2> HIDE DEF down
  <2> QED BY <2>1, <2>2, SoundPart
<1> HIDE DEF down
<1>5. level = {bar(x) : x \in ValuesIn(down, dim)}
  BY <1>3 DEF FoldedBars
<1>6. ASSUME NEW x PROVE bar(x).x = x
  BY DEF FoldedBar, Bar
<1>7. ASSUME NEW x \in ValuesIn(down, dim) PROVE bar(x).y = OtherAt(AtValue(down, dim, x))
  <2> DEFINE rows == of(x)
             cells == Cells(spec, Keys, series, rows)
  <2>1. rows = AtValue(down, dim, x) /\ rows # {} /\ rows \subseteq down
    BY DEF ValueIn, AtValue, ValuesIn
  <2> HIDE DEF rows
  <2>2. bar(x).y = Reagg(spec, cells)
    BY BarFields DEF FoldedBar, rows
  <2>3. CASE isClauseChart(spec)
    <3>1. series = <<>>
      BY <2>3 DEF series, spec, breakdownSeries
    <3> QED BY <2>1, <2>2, <2>3, <3>1 DEF Reagg, OtherAt, spec
  <2>4. CASE ~isClauseChart(spec)
    <3>1. spec.mode # "clause"
      BY <1>1, <2>4 DEF Keeping
    <3>2. SoundTable(rows)
      BY <1>4, <2>1, SoundPart
    <3>3. Reagg(spec, cells) = MeasureOf(measure(spec), rows)
      BY <2>1, <3>1, <3>2, CellsRollAll
    <3> QED BY <2>1, <2>2, <2>4, <3>3 DEF OtherAt, spec
  <2> QED BY <2>3, <2>4
<1> HIDE DEF bar
<1>8. {b.x : b \in level} = ValuesIn(down, dim)
  BY <1>5, <1>6
<1>9. \A b \in level : b.y = OtherAt(AtValue(down, dim, b.x))
  BY <1>5, <1>6, <1>7
<1> QED BY <1>2, <1>8, <1>9 DEF Proper, level, down, dim

LEMMA ProperNamed ==
  ASSUME table \in Tables, ~isClauseChart(Resolved), NEW rows \in SUBSET table,
         NEW dim \in DOMAIN Dimensions
  PROVE  Proper(NamedBars(Resolved, rows, dim), rows, dim)
<1> DEFINE level == NamedBars(Resolved, rows, dim)
           named(r) == Bar(DimExpr(dim, r), <<>>,
                           MeasureOf(measure(Resolved), AtValue(rows, dim, DimExpr(dim, r))))
           none == <<>>
<1>1. SoundTable(rows)
  BY SoundPart, TablesAssumption DEF SoundTable
<1>2. level = {named(r) : r \in rows}
  BY DEF NamedBars
<1>3. \A r : named(r).x = DimExpr(dim, r) /\ IsBar(named(r))
             /\ named(r).y = OtherAt(AtValue(rows, dim, DimExpr(dim, r)))
  <2>1. \A s : OtherAt(s) = MeasureOf(measure(Resolved), s)
    BY DEF OtherAt
  <2> QED BY <2>1, BarFields
<1>4. \A r \in rows : named(r).y \in Nat \cup {Null}
  <2> SUFFICES ASSUME NEW r \in rows PROVE named(r).y \in Nat \cup {Null}
    OBVIOUS
  <2> DEFINE s == AtValue(rows, dim, DimExpr(dim, r))
  <2>1. SoundTable(s)
    BY <1>1, SoundPart DEF AtValue
  <2> HIDE DEF s
  <2>2. MeasureOf(measure(Resolved), s) \in Nat \cup {Null}
    BY <2>1, MeasureType
  <2> QED BY <2>2, BarFields DEF s
<1>5. level = GroupedBars(Resolved, rows, dim, none)
  BY GroupedNamed
<1> HIDE DEF level, named, none
<1>6. IsFiniteSet(level)
  BY <1>1, <1>5, GroupedAre
<1>7. \A b \in level, c \in level : b.x = c.x => b = c
  BY <1>1, <1>5, GroupedDistinct DEF none
<1>8. \A b \in level : b.x \in Int /\ b.x # Other
  <2>1. \A r \in rows : DimExpr(dim, r) \in Nat \cup {Null, NoneText}
    BY <1>1, DimExprType
  <2>2. \A r \in rows : DimExpr(dim, r) \in Names
    BY <2>1 DEF Names
  <2> QED BY <1>2, <1>3, <2>2, NamesAre
<1>9. Distinct(level)
  BY <1>2, <1>3, <1>4, <1>6, <1>7, <1>8 DEF Distinct
<1>10. {b.x : b \in level} = ValuesIn(rows, dim)
  BY <1>2, <1>3 DEF ValuesIn
<1>11. \A b \in level : b.y = OtherAt(AtValue(rows, dim, b.x))
  BY <1>2, <1>3
<1> QED BY <1>9, <1>10, <1>11 DEF Proper, level

\* A level of a comparison below the first is answered from the table.
LEMMA LiveNamed ==
  ASSUME Drillable, chart.mode = "compare", NEW path, GoodPath(path), path # <<>>
  PROVE  /\ buildDrill(Resolved, table, path) = LevelAt(path)
         /\ Len(path) + 1 \in 1..Len(Keys)
<1> DEFINE w == Where(Resolved, path)
           at == Len(path) + 1
           dim == Keys[at]
           rows == Selected(table, w)
<1>1. drillSequence(Resolved) = Keys /\ Resolved.mode = chart.mode /\ Posed /\ table \in Tables
  BY KeysAre, ResolvedSame DEF Same, Drillable
<1>2. at \in 1..Len(Keys) /\ ~(Len(path) >= Len(Keys)) /\ OnKeys(Keys, path)
  BY <1>1, PathLeft
<1>3. path \in Seq(DrillStep) /\ DOMAIN path = 1..Len(path)
      /\ \A i \in 1..Len(path) : path[i].value # Null /\ path[i].dimension = Keys[i]
                                 /\ i \in 1..Len(Keys)
  BY <1>2 DEF OnKeys
<1>4. ~w.bad /\ rows = Down(Base, path)
  BY <1>1, <1>3, DrilledHas, DownSelects DEF Drillable
<1>5. OnPath(Resolved, path)
  BY <1>1, <1>2, <1>3 DEF OnPath, OnKeys
<1>6. buildDrill(Resolved, table, path) = Aggregated(Resolved, rows, dim, TRUE)
  <2>1. buildDrill(Resolved, table, path) = buildAggregationCore(Resolved, table, path, dim, TRUE)
    BY <1>1, <1>2, <1>5 DEF buildDrill
  <2> QED BY <1>4, <2>1 DEF buildAggregationCore, Answered, Drillable
<1>7. dim # None
  BY <1>1, <1>2, DrilledKept
<1>8. ~Alone(Resolved, dim) /\ ~RollsUp(Resolved) /\ DimOf(Resolved, dim) = dim
      /\ seriesKeys(Resolved, TRUE) = <<>>
  BY <1>1, <1>7 DEF Alone, RollsUp, DimOf, seriesKeys
<1> HIDE DEF rows, dim
<1>9. Aggregated(Resolved, rows, dim, TRUE) = GroupedBars(Resolved, rows, dim, <<>>)
  BY <1>8, AggregatedIs
<1>10. GroupedBars(Resolved, rows, dim, <<>>) = NamedBars(Resolved, rows, dim)
  BY GroupedNamed
<1> QED BY <1>2, <1>4, <1>6, <1>9, <1>10 DEF LevelAt, dim

\* What stands behind "Other" when it is shown.
OtherBacked(B, rows, dim) ==
  \A b \in B : b.x = Other => \E r \in rows : \A c \in B : c.x # Other => c.x # DimExpr(dim, r)
Shows(B, level, rows, dim) ==
  Proper(level, rows, dim) /\ ShownOf(B, level, rows, dim) /\ OtherBacked(B, rows, dim)

LEMMA ShowsAll ==
  ASSUME NEW level, NEW rows, NEW dim, Proper(level, rows, dim)
  PROVE  Shows(level, level, rows, dim)
BY DEF Shows, ShownOf, OtherBacked, Proper, Distinct

\* The first level of a chart whose bars are split into series.
InSeries(path) == path = <<>> /\ seriesKeys(Resolved, FALSE) # <<>>

LEMMA ReadShows ==
  ASSUME Drillable, NEW path, GoodPath(path), ~InSeries(path),
         NEW built, NEW answer \in ReadLevel(path, built)
  PROVE  \E level : Shows(answer, level, Down(Base, path), DimAt(path))
<1> DEFINE down == Down(Base, path)
           dim == DimAt(path)
<1>1. Same(Resolved, chart) /\ Posed /\ table \in Tables
  BY ResolvedSame DEF Drillable
<1>2. validateSpec(Resolved) /\ ~Where(Resolved, <<>>).bad
  BY DEF Drillable
<1>3. CASE ~breakdownFor(Resolved)
  <2>1. chart.mode = "compare" /\ ~isClauseChart(Resolved)
    BY <1>1, <1>3, DrilledHas DEF Same, isClauseChart
  <2>2. path # <<>>
    <3> SUFFICES ASSUME path = <<>> PROVE FALSE
      OBVIOUS
    <3>1. seriesKeys(Resolved, FALSE) = <<Resolved.compareField>>
      BY <1>1, <2>1 DEF seriesKeys, Same
    <3>2. <<Resolved.compareField>> # <<>>
      OBVIOUS
    <3> QED BY <3>1, <3>2 DEF InSeries
  <2>3. answer = buildDrill(Resolved, table, path)
    BY <1>2, <1>3, <2>2 DEF ReadLevel
  <2>4. answer = LevelAt(path) /\ dim \in DOMAIN Dimensions
    BY <2>1, <2>2, <2>3, LiveNamed, DrilledHas DEF DimAt
  <2>5. down \in SUBSET table
    BY DEF Down, Base, Selected
  <2> HIDE DEF down, dim
  <2>6. Proper(NamedBars(Resolved, down, dim), down, dim)
    BY <1>1, <2>1, <2>4, <2>5, ProperNamed
  <2>7. answer = NamedBars(Resolved, down, dim)
    BY <2>4 DEF LevelAt, down, dim, DimAt
  <2> QED BY <2>6, <2>7, ShowsAll DEF down, dim
<1>4. CASE breakdownFor(Resolved)
  <2>1. Askable(path)
    BY <1>4 DEF Askable, Drillable
  <2>2. path = <<>> => breakdownSeries(Resolved) = <<>>
    <3> SUFFICES ASSUME path = <<>> PROVE breakdownSeries(Resolved) = <<>>
      OBVIOUS
    <3>1. seriesKeys(Resolved, FALSE) = <<>>
      BY DEF InSeries
    <3>2. CASE isClauseChart(Resolved)
      BY <3>2 DEF breakdownSeries
    <3>3. CASE ~isClauseChart(Resolved)
      <4>1. Resolved.mode # "clause"
        BY <3>3, <1>1, DrilledHas DEF Same
      <4>2. Resolved.mode # "compare"
        BY <1>4, <3>3 DEF breakdownFor
      <4> QED BY <3>1, <3>3, <4>1, <4>2 DEF seriesKeys, breakdownSeries
    <3> QED BY <3>2, <3>3
  <2> DEFINE level == LevelHere(path)
  <2>3. Proper(level, down, dim) /\ level = LiveAt(path)
    BY <2>1, <2>2, ProperStored, StoredIsLive
  <2>4. CASE ~built
    <3>1. answer = LiveAt(path)
      BY <1>2, <2>4 DEF ReadLevel, LiveAt
    <3> HIDE DEF level, down, dim
    <3> QED BY <2>3, <3>1, ShowsAll DEF down, dim
  <2>5. CASE built
    <3> DEFINE top == Top(level)
               rest == Bar(Other, <<>>, Reagg(Resolved, TailCells(CellsHere, path, level)))
    <3>1. buildBreakdownMatview(Resolved, table) = CellsHere
      BY <1>1, KeysAre DEF buildBreakdownMatview, Base, CellsHere
    <3>2. (path = <<>> /\ breakdownSeries(Resolved) # <<>>) = FALSE
      BY <2>2
    <3>3. answer \in aggregateChartMatview(Resolved, buildBreakdownMatview(Resolved, table), path,
                                           path = <<>> /\ breakdownSeries(Resolved) # <<>>)
      BY <1>2, <1>4, <2>5 DEF ReadLevel
    <3>4. answer \in aggregateChartMatview(Resolved, CellsHere, path, FALSE)
      BY <3>1, <3>2, <3>3
    <3>5. answer \in IF Cardinality(level) =< ChartTopGroups THEN {level} ELSE {top \cup {rest}}
      <4> HIDE DEF rest, top
      <4>1. aggregateChartMatview(Resolved, CellsHere, path, FALSE) =
              IF Cardinality(level) =< ChartTopGroups THEN {level}
              ELSE IF FALSE THEN Foremost(level, ChartTopGroups + 1)
              ELSE {Top(level) \cup {Bar(Other, <<>>, Reagg(Resolved, TailCells(CellsHere, path, level)))}}
        BY MatviewAnswers DEF LevelHere
      <4> HIDE DEF level
      <4> QED BY <3>4, <4>1 DEF rest, top
    <3> HIDE DEF level, rest
    <3>6. CASE answer = level
      <4> HIDE DEF down, dim
      <4> QED BY <2>3, <3>6, ShowsAll DEF down, dim
    <3>7. CASE answer # level
      <4>1. ~(Cardinality(level) <= ChartTopGroups) /\ answer = top \cup {rest}
        BY <3>5, <3>7
      <4>2. Distinct(level)
        BY <2>3 DEF Proper
      <4>3. top \subseteq level /\ level \ top # {}
        BY <4>1, <4>2, TopLeaves
      <4>4. rest.x = Other
        BY BarFields DEF rest
      <4>5. (\A b \in level : b.x # Other) /\ \A b \in level, c \in level : b.x = c.x => b = c
        BY <4>2 DEF Distinct
      <4>6. Reagg(Resolved, TailCells(CellsHere, path, level)) = OtherAt(RowsPast(down, dim, top))
        BY <2>1, <2>2, <4>3, OtherIs DEF level
      <4> HIDE DEF top, down, dim
      <4>7. {b \in answer : b.x # Other} = top /\ answer \ top = {rest}
        BY <4>1, <4>3, <4>4, <4>5
      <4>8. rest = Bar(Other, <<>>, OtherAt(RowsPast(down, dim, top)))
        BY <4>6 DEF rest
      <4>9. ShownOf(answer, level, down, dim)
        BY <4>3, <4>7, <4>8 DEF ShownOf
      <4>10. OtherBacked(answer, down, dim)
        <5>1. PICK a \in level : a \notin top
          BY <4>3
        <5>2. PICK r \in down : DimExpr(dim, r) = a.x
          BY <2>3, <5>1 DEF Proper, ValuesIn
        <5>3. \A c \in answer : c.x # Other => c \in top
          BY <4>7
        <5>4. \A c \in answer : c.x # Other => c.x # DimExpr(dim, r)
          BY <4>3, <4>5, <5>1, <5>2, <5>3
        <5> QED BY <5>4 DEF OtherBacked
      <4>11. Shows(answer, level, down, dim)
        BY <2>3, <4>9, <4>10 DEF Shows
      <4> QED BY <4>11 DEF down, dim
    <3> QED BY <3>6, <3>7
  <2> QED BY <2>4, <2>5
<1> QED BY <1>3, <1>4

\* A bar that is broken down is one of a chart that can be drilled into.
LEMMA BarDrills ==
  ASSUME Walked, Designed(chart), Len(Keys) > 1, NEW b \in Bars
  PROVE  Drillable /\ \E built \in BOOLEAN : bars \in ReadLevel(steps, built)
<1>1. bars # Refused /\ chart.type # "table"
  BY WalkedBars
<1>2. PICK built \in BOOLEAN : bars \in ReadLevel(steps, built)
  BY <1>1 DEF Walked
<1>3. validateSpec(Resolved) /\ ~Where(Resolved, <<>>).bad
  BY <1>1, <1>2 DEF ReadLevel
<1> QED BY <1>1, <1>2, <1>3 DEF Walked, Drillable

\* The bars of a chart that is split, by the rows they stand for.
LEMMA SeriesAre ==
  ASSUME Drillable, InSeries(steps), Split => bars = buildAggregation(Resolved, table),
         NEW built, bars \in ReadLevel(steps, built)
  PROVE  /\ ~isClauseChart(Resolved)
         /\ bars = SeriesBars(Resolved, Base, DimAt(steps), seriesKeys(Resolved, FALSE))
<1> DEFINE spec == Resolved
           series == seriesKeys(Resolved, FALSE)
           w == Where(Resolved, <<>>)
<1>1. Same(spec, chart) /\ Posed /\ steps = <<>> /\ series # <<>>
      /\ validateSpec(spec) /\ ~w.bad /\ chart.type # "table" /\ Len(Keys) > 1
  BY ResolvedSame DEF Drillable, InSeries
<1>2. spec.mode # "clause" /\ ~isClauseChart(spec) /\ chart.mode = spec.mode
  BY <1>1 DEF seriesKeys, isClauseChart, Same
<1>3. needsDimension(spec.type)
  BY <1>1, <1>2, DrilledHas DEF Same
<1>4. bars = buildAggregation(Resolved, table)
  <2>1. CASE Split
    BY <2>1
  <2>2. CASE ~Split
    <3>1. breakdownSeries(spec) = <<>>
      BY <1>1, <2>2 DEF Split
    <3>2. groupByKeys(spec) = <<>>
      BY <1>2, <3>1 DEF breakdownSeries
    <3>3. spec.mode = "compare"
      BY <1>1, <1>2, <3>2 DEF seriesKeys
    <3>4. ~breakdownFor(spec)
      BY <1>2, <3>3 DEF breakdownFor
    <3> HIDE DEF spec, series, w
    <3> QED BY <1>1, <3>4 DEF ReadLevel, spec, w
  <2> QED BY <2>1, <2>2
<1>5. bars = Aggregated(spec, Base, None, FALSE)
  BY <1>1, <1>4 DEF buildAggregation, buildAggregationCore, Answered, Base
<1>6. DimAt(steps) = spec.dimension
  <2>1. Len(steps) + 1 = 1
    BY <1>1
  <2>2. DimAt(steps) = Keys[1]
    BY <2>1 DEF DimAt
  <2>3. spec.dimension \in DOMAIN Dimensions
    <3> DEFINE d == spec.dimension
               one == <<d>>
               two == <<d, spec.compareField>>
    <3>1. one[1] \in ToSet(one) /\ two[1] \in ToSet(two)
      BY DEF ToSet
    <3>2. Dims(one) \/ Dims(two)
      BY <1>1, <1>2, <1>3 DEF validateSpec, Same
    <3>3. one[1] = d /\ two[1] = d
      OBVIOUS
    <3> HIDE DEF d, one, two
    <3> QED BY <3>1, <3>2, <3>3 DEF Dims, d
  <2>4. chart.dimension = spec.dimension /\ chart.dimension # None
    BY <1>1, <2>3, CatalogAssumption DEF Same
  <2>5. Len(Keys) > 0
    <3> DEFINE n == Len(Keys)
    <3>1. n \in Nat /\ n > 1
      BY <1>1, KeysAre
    <3> HIDE DEF n
    <3>2. n > 0
      BY <3>1
    <3> QED BY <3>2 DEF n
  <2> QED BY <1>1, <1>2, <2>2, <2>4, <2>5, FirstKey
<1>7. ~Alone(spec, None) /\ ~RollsUp(spec) /\ DimOf(spec, None) = DimAt(steps)
  BY <1>2, <1>3, <1>6 DEF Alone, RollsUp, DimOf
<1> HIDE DEF spec
<1>8. Aggregated(spec, Base, None, FALSE)
        = GroupedBars(spec, Base, DimAt(steps), seriesKeys(spec, FALSE))
  BY <1>7, AggregatedIs
<1> QED BY <1>2, <1>5, <1>8, GroupedSeries DEF spec

\* The bars at a value of the first level of a split chart add up to what its
\* rows are worth.
LEMMA SeriesWorth ==
  ASSUME table \in Tables, ~isClauseChart(Resolved), AggOf(Resolved) # "avg",
         NEW rows \in SUBSET table, NEW dim, NEW series, Labelled(series, rows),
         NEW x, AtValue(rows, dim, x) # {}
  PROVE  Total({c \in SeriesBars(Resolved, rows, dim, series) : c.x = x}, AggOf(Resolved))
           = OtherAt(AtValue(rows, dim, x))
<1> DEFINE at == AtValue(rows, dim, x)
           bar(r) == SeriesBar(Resolved, rows, dim, series, r)
           B == {c \in SeriesBars(Resolved, rows, dim, series) : c.x = x}
           h == [r \in at |-> bar(r)]
<1>1. \A r : /\ bar(r).x = DimExpr(dim, r) /\ bar(r).s = Label(series, r) /\ IsBar(bar(r))
             /\ bar(r).y = MeasureOf(measure(Resolved), OfSeries(rows, dim, series, r))
  BY BarFields DEF SeriesBar
<1>2. /\ at \in SUBSET table /\ at \subseteq rows
      /\ \A r : r \in at <=> r \in rows /\ DimExpr(dim, r) = x
  BY DEF AtValue
<1>3. \A c : c \in B <=> \E r \in at : c = bar(r)
  BY <1>1, <1>2 DEF SeriesBars
<1>4. ASSUME NEW r \in at
      PROVE  OfSeries(rows, dim, series, r) = {q \in at : Values(series, q) = Values(series, r)}
  BY <1>2 DEF OfSeries
<1>5. ASSUME NEW r \in at
      PROVE  bar(r).y \in Nat \cup {Null}
  <2>1. OfSeries(rows, dim, series, r) \in SUBSET table
    BY DEF OfSeries
  <2>2. SoundTable(OfSeries(rows, dim, series, r))
    BY <2>1, SoundPart, TablesAssumption DEF SoundTable
  <2>3. OfSeries(rows, dim, series, r) # {}
    BY <1>2 DEF OfSeries
  <2> QED BY <1>1, <2>2, MeasureType
<1>6. ASSUME NEW r \in at, NEW q \in at
      PROVE  bar(q) = bar(r) <=> Values(series, q) = Values(series, r)
  <2>1. ASSUME bar(q) = bar(r) PROVE Values(series, q) = Values(series, r)
    <3>1. Label(series, q) = Label(series, r)
      BY <1>1, <2>1
    <3> QED BY <1>2, <3>1 DEF Labelled
  <2>2. ASSUME Values(series, q) = Values(series, r) PROVE bar(q) = bar(r)
    <3>1. OfSeries(rows, dim, series, q) = OfSeries(rows, dim, series, r)
      BY <1>4, <2>2
    <3>2. DimExpr(dim, q) = DimExpr(dim, r) /\ Label(series, q) = Label(series, r)
      BY <1>2, <2>2 DEF Label
    <3> QED BY <3>1, <3>2 DEF SeriesBar
  <2> QED BY <2>1, <2>2
<1>7. IsFiniteSet(at)
  BY <1>2, TablesAssumption, FS_Subset
<1> HIDE DEF at, bar
<1>8. IsFiniteSet(B)
  <2> DEFINE f == [r \in at |-> bar(r)]
  <2>1. B = {f[r] : r \in at}
    BY <1>3
  <2>2. DOMAIN f = at
    OBVIOUS
  <2> HIDE DEF B, f
  <2> QED BY <1>7, <2>1, <2>2, ImageFinite
<1> HIDE DEF B
<1>9. AreBars(B)
  BY <1>1, <1>3, <1>5, <1>8 DEF AreBars
<1>10. Parted(B, at, h)
  BY <1>2, <1>3, <1>8 DEF Parted, at
<1>11. ASSUME NEW b \in B PROVE b.y = OtherAt(Part(at, h, b))
  <2>1. PICK r \in at : b = bar(r)
    BY <1>3
  <2>2. Part(at, h, b) = OfSeries(rows, dim, series, r)
    BY <1>4, <1>6, <2>1 DEF Part
  <2> QED BY <1>1, <2>1, <2>2 DEF OtherAt
<1>12. Unsplit(at, h)
  BY DEF Unsplit
<1>13. SoundTable(at)
  BY <1>2, SoundPart, TablesAssumption DEF SoundTable
<1> HIDE DEF h
<1>14. Total(B, AggOf(Resolved)) = OtherAt(at)
  BY <1>9, <1>10, <1>11, <1>12, <1>13, WorthOfParts
<1> QED BY <1>14 DEF B, at

\* A bar, over its series, is what the rows at its value are worth.
LEMMA BarWorth ==
  ASSUME Walked, Drillable, Labelled(seriesKeys(chart, FALSE), table), AggOf(Resolved) # "avg",
         Split => bars = buildAggregation(Resolved, table),
         NEW b \in Bars, b.x # Other
  PROVE  LET at == AtValue(Down(Base, steps), DimAt(steps), b.x)
         IN /\ at # {} /\ Total({c \in Bars : c.x = b.x}, AggOf(Resolved)) = OtherAt(at)
<1> DEFINE down == Down(Base, steps)
           dim == DimAt(steps)
           x == b.x
           at == AtValue(down, dim, x)
           B == {c \in Bars : c.x = x}
<1>1. bars # Refused /\ Bars = bars
  BY WalkedBars DEF Bars
<1>2. PICK built \in BOOLEAN : bars \in ReadLevel(steps, built)
  BY <1>1 DEF Walked
<1>3. /\ GoodPath(steps) /\ Keys \in Seq(STRING) /\ table \in Tables
      /\ down \in SUBSET table /\ at \in SUBSET table /\ Base \in SUBSET table
  BY DrilledHas DEF Walked, AtValue, Down, Base, Selected
<1>4. CASE InSeries(steps)
  <2> DEFINE series == seriesKeys(Resolved, FALSE)
  <2>1. ~isClauseChart(Resolved) /\ bars = SeriesBars(Resolved, Base, dim, series)
    BY <1>2, <1>4, SeriesAre
  <2>2. down = Base
    <3>1. Len(steps) = 0
      BY <1>4 DEF InSeries
    <3> QED BY <3>1 DEF Down
  <2>3. Labelled(series, Base)
    <3>1. series = seriesKeys(chart, FALSE)
      BY ResolvedSame DEF Same, seriesKeys, groupByKeys, Drillable
    <3> HIDE DEF series
    <3> QED BY <1>3, <3>1 DEF Labelled
  <2> HIDE DEF series
  <2>4. at # {}
    <3>1. PICK r \in Base : b = SeriesBar(Resolved, Base, dim, series, r)
      BY <1>1, <2>1 DEF SeriesBars
    <3>2. DimExpr(dim, r) = x
      BY <3>1, BarFields DEF SeriesBar
    <3> HIDE DEF down, dim, x
    <3> QED BY <2>2, <3>2 DEF AtValue
  <2>5. AtValue(Base, dim, x) # {}
    BY <2>2, <2>4
  <2> HIDE DEF down, dim, x
  <2>6. Total({c \in SeriesBars(Resolved, Base, dim, series) : c.x = x}, AggOf(Resolved))
          = OtherAt(AtValue(Base, dim, x))
    BY <1>3, <2>1, <2>3, <2>5, SeriesWorth
  <2> QED BY <1>1, <2>1, <2>2, <2>4, <2>6 DEF down, dim, x
<1>5. CASE ~InSeries(steps)
  <2>1. PICK level : Shows(bars, level, down, dim)
    BY <1>2, <1>3, <1>5, ReadShows
  <2> DEFINE i == Len(steps) + 1
  <2>2. i \in 1..Len(Keys) /\ dim = Keys[i]
    <3>1. CASE steps # <<>>
      BY <1>3, <3>1, PathLeft DEF DimAt, Drillable
    <3>2. CASE steps = <<>>
      <4> DEFINE n == Len(Keys)
      <4>1. n \in Nat /\ n > 1 /\ i = 1
        BY <1>3, <3>2 DEF Drillable
      <4> HIDE DEF n
      <4>2. i \in 1..n
        BY <4>1
      <4> QED BY <4>2 DEF n, DimAt
    <3> QED BY <3>1, <3>2
  <2>3. b \in level
    BY <1>1, <2>1 DEF Shows, ShownOf
  <2>4. Distinct(level) /\ b.y = OtherAt(at) /\ at # {}
    BY <2>1, <2>3 DEF Shows, Proper, ValuesIn, AtValue
  <2> DEFINE one == {b}
  <2>5. B = one
    <3>1. ASSUME NEW c \in bars, c.x = x PROVE c \in level
      BY <2>1, <3>1 DEF Shows, ShownOf
    <3> QED BY <1>1, <2>3, <2>4, <3>1 DEF Distinct
  <2>6. Proper(one, at, dim)
    <3>1. Distinct(one)
      <4>1. IsFiniteSet(one)
        BY FS_Singleton
      <4> QED BY <2>3, <2>4, <4>1 DEF Distinct
    <3>2. {c.x : c \in one} = ValuesIn(at, dim)
      BY <2>4 DEF ValuesIn, AtValue
    <3>3. AtValue(at, dim, x) = at
      BY DEF AtValue
    <3> QED BY <2>4, <3>1, <3>2, <3>3 DEF Proper
  <2>7. Shows(one, one, at, dim)
    BY <2>6, ShowsAll
  <2> HIDE DEF one, at, i, dim
  <2>8. Total(one, AggOf(Resolved)) = OtherAt(at)
    <3>1. Proper(one, at, Keys[i]) /\ ShownOf(one, one, at, Keys[i])
          /\ \A c \in one : c.x = Other => \E r \in at : \A d \in one : d.x # Other => d.x # DimExpr(Keys[i], r)
      BY <2>2, <2>7 DEF Shows, OtherBacked
    <3> QED BY ONLY <1>3, <2>2, <2>4, <3>1, AggOf(Resolved) # "avg", ShownWorth
  <2> QED BY <2>4, <2>5, <2>8 DEF at, dim
<1> QED BY <1>4, <1>5

\* The level below a bar is that of the rows at its value.
LEMMA BelowWorth ==
  ASSUME Drillable, AggOf(Resolved) # "avg",
         NEW path, GoodPath(path), path # <<>>, Down(Base, path) # {},
         NEW built, NEW answer \in ReadLevel(path, built)
  PROVE  Total(answer, AggOf(Resolved)) = OtherAt(Down(Base, path))
<1> DEFINE down == Down(Base, path)
           i == Len(path) + 1
<1>1. PICK level : Shows(answer, level, down, DimAt(path))
  BY ReadShows DEF InSeries
<1>2. i \in 1..Len(Keys) /\ Keys \in Seq(STRING) /\ DimAt(path) = Keys[i]
  BY PathLeft, DrilledHas DEF DimAt, Drillable
<1>3. down \in SUBSET table /\ table \in Tables
  BY DEF Down, Base, Selected, Drillable
<1> HIDE DEF down, i
<1>4. Proper(level, down, Keys[i]) /\ ShownOf(answer, level, down, Keys[i])
      /\ \A c \in answer : c.x = Other =>
           \E r \in down : \A d \in answer : d.x # Other => d.x # DimExpr(Keys[i], r)
  BY <1>1, <1>2 DEF Shows, OtherBacked
<1>5. down # {}
  BY DEF down
<1>6. Total(answer, AggOf(Resolved)) = OtherAt(down)
  BY ONLY <1>2, <1>3, <1>4, <1>5, AggOf(Resolved) # "avg", ShownWorth
<1> QED BY <1>6 DEF down

\* Steps are added by a click alone.
LEMMA ClickedOnly ==
  ASSUME Walked, [Next]_vars, Len(steps') > Len(steps)
  PROVE  \E a \in Bars, built \in BOOLEAN : onSectionClick(a, built)
<1>1. steps \in Seq(DrillStep) /\ Len(steps) \in Nat
  BY DEF Walked, GoodPath
<1>2. ASSUME steps' = steps PROVE FALSE
  BY <1>1, <1>2
<1>3. ASSUME NEW level \in 0..(Len(steps) - 1), NEW built \in BOOLEAN, jumpTo(level, built)
      PROVE  FALSE
  <2>1. steps' = SubSeq(steps, 1, level)
    BY <1>3 DEF jumpTo
  <2> DEFINE D == DrillStep
  <2>2. steps \in Seq(D)
    BY <1>1
  <2> HIDE DEF D
  <2>3. Len(SubSeq(steps, 1, level)) = level
    BY <1>1, <2>2
  <2> QED BY <1>1, <2>1, <2>3
<1>4. ASSUME NEW built \in BOOLEAN, Open(built) PROVE steps' = steps
  BY <1>4 DEF Open
<1>5. ASSUME NEW b \in Bars, ShowRecords(b) PROVE steps' = steps
  BY <1>5 DEF ShowRecords
<1>6. previewQuery \/ previewDrill \/ UNCHANGED vars => steps' = steps
  BY DEF previewQuery, previewDrill, vars
<1> QED BY <1>2, <1>3, <1>4, <1>5, <1>6 DEF Next

LEMMA BarsAre ==
  ASSUME Walked, Designed(chart), Labelled(seriesKeys(chart, FALSE), table), [Next]_vars,
         NEW b \in Bars, Split => bars = buildAggregation(Resolved, table),
         Len(steps') > Len(steps), steps' = Append(steps, StepOf(b)),
         b.x \notin {Null, Other}, AggOf(Resolved) # "avg"
  PROVE  Total(bars', AggOf(Resolved)) = Total({c \in Bars : c.x = b.x}, AggOf(Resolved))
<1> DEFINE e == StepOf(b)
           new == Append(steps, e)
           n == Len(Keys)
           k == Len(steps)
<1>1. PICK a \in Bars, built \in BOOLEAN : onSectionClick(a, built)
  BY ClickedOnly
<1>2. records = Refused /\ n > 1 /\ k < n - 1 /\ bars' \in ReadLevel(new, built)
  BY <1>1 DEF onSectionClick, Clickable, Keys
<1>3. GoodPath(new)
  BY <1>2, ClickSteps DEF Clickable, Keys
<1>4. Drillable
  BY <1>2, BarDrills
<1>5. k < n
  <2>1. k \in Nat /\ n \in Nat
    BY <1>4, DrilledHas DEF Walked, GoodPath
  <2> HIDE DEF k, n
  <2> QED BY <1>2, <2>1
<1>6. /\ e.dimension = DimAt(steps) /\ e.value = b.x
      /\ new \in Seq(DrillStep) /\ Longer(new, steps, e)
  BY <1>5, StepAdded DEF DimAt
<1>7. Down(Base, new) = AtValue(Down(Base, steps), DimAt(steps), b.x)
  <2> HIDE DEF e, new
  <2> QED BY <1>6, BarIsDown DEF Walked, GoodPath
<1>8. /\ AtValue(Down(Base, steps), DimAt(steps), b.x) # {}
      /\ Total({c \in Bars : c.x = b.x}, AggOf(Resolved))
           = OtherAt(AtValue(Down(Base, steps), DimAt(steps), b.x))
  BY <1>4, BarWorth
<1>9. new # <<>>
  <2>1. k \in Nat /\ Len(new) = k + 1
    BY <1>6 DEF Longer, Walked, GoodPath
  <2>2. Len(<<>>) = 0
    OBVIOUS
  <2> HIDE DEF new, k
  <2> QED BY <2>1, <2>2
<1> HIDE DEF new, e
<1>10. Total(bars', AggOf(Resolved)) = OtherAt(Down(Base, new))
  BY <1>2, <1>3, <1>4, <1>7, <1>8, <1>9, BelowWorth
<1> QED BY <1>7, <1>8, <1>10

\* Clicking a bar breaks it down, in every table, of a chart as the designer
\* writes it whose series can be told apart by their labels: whatever answers
\* the two levels, the bars of the next one add up to the bar that was clicked,
\* or have its minimum or maximum (onSectionClick, buildDrill).
THEOREM BarsBreakDown ==
  ASSUME \A q \in Questions : Designed(q.chart),
         \A q \in Questions : \A rows \in Tables : Labelled(seriesKeys(q.chart, FALSE), rows)
  PROVE  Spec => BarsPartition
<1>1. Init => Walked
  BY WalkedFirst
<1>2. Walked /\ [Next]_vars => Walked'
  BY WalkedNext
<1>3. Walked => Designed(chart) /\ Labelled(seriesKeys(chart, FALSE), table)
  BY DEF Walked, Posed
<1>4. Walked /\ [Next]_vars =>
        [\A b \in Bars :
           (/\ Split => bars = buildAggregation(Resolved, table)
            /\ Len(steps') > Len(steps) /\ steps' = Append(steps, StepOf(b))
            /\ b.x \notin {Null, Other} /\ AggOf(Resolved) # "avg")
           => Total(bars', AggOf(Resolved)) = Total({c \in Bars : c.x = b.x}, AggOf(Resolved))]_vars
  BY <1>3, BarsAre
<1> QED BY <1>1, <1>2, <1>4, PTL DEF Spec, BarsPartition
=============================================================================
