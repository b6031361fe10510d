---------------------------- MODULE DatasetAdmin ----------------------------
(***************************************************************************)
(* Administration of datasets: creating, editing, filling from a file and  *)
(* removing them, their field mapping, their views and the charts on them, *)
(* and the catalogue the process keeps of each.  backend/src/datasets      *)
(* (datasets.service.ts, catalog.service.ts, dataset.entity.ts),           *)
(* mapping/mapping.service.ts, and the views of reports.service.ts.        *)
(*                                                                         *)
(* An operation is a sequence of statements, each committed by itself:     *)
(* another administrator, a sync or a reader may come between two of them, *)
(* and one that fails ends the operation where it stands.                  *)
(***************************************************************************)
EXTENDS Integers, SequencesExt, FiniteSetsExt

CONSTANTS Keys,           \* dataset keys
          Protected,      \* those built in: their columns are not altered
          Admins, Charts,
          NormalizeKey,   \* normalizeKey: a label's name, a sequence
          Creates, Updates, Files, Mappings, Names,   \* what administrators submit
          BatchSize,      \* rows per INSERT of an import, 500 in the code
          BuiltIn,        \* the fields of the built-in dataset
          Existing,       \* creations that may be done at first
          Watched,        \* bound: the datasets whose pipe runs and catalogue is read
          Charted,        \* bound: the columns charts are made from
          MaxOps,         \* bound on the operations begun
          MaxFailures     \* bound on the statements that fail by themselves

ASSUME SubmittedAssumption ==
  /\ \A c \in Creates \cup Existing \cup Updates : Len(c.fields) \in Nat
  /\ \A u \in Updates : \A i, j \in DOMAIN u.fields :
       u.fields[i].key = u.fields[j].key /\ i # j => u.fields[i].key = <<>>
  /\ \A f \in Files : Len(f.rows) \in Nat /\ DOMAIN f.rows = 1..Len(f.rows)
  /\ \A m \in Mappings : IsFiniteSet(DOMAIN m.set)
ASSUME ConstantsAssumption == BatchSize \in Nat \ {0} /\ IsFiniteSet(DOMAIN BuiltIn)

VARIABLES db,        \* the database, see AtFirst
          ops,       \* admin -> the operation under way
          syncing,   \* datasets with a run under way
          catalog,   \* CatalogService.cache: dataset -> [fields, late]
          reader,    \* the reading of a catalogue under way
          begun, failed,   \* bounded counters
          hist       \* history: what past operations left behind

vars == <<db, ops, syncing, catalog, reader, begun, failed, hist>>

Null == 0
Ignored == <<>>
Overlap == [overlap |-> TRUE]
Idle == [kind |-> "idle"]
Put(f, key, value) == [k \in DOMAIN f \cup {key} |-> IF k = key THEN value ELSE f[k]]
Without(f, S) == [k \in DOMAIN f \ S |-> f[k]]

(***************************************************************************)
(* Column names.  A name is a sequence; a suffix is appended to it.        *)
(***************************************************************************)
Reserved == {<<"record_id">>, <<"synced_at">>}

\* The name that was submitted, or that of the label.
nameOf(f) == IF f.key = <<>> THEN NormalizeKey[f.label] ELSE f.key

\* There is one built-in dataset; what is created in its place is none.
IsName(name) == Len(name) \in Nat /\ name = [i \in 1..Len(name) |-> name[i]]
ASSUME NamesAssumption ==
  /\ \A c \in Creates \cup Existing \cup Updates :
       /\ DOMAIN c.fields = 1..Len(c.fields)
       /\ \A i \in DOMAIN c.fields : IsName(nameOf(c.fields[i]))
  /\ <<>> \notin DOMAIN BuiltIn /\ Overlap \notin Updates
  /\ \A c \in Creates \cup Existing : c.key \in Keys \ Protected
  /\ Protected \subseteq Keys
  /\ \A j, k \in Protected : j = k

resolveColumnKey(name, i, taken) ==
  LET base == IF name = <<>> THEN <<"field", i>> ELSE name
      used == taken \cup Reserved
      free == {n \in 2..(Cardinality(used) + 2) : Append(base, n) \notin used}
  IN IF base \notin used THEN base ELSE Append(base, Min(free))

KeysOf(fields) == {fields[i].key : i \in DOMAIN fields}

\* The fields an edit asks for: one that exists keeps its name, a new one is
\* named apart from those that exist and those before it.
desiredFields(submitted, existing) ==
  LET first[n \in 0..Len(submitted)] ==
        IF n = 0 THEN <<>>
        ELSE LET f == submitted[n]
                 done == first[n - 1]
                 key == IF f.key \in DOMAIN existing THEN f.key
                        ELSE resolveColumnKey(nameOf(f), n, DOMAIN existing \cup KeysOf(done))
             IN Append(done, [key |-> key, label |-> f.label, type |-> f.type])
  IN first[Len(submitted)]

resolveFields(submitted) == desiredFields(submitted, <<>>)

(***************************************************************************)
(* A file: a cell is 0 when blank, positive when it is a number, negative  *)
(* when it is another text.                                                *)
(***************************************************************************)
numeric(type) == type \in {"integer", "number"}
convert(v, type) == IF numeric(type) /\ v < 0 THEN Null ELSE v

\* Mutant: the first row of an id is kept.
FirstWins(file, fields) ==
  LET id(i) == IF file.keyed /\ file.rows[i].id # Null THEN file.rows[i].id ELSE i
      usable == {i \in DOMAIN file.rows : id(i) > 0}
  IN [n \in {id(i) : i \in usable} |->
        LET row == file.rows[Min({i \in usable : id(i) = n})]
        IN [c \in DOMAIN fields |-> convert(row[fields[c].label], fields[c].type)]]

\* byId: each row under the number in its id column, or its place in the file
\* when there is none; the last row of an id is kept, text for an id is skipped.
rowsById(file, fields) ==
  LET id(i) == IF file.keyed /\ file.rows[i].id # Null THEN file.rows[i].id ELSE i
      usable == {i \in DOMAIN file.rows : id(i) > 0}
  IN [n \in {id(i) : i \in usable} |->
        LET row == file.rows[Max({i \in usable : id(i) = n})]
        IN [c \in DOMAIN fields |-> convert(row[fields[c].label], fields[c].type)]]

importPlan(file, fields) ==
  LET byId == rowsById(file, fields)
      ids == SetToSeq(DOMAIN byId)
      batches == (Len(ids) + BatchSize - 1) \div BatchSize
  IN [b \in 1..batches |->
        [do |-> "upsert", key |-> file.key,
         rows |-> LET in == {ids[i] : i \in ((b - 1) * BatchSize + 1)..Min({b * BatchSize, Len(ids)})}
                  IN [n \in in |-> byId[n]]]]

(***************************************************************************)
(* The statements of each operation.                                       *)
(***************************************************************************)
Each(fields, Op(_)) == FlattenSeq([i \in DOMAIN fields |-> Op(fields[i])])
AddField(k, id, f) ==
  [do |-> "add field", key |-> k, id |-> id, col |-> f.key, label |-> f.label, type |-> f.type]
SeedMapping(k, f) == [do |-> "seed mapping", key |-> k, label |-> f.label, col |-> f.key]
RegisterKey(k) == <<k, "register">>

createPlan(c) ==
  LET fields == resolveFields(c.fields)
  IN <<[do |-> "create table", key |-> c.key,
        columns |-> [col \in KeysOf(fields) |->
                       (CHOOSE f \in ToSet(fields) : f.key = col).type]],
       [do |-> "register", key |-> c.key, source |-> c.source, keyColumn |-> c.keyColumn,
        fields |-> fields]>>
     \o Each(fields, LAMBDA f : <<SeedMapping(c.key, f)>>)
     \o <<[do |-> "add view", key |-> c.key, view |-> RegisterKey(c.key)]>>

\* Mutant: the column goes and its field stays.
KeepsField(k, col, id) ==
  <<[do |-> "drop column", key |-> k, col |-> col],
    [do |-> "unmap column", key |-> k, col |-> col]>>

dropField(k, col, id) ==
  <<[do |-> "drop column", key |-> k, col |-> col],
    [do |-> "delete field", key |-> k, col |-> col, id |-> id],
    [do |-> "unmap column", key |-> k, col |-> col]>>

\* The fields of the dataset as they were read; id is the dataset's.
updatePlan(u, id, fields) ==
  LET existing == Without(fields, Reserved)
      desired == desiredFields(u.fields, existing)
      structural(todo) == IF u.key \in Protected THEN <<[do |-> "refuse", key |-> u.key]>> ELSE todo
      keep(f) ==
        IF f.key \notin DOMAIN existing
        THEN structural(<<[AddField(u.key, id, f) EXCEPT !.do = "add column"],
                          AddField(u.key, id, f), SeedMapping(u.key, f)>>)
        ELSE (IF existing[f.key].type = f.type THEN <<>>
              ELSE structural(<<[AddField(u.key, id, f) EXCEPT !.do = "alter column"]>>))
             \o <<[AddField(u.key, existing[f.key].id, f) EXCEPT !.do = "set field"]>>
      drop(col) == structural(dropField(u.key, col, existing[col].id))
  IN Each(desired, keep) \o Each(SetToSeq(DOMAIN existing \ KeysOf(desired)), drop)

\* Mutant: the rows of the pipe stay.
LeavesState(k, id) ==
  [i \in 1..6 |->
     [do |-> << "find matviews", "find views", "drop table", "unmap", "delete views",
                "unregister" >>[i], key |-> k, id |-> id]]

removePlan(k, id) ==
  [i \in 1..7 |->
     [do |-> << "find matviews", "find views", "drop table", "unmap", "delete views",
                "delete pipe", "unregister" >>[i], key |-> k, id |-> id]]

viewsOf(d, k) == {v \in DOMAIN d.views : d.views[v].of = k}

\* Mutant: the charts on every view.
OnAnyView(d, places) ==
  {c \in DOMAIN d.charts : d.charts[c].on \in places \/ d.charts[c].on[1] = "view"}

chartsOn(d, places) == {c \in DOMAIN d.charts : d.charts[c].on \in places}

\* The dataset itself and its views.
placesOf(d, k) == {<<"dataset", k>>} \cup {<<"view", v>> : v \in viewsOf(d, k)}

\* Their matviews go one by one, then the charts.
deleteCharts(k, cs) ==
  Each(SetToSeq(cs), LAMBDA c : <<[do |-> "drop matview", key |-> k, chart |-> c]>>)
  \o (IF cs = {} THEN <<>> ELSE <<[do |-> "delete charts", key |-> k, charts |-> cs]>>)

(***************************************************************************)
(* What a statement needs to succeed, what it does, and what the statements *)
(* that read find for the operation to do next.                            *)
(***************************************************************************)
columnsOf(d, k) == IF k \in DOMAIN d.tables THEN d.tables[k].columns ELSE <<>>
fieldsOf(d, k) == IF k \in DOMAIN d.registry THEN d.registry[k].fields ELSE <<>>
rowsOf(d, k) == IF k \in DOMAIN d.tables THEN d.tables[k].rows ELSE <<>>
dependents(d, k) == {c \in DOMAIN d.matviews : d.matviews[c].key = k}
inMatview(d, k, col) == \E c \in dependents(d, k) : d.matviews[c].col = col

\* The row that was read is still there.  A row is told from an earlier one of the
\* same name by its id: how many deletions came before it.
IsDataset(d, s) == s.key \in DOMAIN d.registry /\ d.registry[s.key].id = s.id
IsField(d, s) == s.col \in DOMAIN fieldsOf(d, s.key) /\ fieldsOf(d, s.key)[s.col].id = s.id

\* dataset.key_column is NOT NULL; PostgreSQL alters and drops no table or
\* column that a materialized view uses, and casts no text to a number.
Works(d, s) ==
  CASE s.do = "refuse" -> FALSE
    [] s.do = "create table" -> s.key \notin DOMAIN d.tables
    [] s.do = "register" -> s.key \notin DOMAIN d.registry /\ s.keyColumn
    [] s.do = "add field" -> IsDataset(d, s) /\ s.col \notin DOMAIN fieldsOf(d, s.key)
    [] s.do = "add column" -> s.key \in DOMAIN d.tables
    [] s.do = "alter column" ->
         /\ s.col \in DOMAIN columnsOf(d, s.key) /\ ~inMatview(d, s.key, s.col)
         /\ numeric(s.type) => \A n \in DOMAIN rowsOf(d, s.key) : rowsOf(d, s.key)[n][s.col] >= 0
    [] s.do = "drop column" -> s.key \in DOMAIN d.tables /\ ~inMatview(d, s.key, s.col)
    [] s.do = "drop table" -> dependents(d, s.key) = {}
    [] s.do = "add view" -> s.view = RegisterKey(s.key) \/ s.view \notin DOMAIN d.views
    [] s.do = "upsert" ->
         /\ s.key \in DOMAIN d.tables
         /\ \A n \in DOMAIN s.rows : DOMAIN s.rows[n] \subseteq DOMAIN columnsOf(d, s.key)
    [] OTHER -> TRUE

WithColumns(t, columns) ==
  [columns |-> columns,
   rows |-> [n \in DOMAIN t.rows |-> [c \in DOMAIN columns |->
               IF c \in DOMAIN t.columns THEN t.rows[n][c] ELSE Null]]]
Upserted(t, new) ==
  [t EXCEPT !.rows =
     [n \in DOMAIN @ \cup DOMAIN new |->
        [c \in DOMAIN t.columns |->
           IF n \in DOMAIN new /\ c \in DOMAIN new[n] THEN new[n][c]
           ELSE IF n \in DOMAIN @ THEN @[n][c] ELSE Null]]]

\* The statements on a table, on the registry, and on what hangs on a dataset.
EffectOnTable(d, s) ==
  LET t == d.tables[s.key]
      set(new) == [d EXCEPT !.tables[s.key] = new]
  IN CASE s.do = "create table" ->
            [d EXCEPT !.tables = Put(@, s.key, [columns |-> s.columns, rows |-> <<>>])]
       [] s.do = "add column" ->
            IF s.col \in DOMAIN t.columns THEN d
            ELSE set(WithColumns(t, Put(t.columns, s.col, s.type)))
       [] s.do = "alter column" -> set(WithColumns(t, Put(t.columns, s.col, s.type)))
       [] s.do = "drop column" -> set(WithColumns(t, Without(t.columns, {s.col})))
       [] s.do = "upsert" -> set(Upserted(t, s.rows))
       [] s.do = "drop table" -> [d EXCEPT !.tables = Without(@, {s.key})]

Deleting(d) == [d EXCEPT !.deleted = @ + 1]

EffectOnRegistry(d, s) ==
  LET set(fields) == [d EXCEPT !.registry[s.key].fields = fields]
      field(id) == [label |-> s.label, type |-> s.type, id |-> id]
  IN CASE s.do = "register" ->
            [d EXCEPT !.registry =
               Put(@, s.key, [id |-> d.deleted, source |-> s.source, fields |-> <<>>])]
       [] s.do = "settings" ->
            IF IsDataset(d, s) THEN [d EXCEPT !.registry[s.key].source = s.source] ELSE d
       [] s.do = "add field" -> set(Put(fieldsOf(d, s.key), s.col, field(d.deleted)))
       [] s.do = "set field" ->
            IF IsField(d, s) THEN set(Put(fieldsOf(d, s.key), s.col, field(s.id))) ELSE d
       [] s.do = "delete field" ->
            IF IsField(d, s)
            THEN Deleting(set(Without(fieldsOf(d, s.key), {s.col}))) ELSE d
       [] s.do = "unregister" ->
            IF IsDataset(d, s)
            THEN Deleting([d EXCEPT !.registry = Without(@, {s.key})]) ELSE d

EffectOnMapping(d, s) ==
  LET m == d.mapping[s.key]
      set(new) == [d EXCEPT !.mapping[s.key] = new]
  IN CASE s.do = "seed mapping" ->
            IF s.label \in DOMAIN m THEN d
            ELSE set(Put(m, s.label, [col |-> s.col, id |-> d.deleted]))
       [] s.do = "set mapping" ->
            IF s.label \in DOMAIN m /\ m[s.label].id = s.id
            THEN set(Put(m, s.label, [col |-> s.col, id |-> s.id])) ELSE d
       [] s.do = "unmap column" ->
            LET of == {l \in DOMAIN m : m[l].col = s.col}
            IN IF of = {} THEN d ELSE Deleting(set(Without(m, of)))
       [] s.do = "unmap" -> IF m = <<>> THEN d ELSE Deleting(set(<<>>))

EffectOnViews(d, s) ==
  CASE s.do = "add view" ->
         IF s.view \in DOMAIN d.views THEN d
         ELSE [d EXCEPT !.views = Put(@, s.view, [of |-> s.key, id |-> d.deleted])]
    [] s.do = "delete view" ->
         IF s.view \in DOMAIN d.views /\ d.views[s.view].id = s.id
         THEN Deleting([d EXCEPT !.views = Without(@, {s.view})]) ELSE d
    [] s.do = "delete views" -> IF viewsOf(d, s.key) = {} THEN d
                                ELSE Deleting([d EXCEPT !.views = Without(@, viewsOf(d, s.key))])

TableStatements ==
  {"create table", "add column", "alter column", "drop column", "upsert", "drop table"}
RegistryStatements ==
  {"register", "settings", "add field", "set field", "delete field", "unregister"}
MappingStatements == {"seed mapping", "set mapping", "unmap column", "unmap"}
ViewStatements == {"add view", "delete view", "delete views"}

Effect(d, s) ==
  CASE s.do \in TableStatements ->
         IF s.do = "drop table" /\ s.key \notin DOMAIN d.tables THEN d ELSE EffectOnTable(d, s)
    [] s.do \in RegistryStatements -> EffectOnRegistry(d, s)
    [] s.do \in MappingStatements -> EffectOnMapping(d, s)
    [] s.do \in ViewStatements -> EffectOnViews(d, s)
    [] s.do = "drop matview" -> [d EXCEPT !.matviews = Without(@, {s.chart})]
    [] s.do = "delete charts" -> [d EXCEPT !.charts = Without(@, s.charts)]
    [] s.do = "delete pipe" -> [d EXCEPT !.pipes = @ \ {s.key}]
    [] OTHER -> d

Found(d, s) ==
  CASE s.do = "register" -> Each(s.fields, LAMBDA f : <<AddField(s.key, d.deleted, f)>>)
    [] s.do = "read fields" ->
         updatePlan(s.request, s.id, IF IsDataset(d, s) THEN fieldsOf(d, s.key) ELSE <<>>)
    [] s.do = "find matviews" ->
         Each(SetToSeq(dependents(d, s.key)),
              LAMBDA c : <<[do |-> "drop matview", key |-> s.key, chart |-> c]>>)
    [] s.do = "find views" ->
         <<[do |-> "find charts", key |-> s.key,
            places |-> placesOf(d, s.key)]>>
    [] s.do = "find charts" -> deleteCharts(s.key, chartsOn(d, s.places))
    [] OTHER -> <<>>

(***************************************************************************)
(* Beginning an operation: what it checks before its first statement.      *)
(***************************************************************************)
Shared(k) == \E a \in Admins : ops[a] # Idle /\ ops[a].key = k
\* The operations on a dataset that another one, or a run of its pipe, joins.
Joined(k, o, by) == [a \in Admins |-> IF o[a] # Idle /\ o[a].key = k
                                       THEN [o[a] EXCEPT ![by] = TRUE] ELSE o[a]]

Begin(a, kind, k, request, todo) ==
  /\ begun' = begun + 1
  /\ ops' = [Joined(k, ops, "shared") EXCEPT
               ![a] = [kind |-> kind, key |-> k, request |-> request, todo |-> todo,
                       shared |-> Shared(k), synced |-> k \in syncing]]
  /\ UNCHANGED <<db, syncing, catalog, reader, failed, hist>>

\* A key or a table that exists is refused; a live dataset needs a key column.
create(a, c) ==
  /\ c.key \notin DOMAIN db.registry /\ c.key \notin DOMAIN db.tables
  /\ c.source => c.keyColumn
  /\ Begin(a, "create", c.key, c, createPlan(c))

update(a, u) ==
  LET id == db.registry[u.key].id
  IN /\ u.key \in DOMAIN db.registry
     /\ Begin(a, "update", u.key, u,
              <<[do |-> "settings", key |-> u.key, id |-> id, source |-> u.source],
                [do |-> "read fields", key |-> u.key, id |-> id, request |-> u]>>)

\* A field named record_id is refused, as the built-in dataset has one.
importRows(a, f) ==
  LET fields == fieldsOf(db, f.key)
  IN /\ f.key \in DOMAIN db.registry /\ fields # <<>> /\ DOMAIN fields \cap Reserved = {}
     /\ \A c \in DOMAIN fields : \A i \in DOMAIN f.rows : fields[c].label \in DOMAIN f.rows[i]
     /\ Begin(a, "import", f.key, [file |-> f, fields |-> fields], importPlan(f, fields))

\* The charts on the dataset and its views are remembered for CleanRemoval.
remove(a, k) ==
  /\ k \in DOMAIN db.registry
  /\ Begin(a, "remove", k, chartsOn(db, placesOf(db, k)), removePlan(k, db.registry[k].id))

\* The name of a view gets a number when it is taken.
createView(a, k, name) ==
  LET free == {n \in 1..(Cardinality(DOMAIN db.views) + 1) : <<name, n>> \notin DOMAIN db.views}
      v == IF <<name>> \in DOMAIN db.views THEN <<name, Min(free)>> ELSE <<name>>
  IN /\ k \in DOMAIN db.registry
     /\ Begin(a, "view", k, Null, <<[do |-> "add view", key |-> k, view |-> v]>>)

\* The row is deleted by its id, the charts are found by the view's key.
deleteView(a, v) ==
  LET k == db.views[v].of
  IN /\ v \in DOMAIN db.views
     /\ Begin(a, "unview", k, Null,
              <<[do |-> "find charts", key |-> k, places |-> {<<"view", v>>}],
                [do |-> "delete view", key |-> k, view |-> v, id |-> db.views[v].id]>>)

(***************************************************************************)
(* Field mapping.  Its columns are those of the built-in dataset's table,  *)
(* whichever dataset is mapped.                                            *)
(***************************************************************************)
targetColumns ==
  UNION {DOMAIN columnsOf(db, k) : k \in Protected} \ {<<"synced_at">>}
SetMapping(k, label, col) ==
  [do |-> "set mapping", key |-> k, label |-> label, id |-> db.mapping[k][label].id, col |-> col]

\* autoMap: each unmapped field whose name is that of a free column.
autoMapped(k) ==
  LET m == db.mapping[k]
      free == targetColumns \ {m[l].col : l \in DOMAIN m}
      named(l) == m[l].col = Ignored /\ NormalizeKey[l] \in free
      first(l) == \A o \in DOMAIN m : named(o) /\ NormalizeKey[o] = NormalizeKey[l] =>
                    l = CHOOSE x \in {y \in DOMAIN m : named(y) /\ NormalizeKey[y] = NormalizeKey[l]} : TRUE
  IN [label \in {l \in DOMAIN m : named(l) /\ first(l)} |-> NormalizeKey[label]]

MappingPlan(k, set) ==
  LET labels == SetToSeq(DOMAIN set)
  IN [i \in DOMAIN labels |-> SetMapping(k, labels[i], set[labels[i]])]

autoMap(a, k) ==
  /\ autoMapped(k) # <<>>
  /\ Begin(a, "mapping", k, Null, MappingPlan(k, autoMapped(k)))

\* save: known columns only, and none of them twice.
saveMapping(a, k, set) ==
  LET mapped == {l \in DOMAIN set : set[l] # Ignored}
  IN /\ DOMAIN set = DOMAIN db.mapping[k] /\ set # <<>>
     /\ \A l \in mapped : set[l] \in targetColumns
     /\ \A l, o \in mapped : set[l] = set[o] => l = o
     /\ Begin(a, "mapping", k, Null, MappingPlan(k, set))

(***************************************************************************)
(* One statement of an operation, and how the operation ends.              *)
(***************************************************************************)
clearing == {"create", "update", "remove"}

\* Mutant: an edit leaves the catalogue.
NeverInvalidate(k) == UNCHANGED <<catalog, reader>>

\* CatalogService.invalidate; a reading under way will store what it read before.
invalidate(k) ==
  /\ catalog' = Without(catalog, {k})
  /\ reader' = IF reader # Idle /\ reader.key = k THEN [reader EXCEPT !.late = TRUE] ELSE reader

\* History: the dataset whose fields and mapping a failed or shared operation
\* may have left half changed, until the edit that failed is repeated at once.
\* The new names of the edit do not depend on which of them are there already.
Apart(fields) ==
  LET base(i) == IF nameOf(fields[i]) = <<>> THEN <<"field", i>> ELSE nameOf(fields[i])
  IN \A i, j \in DOMAIN fields : i # j => ~IsPrefix(base(i), base(j))
shaping == {"create", "update", "remove", "mapping"}
\* The mapping may be off, until the dataset is removed.
Loosens(op, ended) ==
  /\ op.kind \in shaping
  /\ \/ op.shared
     \/ IF op.key \in Protected THEN ~ended /\ op.kind # "update"
        ELSE ~ended \/ op.kind = "mapping"
Left(op, ended) ==
  IF op.kind \notin shaping THEN hist.hurt[op.key]
  ELSE IF op.shared \/ (~ended /\ op.kind # "update") THEN hist.hurt[op.key] \cup {Overlap}
  ELSE IF ~ended THEN hist.hurt[op.key] \cup {op.request}
  ELSE IF \/ op.kind = "create"
          \/ /\ op.kind = "update" /\ hist.hurt[op.key] \subseteq {op.request}
             /\ hist.hurt[op.key] = {} \/ Apart(op.request.fields)
       THEN {}
  ELSE IF op.kind = "update" THEN hist.hurt[op.key] \cup {Overlap} ELSE hist.hurt[op.key]

Statement(a) ==
  LET op == ops[a]
      s == Head(op.todo)
  IN /\ op # Idle /\ op.todo # <<>> /\ Works(db, s)
     /\ db' = Effect(db, s)
     /\ hist' = [hist EXCEPT !.freed = @ \cup (DOMAIN db.views \ DOMAIN db'.views)]
     /\ ops' = [ops EXCEPT ![a].todo = Found(db, s) \o Tail(op.todo)]
     /\ UNCHANGED <<syncing, catalog, reader, begun, failed>>

Done(a) ==
  LET op == ops[a]
  IN /\ op # Idle /\ op.todo = <<>>
     /\ ops' = [ops EXCEPT ![a] = Idle]
     /\ IF op.kind \in clearing THEN invalidate(op.key) ELSE UNCHANGED <<catalog, reader>>
     /\ hist' = [hist EXCEPT !.hurt[op.key] = Left(op, TRUE),
                   !.stale = IF op.kind \in clearing THEN @ \ {op.key} ELSE @,
                   !.loose = IF Loosens(op, TRUE) THEN @ \cup {op.key}
                             ELSE IF op.kind = "remove" THEN @ \ {op.key} ELSE @]
     /\ UNCHANGED <<db, syncing, begun, failed>>

\* What was done stays, and the catalogue is not cleared.
Fails(a) ==
  LET op == ops[a]
  IN /\ op # Idle /\ op.todo # <<>>
     /\ IF Works(db, Head(op.todo)) THEN failed < MaxFailures /\ failed' = failed + 1
        ELSE UNCHANGED failed
     /\ ops' = [ops EXCEPT ![a] = Idle]
     /\ hist' = [hist EXCEPT !.hurt[op.key] = Left(op, FALSE),
                   !.loose = IF Loosens(op, FALSE) THEN @ \cup {op.key} ELSE @,
                   !.stale = IF op.kind \in clearing THEN @ \cup {op.key} ELSE @]
     /\ UNCHANGED <<db, syncing, catalog, reader, begun>>

(***************************************************************************)
(* Runs of the pipes, as far as they touch what is modelled here.          *)
(***************************************************************************)
\* Bound: those that begin while an operation on the dataset is under way.
StartSync(k) ==
  /\ Shared(k)
  /\ k \notin syncing /\ k \in DOMAIN db.registry /\ db.registry[k].source
  /\ \E l \in DOMAIN db.mapping[k] : db.mapping[k][l].col # Ignored
  /\ syncing' = syncing \cup {k}
  /\ db' = [db EXCEPT !.pipes = @ \cup {k}]
  /\ ops' = Joined(k, ops, "synced")
  /\ UNCHANGED <<catalog, reader, begun, failed, hist>>

\* The state is written again, whatever became of the dataset meanwhile.
EndSync(k) ==
  /\ k \in syncing
  /\ syncing' = syncing \ {k}
  /\ db' = [db EXCEPT !.pipes = @ \cup {k}]
  /\ invalidate(k)
  /\ hist' = [hist EXCEPT !.stale = @ \ {k}]
  /\ UNCHANGED <<ops, begun, failed>>

(***************************************************************************)
(* Charts, and the catalogue they are made from.                           *)
(***************************************************************************)
datasetOf(on) == IF on[1] = "dataset" THEN on[2]
                 ELSE IF on[2] \in DOMAIN db.views THEN db.views[on[2]].of ELSE "none"

forDataset(k) ==
  /\ reader = Idle /\ k \in DOMAIN db.registry /\ k \notin DOMAIN catalog
  /\ reader' = [kind |-> "reading", key |-> k, fields |-> db.registry[k].fields, late |-> FALSE]
  /\ UNCHANGED <<db, ops, syncing, catalog, begun, failed, hist>>

KeepCatalog ==
  /\ reader # Idle
  /\ catalog' = Put(catalog, reader.key, [fields |-> reader.fields, late |-> reader.late])
  /\ reader' = Idle
  /\ UNCHANGED <<db, ops, syncing, begun, failed, hist>>

AddChart(c, on) ==
  LET k == datasetOf(on)
  IN /\ c \notin hist.born   \* an id is never used again
     /\ on[1] = "view" => on[2] \in DOMAIN db.views
     /\ k \in DOMAIN catalog \cup DOMAIN db.registry
     /\ db' = [db EXCEPT !.charts = Put(@, c, [on |-> on])]
     /\ ops' = Joined(k, ops, "synced")
     /\ hist' = [hist EXCEPT !.born = @ \cup {c}]
     /\ UNCHANGED <<syncing, catalog, reader, begun, failed>>

\* The matview of a chart, built in the background.
BuildMatview(c, col) ==
  LET k == datasetOf(db.charts[c].on)
  IN /\ c \in DOMAIN db.charts /\ c \notin DOMAIN db.matviews
     /\ k \in DOMAIN db.tables /\ col \in DOMAIN columnsOf(db, k)
     /\ db' = [db EXCEPT !.matviews = Put(@, c, [key |-> k, col |-> col])]
     /\ UNCHANGED <<ops, syncing, catalog, reader, begun, failed, hist>>

\* An administrator who waits for no answer asks for something.
Request(a) ==
  /\ ops[a] = Idle /\ begun < MaxOps
  /\ \/ \E c \in Creates : create(a, c)
     \/ \E u \in Updates : update(a, u)
     \/ \E f \in Files : importRows(a, f)
     \/ \E k \in Keys : remove(a, k) \/ autoMap(a, k)
     \/ \E m \in Mappings : saveMapping(a, m.key, m.set)
     \/ \E k \in Keys, name \in Names : createView(a, k, name)
     \/ \E v \in DOMAIN db.views : deleteView(a, v)

Next ==
  \/ \E a \in Admins : Request(a) \/ Statement(a) \/ Done(a) \/ Fails(a)
  \/ \E k \in Watched : StartSync(k) \/ EndSync(k) \/ forDataset(k)
  \/ KeepCatalog
  \/ \E c \in Charts : \E on \in {<<"dataset", k>> : k \in DOMAIN db.registry}
                                 \cup {<<"view", v>> : v \in DOMAIN db.views} : AddChart(c, on)
  \/ \E c \in DOMAIN db.charts :
       \E col \in Charted : BuildMatview(c, col)

\* The built-in dataset is there from the start, and others may have been
\* created before.
AtFirst ==
  [tables |-> [k \in Protected |-> [columns |-> [c \in DOMAIN BuiltIn |-> BuiltIn[c].type],
                                    rows |-> <<>>]],
   registry |-> [k \in Protected |-> [id |-> 0, source |-> TRUE, fields |-> BuiltIn]],
   mapping |-> [k \in Keys |-> IF k \in Protected
                                THEN [l \in {BuiltIn[c].label : c \in DOMAIN BuiltIn \ Reserved}
                                        |-> [col |-> Ignored, id |-> 0]]
                                ELSE <<>>],
   views |-> <<>>, charts |-> <<>>, matviews |-> <<>>, pipes |-> {},
   deleted |-> 0]

\* The database after a dataset was created.
Created(c) ==
  LET plan == createPlan(c)
      todo == SubSeq(plan, 1, 2) \o Found(AtFirst, plan[2]) \o SubSeq(plan, 3, Len(plan))
      d[i \in 0..Len(todo)] == IF i = 0 THEN AtFirst ELSE Effect(d[i - 1], todo[i])
  IN d[Len(todo)]

Init ==
  /\ db \in {AtFirst} \cup {Created(c) : c \in Existing}
  /\ ops = [a \in Admins |-> Idle] /\ syncing = {} /\ catalog = <<>> /\ reader = Idle
  /\ begun = 0 /\ failed = 0
  /\ hist = [hurt |-> [k \in Keys |-> {}], stale |-> {}, loose |-> {}, born |-> {}, freed |-> {}]

Spec == Init /\ [][Next]_vars

(***************************************************************************)
(* Properties.                                                             *)
(***************************************************************************)
Changing(k) == \E a \in Admins : ops[a] # Idle /\ ops[a].key = k /\ ops[a].kind \in shaping

\* Whatever edits do and whichever of their statements fails, the registry says
\* what the table is: between operations the fields of a dataset are its columns
\* with their types, and an edit that failed is made good by repeating it before
\* any other edit, unless its labels give one name: the repeat numbers them anew,
\* and a column that was made for one becomes another's, with the wrong type.  No
\* two fields are mapped onto one column, and a field is mapped onto a column
\* there is, unless, since a removal had the dataset for itself, an operation
\* failed or met another one, or the mapping screen chose a column of the built-in
\* dataset for another one (update, resolveColumnKey, autoMap, save, remove).
FieldsMatchColumns ==
  \A k \in DOMAIN db.registry : ~Changing(k) /\ hist.hurt[k] = {} =>
    LET fields == db.registry[k].fields
        mapped == {l \in DOMAIN db.mapping[k] : db.mapping[k][l].col # Ignored}
    IN /\ columnsOf(db, k) = [c \in DOMAIN fields |-> fields[c].type]
       /\ k \notin hist.loose =>
            /\ \A l \in mapped : db.mapping[k][l].col \in DOMAIN fields
            /\ \A l, o \in mapped : db.mapping[k][l].col = db.mapping[k][o].col => l = o

\* Between operations a cached catalogue has the fields of the dataset, which
\* exists, unless it was read before an edit was done and stored after that, or
\* an edit failed (forDataset, invalidate).
CatalogCoherent ==
  \A k \in DOMAIN catalog : ~catalog[k].late /\ ~Changing(k) /\ k \notin hist.stale =>
    k \in DOMAIN db.registry /\ catalog[k].fields = db.registry[k].fields

Ended(a) == ops[a] # Idle /\ ops[a].todo = <<>> /\ ops'[a] = Idle
Alone(a) == ~ops[a].shared /\ ~ops[a].synced

\* A removal that succeeds, however many failed halfway before, leaves nothing of
\* the dataset: no table, field, mapping, view, chart, matview or pipe (remove).
Remains(d, k) ==
  \/ k \in DOMAIN d.tables \/ k \in DOMAIN d.registry \/ d.mapping[k] # <<>>
  \/ k \in d.pipes \/ dependents(d, k) # {} \/ viewsOf(d, k) # {}
CleanRemoval ==
  [][\A a \in Admins :
       Ended(a) /\ ops[a].kind = "remove" /\ Alone(a) =>
         ~Remains(db', ops[a].key) /\ ops[a].request \cap DOMAIN db'.charts = {}]_vars

\* An operation on one dataset changes nothing of another: not its table, fields
\* and mapping, not its views, and not the charts and matviews on it or on its
\* views, even when datasets and views are removed and made again meanwhile.
\* Except the charts of a view under a name that was another view's: those are
\* found by name (remove, deleteView).
placesKept(d, k) == placesOf(d, k) \ {<<"view", v>> : v \in hist.freed}
Of(d, k) ==
  <<k \in DOMAIN d.registry, fieldsOf(d, k), columnsOf(d, k), rowsOf(d, k), d.mapping[k],
    viewsOf(d, k), chartsOn(d, placesKept(d, k)),
    chartsOn(d, placesKept(d, k)) \cap DOMAIN d.matviews>>
OthersSpared ==
  [][\A a \in Admins : ops[a] # Idle /\ ops[a] # ops'[a] /\ db' # db /\ begun' = begun =>
       \A k \in Keys \ {ops[a].key} : Of(db', k) = Of(db, k)]_vars

\* An import that succeeds has stored, for each id of the file, the last row with
\* it, in whatever batches it was written and whatever of it an earlier attempt
\* had written (importRows).
ImportComplete ==
  [][\A a \in Admins : Ended(a) /\ ops[a].kind = "import" /\ Alone(a) =>
       LET f == ops[a].request.file
           fields == ops[a].request.fields
           id(i) == IF f.keyed /\ f.rows[i].id # Null THEN f.rows[i].id ELSE i
           stored == rowsOf(db, f.key)
       IN \A i \in DOMAIN f.rows :
            id(i) > 0 /\ (\A j \in DOMAIN f.rows : j > i => id(j) # id(i)) =>
              /\ id(i) \in DOMAIN stored
              /\ \A c \in DOMAIN fields :
                   stored[id(i)][c] = convert(f.rows[i][fields[c].label], fields[c].type)]_vars

=============================================================================
