----------------------- MODULE DatasetAdminInductive -----------------------
(***************************************************************************)
(* The inductive invariants behind the theorems about the administration   *)
(* of datasets.  AdminInv says what the statements an operation has still  *)
(* to issue are, and what they may find; Tally, which rests on it, that    *)
(* the statements still to come account for every difference between the   *)
(* fields of a dataset and its columns.                                    *)
(***************************************************************************)
EXTENDS DatasetAdmin

\* A sequence, and what is in it.
IsSeq(q) == \E S : q \in Seq(S)
Member(x, q) == \E j \in DOMAIN q : q[j] = x

-----------------------------------------------------------------------------
(* What the operations have still to do, and what they know of each other.  *)

\* The statements each kind of operation issues.
Duty(kind, do) ==
  \/ kind = "create" /\ do \in {"create table", "register", "add field", "seed mapping", "add view"}
  \/ kind = "update" /\ do \in {"settings", "read fields", "refuse", "add column", "add field",
                                "seed mapping", "alter column", "set field", "drop column",
                                "delete field", "unmap column"}
  \/ kind = "import" /\ do = "upsert"
  \/ kind = "remove" /\ do \in {"find matviews", "find views", "find charts", "drop matview",
                                "delete charts", "drop table", "unmap", "delete views",
                                "delete pipe", "unregister"}
  \/ kind = "view" /\ do = "add view"
  \/ kind = "unview" /\ do \in {"find charts", "drop matview", "delete charts", "delete view"}
  \/ kind = "mapping" /\ do = "set mapping"

Fits(kind, k, s) ==
  /\ s.key = k /\ Duty(kind, s.do)
  /\ s.do = "read fields" => s.request.key = k /\ Len(s.request.fields) \in Nat
  /\ s.do = "register" => IsSeq(s.fields)

\* Every statement of an operation is one of its kind, on the dataset it was asked for.
Planned ==
  \A a \in Admins : ops[a] # Idle =>
    /\ IsSeq(ops[a].todo)
    /\ \A s : Member(s, ops[a].todo) => Fits(ops[a].kind, ops[a].key, s)

DbParts == {"tables", "registry", "mapping", "views", "charts", "matviews", "pipes", "deleted"}
HistParts == {"hurt", "stale", "loose", "born", "freed"}
OpParts == {"kind", "key", "request", "todo", "shared", "synced"}

Tabled(d) == \A k \in DOMAIN d.tables : DOMAIN d.tables[k] = {"columns", "rows"}

Shape ==
  /\ Tabled(db)
  /\ DOMAIN db = DbParts /\ DOMAIN hist = HistParts /\ DOMAIN ops = Admins
  /\ \A a \in Admins : ops[a] = Idle \/ (DOMAIN ops[a] = OpParts /\ ops[a].kind # "idle")
  /\ reader = Idle \/ (DOMAIN reader = {"kind", "key", "fields", "late"} /\ reader.kind = "reading")
  /\ db.deleted \in Nat /\ DOMAIN db.mapping = Keys

RowsFinite(d) ==
  \A k \in DOMAIN d.registry :
    DOMAIN d.registry[k] = {"id", "source", "fields"} /\ IsFiniteSet(DOMAIN d.registry[k].fields)

\* What the code lists is finite; an id of a chart is never used again.
Finite ==
  /\ IsFiniteSet(hist.born)
  /\ DOMAIN db.charts \subseteq hist.born /\ DOMAIN db.matviews \subseteq hist.born
  /\ RowsFinite(db)
  /\ \A k \in Keys : IsFiniteSet(DOMAIN db.mapping[k])

\* What was read of a dataset is what it is, or an operation that clears the
\* catalogue is under way, or one has failed.
Clearing(k) == \E a \in Admins : ops[a] # Idle /\ ops[a].key = k /\ ops[a].kind \in clearing
Agrees(k, fields, late) ==
  \/ late \/ Clearing(k) \/ k \in hist.stale
  \/ k \in DOMAIN db.registry /\ fields = db.registry[k].fields
Cached ==
  /\ \A k \in DOMAIN catalog : Agrees(k, catalog[k].fields, catalog[k].late)
  /\ reader # Idle => Agrees(reader.key, reader.fields, reader.late)

\* The places charts of dataset k are on: it, its views, and views there were.
OwnPlace(on, k) ==
  on = <<"dataset", k>> \/ \E v \in hist.freed \cup viewsOf(db, k) : on = <<"view", v>>
OwnChart(c, k) == c \in DOMAIN db.charts => OwnPlace(db.charts[c].on, k)
Placed(on) ==
  (\E k : on = <<"dataset", k>>) \/ \E v \in hist.freed \cup DOMAIN db.views : on = <<"view", v>>

\* A statement that is still to come finds, drops and deletes what is its dataset's.
OnlyOwn(s) ==
  /\ s.do = "find charts" => \A on \in s.places : OwnPlace(on, s.key)
  /\ s.do = "drop matview" => s.chart \in hist.born /\ OwnChart(s.chart, s.key)
  /\ s.do = "delete charts" =>
       s.charts \subseteq hist.born /\ \A c \in s.charts : OwnChart(c, s.key)
  /\ s.do = "delete view" =>
       /\ s.id \in Nat /\ s.id <= db.deleted
       /\ s.view \in DOMAIN db.views /\ db.views[s.view].id = s.id =>
            db.views[s.view].of = s.key
       /\ s.view \notin DOMAIN db.views => s.id < db.deleted
Owned ==
  /\ \A a \in Admins : ops[a] # Idle =>
       \A s : Member(s, ops[a].todo) => OnlyOwn(s)
  /\ \A c \in DOMAIN db.matviews :
       OwnChart(c, db.matviews[c].key) /\ db.matviews[c].key \in DOMAIN db.tables
  /\ \A c \in DOMAIN db.charts : Placed(db.charts[c].on)
  /\ \A v \in DOMAIN db.views : db.views[v].id \in Nat /\ db.views[v].id <= db.deleted

\* Two operations on a dataset know of each other, and one knows of a run of its pipe.
Noticed ==
  /\ \A a, b \in Admins :
       a # b /\ ops[a] # Idle /\ ops[b] # Idle /\ ops[a].key = ops[b].key => ops[a].shared
  /\ \A a \in Admins : ops[a] # Idle /\ ~ops[a].synced => ops[a].key \notin syncing

\* What a removal that is alone has still to do.
Awaits(op, do) == \E s : Member(s, op.todo) /\ s.do = do
Reaches(s, c) ==
  \/ s.do = "find views" /\ db.charts[c].on \in placesOf(db, s.key)
  \/ s.do = "find charts" /\ db.charts[c].on \in s.places
  \/ s.do = "delete charts" /\ c \in s.charts
ViewsBeforeDeleted(todo) ==
  \A i, j \in DOMAIN todo :
    todo[i].do = "find views" /\ todo[j].do = "delete views" => i < j
Remainder(op) ==
  /\ op.key \in Keys /\ op.request \subseteq hist.born
  /\ op.key \in DOMAIN db.tables => Awaits(op, "drop table")
  /\ db.mapping[op.key] # <<>> => Awaits(op, "unmap")
  /\ viewsOf(db, op.key) # {} => Awaits(op, "delete views")
  /\ op.key \in db.pipes => Awaits(op, "delete pipe")
  /\ op.key \in DOMAIN db.registry =>
       \E s : Member(s, op.todo) /\ s.do = "unregister" /\ s.id = db.registry[op.key].id
  /\ \A c \in op.request \cap DOMAIN db.charts : \E s : Member(s, op.todo) /\ Reaches(s, c)
  /\ ViewsBeforeDeleted(op.todo)
Removals ==
  \A a \in Admins :
    ops[a] # Idle /\ ops[a].kind = "remove" /\ Alone(a) => Remainder(ops[a])

AdminInv == Shape /\ Finite /\ Planned /\ Cached /\ Owned /\ Noticed /\ Removals

-----------------------------------------------------------------------------
(* The rows of an import.                                                   *)

\* What a statement of an import writes, and what of the file is written.
Chunk(s, byId) ==
  /\ DOMAIN s.rows # {} /\ DOMAIN s.rows \subseteq DOMAIN byId
  /\ \A n \in DOMAIN s.rows : s.rows[n] = byId[n]
Written(stored, byId, fields, n) ==
  n \in DOMAIN stored /\ \A c \in DOMAIN fields : stored[n][c] = byId[n][c]

\* What an import is about, and what of the file is stored or still to come
\* while no other operation and no run has joined it.
ById(op) == rowsById(op.request.file, op.request.fields)
Stores(d, op, n) == Written(rowsOf(d, op.key), ById(op), op.request.fields, n)
ImportGood(op) ==
  /\ op.request.file \in Files /\ op.request.file.key = op.key
  /\ \A s : Member(s, op.todo) => Chunk(s, ById(op))
  /\ ~op.shared /\ ~op.synced =>
       \A n \in DOMAIN ById(op) :
         Stores(db, op, n) \/ \E s : Member(s, op.todo) /\ n \in DOMAIN s.rows
Imports == \A a \in Admins : ops[a] # Idle /\ ops[a].kind = "import" => ImportGood(ops[a])

-----------------------------------------------------------------------------
(* The fields of a dataset, its columns and its mapping, while an operation *)
(* that has the dataset for itself changes them one by one.  S are the      *)
(* statements it has still to do.                                           *)

Listed(q) == {q[j] : j \in DOMAIN q}
Due(S, do, c) == \E t \in S : t.do = do /\ t.col = c

\* The statements on one column, in their order; what adds comes before what drops.
Adding == {"add column", "add field", "alter column", "set field"}
Dropping == {"drop column", "delete field", "unmap column"}
OnColumn == Adding \cup Dropping \cup {"seed mapping"}
Chain == {<<"add column", "add field">>, <<"add column", "seed mapping">>,
          <<"add field", "seed mapping">>, <<"alter column", "set field">>,
          <<"drop column", "delete field">>, <<"drop column", "unmap column">>,
          <<"delete field", "unmap column">>}
Before(s, t) ==
  /\ s.do \in OnColumn /\ t.do \in OnColumn /\ s.col = t.col => <<s.do, t.do>> \in Chain
  /\ s.do \in Dropping => t.do \notin Adding
Ordered(todo) == \A i, j \in DOMAIN todo : i < j => Before(todo[i], todo[j])

SameType(S, s, do) == \A t \in S : t.do = do /\ t.col = s.col => t.type = s.type
Singly == {"add column", "add field", "seed mapping", "alter column", "set field",
           "drop column", "delete field", "unmap column", "add view"}
Paired(S) == \A s \in S :
  /\ s.do \in Singly
  /\ s.do = "add column" => Due(S, "add field", s.col) /\ SameType(S, s, "add field")
  /\ s.do = "alter column" => Due(S, "set field", s.col) /\ SameType(S, s, "set field")
  /\ s.do = "drop column" => Due(S, "delete field", s.col)
  /\ s.do = "delete field" => Due(S, "unmap column", s.col)

\* What a statement finds when its turn comes.
CanAdd(S, s, F, C) ==
  /\ s.col \notin DOMAIN F /\ s.col # <<>>
  /\ s.col \in DOMAIN C => C[s.col] = s.type
  /\ s.col \in DOMAIN C \/ Due(S, "add column", s.col)
CanSet(S, s, F, C) ==
  /\ s.col \in DOMAIN F /\ s.col \in DOMAIN C /\ F[s.col].id = s.id
  /\ C[s.col] = s.type \/ Due(S, "alter column", s.col)
CanDelete(S, s, F, C) ==
  /\ s.col \in DOMAIN F /\ F[s.col].id = s.id
  /\ s.col \notin DOMAIN C \/ Due(S, "drop column", s.col)
Ready(S, F, C) == \A s \in S :
  /\ s.do = "add field" => CanAdd(S, s, F, C)
  /\ s.do = "set field" => CanSet(S, s, F, C)
  /\ s.do = "delete field" => CanDelete(S, s, F, C)

\* Where fields and columns differ, a statement that is due makes them agree.
Explained(S, F, C) ==
  /\ \A c \in DOMAIN C \ DOMAIN F : Due(S, "add field", c)
  /\ \A c \in DOMAIN F \ DOMAIN C : Due(S, "delete field", c)
  /\ \A c \in DOMAIN F \cap DOMAIN C : F[c].type # C[c] => Due(S, "set field", c)
IsMap(C) == C = [c \in DOMAIN C |-> C[c]]
Between(S, F, C) ==
  IsMap(C) /\ <<>> \notin DOMAIN F /\ Paired(S) /\ Ready(S, F, C) /\ Explained(S, F, C)

\* What the edit u, which failed or is under way, accounts for.
Newcomer(u, F, c, t) ==
  \E i \in DOMAIN u.fields :
    /\ u.fields[i].key \notin DOMAIN F \ Reserved
    /\ c = resolveColumnKey(nameOf(u.fields[i]), i, DOMAIN F \ Reserved)
    /\ t = u.fields[i].type
Spared(u, c) == c \notin Reserved /\ \A i \in DOMAIN u.fields : u.fields[i].key # c
Asked(u, c, t) ==
  c \notin Reserved /\ \E i \in DOMAIN u.fields : u.fields[i].key = c /\ u.fields[i].type = t
Halfway(u, F, C) ==
  /\ \A c \in DOMAIN C \ DOMAIN F : Newcomer(u, F, c, C[c])
  /\ \A c \in DOMAIN F \ DOMAIN C : Spared(u, c)
  /\ \A c \in DOMAIN F \cap DOMAIN C : F[c].type # C[c] => Asked(u, c, C[c])
Wanted(u, S, F) == \A s \in S :
  /\ s.do \in {"alter column", "set field"} => Asked(u, s.col, s.type)
  /\ s.do \in {"drop column", "delete field"} => Spared(u, s.col)
  /\ s.do \in {"add column", "add field"} /\ Apart(u.fields) => Newcomer(u, F, s.col, s.type)
Again(u, S, F, C) == Wanted(u, S, F) /\ (Apart(u.fields) => Halfway(u, F, C))

Agree(F, C) == C = [c \in DOMAIN F |-> F[c].type]
Apiece(m) == \A l, o \in DOMAIN m : m[l].col = m[o].col /\ m[l].col # Ignored => l = o
MappedTo(m, F) == Apiece(m) /\ \A l \in DOMAIN m : m[l].col # Ignored => m[l].col \in DOMAIN F
CanSeed(S, s, F, m) ==
  /\ s.col # <<>> /\ \A l \in DOMAIN m : m[l].col # s.col
  /\ s.col \in DOMAIN F \/ Due(S, "add field", s.col)
Mapped(S, F, m) ==
  /\ Apiece(m)
  /\ \A l \in DOMAIN m : m[l].col # Ignored =>
       m[l].col \in DOMAIN F \/ Due(S, "unmap column", m[l].col)
  /\ \A s \in S : s.do = "seed mapping" => CanSeed(S, s, F, m)

\* What an edit of a built-in dataset has still to do: it is refused before it
\* changes a column.
Refusing(todo, F) ==
  \A j \in DOMAIN todo :
    /\ todo[j].do \in {"refuse", "set field"}
    /\ todo[j].do = "set field" =>
         /\ todo[j].col \in DOMAIN F
         /\ (\A i \in DOMAIN todo : i < j => todo[i].do # "refuse") =>
              F[todo[j].col].type = todo[j].type

\* What a mapping has still to be set to.
Unset(todo, l) == \A i \in DOMAIN todo : todo[i].label # l
Remaps(todo, F, m) ==
  /\ \A i \in DOMAIN todo :
       /\ todo[i].label \in DOMAIN m /\ m[todo[i].label].id = todo[i].id
       /\ todo[i].col # Ignored => todo[i].col \in DOMAIN F
       /\ \A j \in DOMAIN todo : i # j =>
            todo[i].label # todo[j].label /\ (todo[i].col # Ignored => todo[i].col # todo[j].col)
  /\ \A l \in DOMAIN m : m[l].col # Ignored /\ Unset(todo, l) =>
       /\ m[l].col \in DOMAIN F
       /\ \A i \in DOMAIN todo : todo[i].col # m[l].col
       /\ \A o \in DOMAIN m : Unset(todo, o) /\ m[o].col = m[l].col => o = l

-----------------------------------------------------------------------------
(* The invariant of the fields, the columns and the mappings.               *)

\* Nothing failed, or the edit u did, and repeating it makes good what it left.
Repeats(k, u) == k \in Protected \/ Apart(u.fields)
Steady(k) == hist.hurt[k] = {} \/ \E u \in Updates : hist.hurt[k] = {u} /\ Repeats(k, u)
Sound(k) ==
  LET F == fieldsOf(db, k)
      C == columnsOf(db, k)
  IN /\ IsMap(C) /\ <<>> \notin DOMAIN F
     /\ hist.hurt[k] = {} \/ k \in Protected => Agree(F, C)
     /\ \A u \in hist.hurt[k] : Apart(u.fields) => Halfway(u, F, C)
Settled(k) ==
  /\ k \in DOMAIN db.registry /\ Steady(k) => Sound(k)
  /\ k \in DOMAIN db.registry /\ Steady(k) /\ k \notin hist.loose =>
       MappedTo(db.mapping[k], fieldsOf(db, k))
  /\ k \notin DOMAIN db.registry /\ k \notin hist.loose => db.mapping[k] = <<>>

\* An edit: first it reads the fields, then it goes through them.
ReadFields(u, id) == [do |-> "read fields", key |-> u.key, id |-> id, request |-> u]
Settings(u, id) == [do |-> "settings", key |-> u.key, id |-> id, source |-> u.source]
Reading(op) ==
  LET k == op.key
      u == op.request
      id == db.registry[k].id
  IN /\ u \in Updates /\ u.key = k
     /\ op.todo \in {<<Settings(u, id), ReadFields(u, id)>>, <<ReadFields(u, id)>>}
     /\ Sound(k)
     /\ k \notin hist.loose => MappedTo(db.mapping[k], fieldsOf(db, k))
Editing(op) ==
  LET k == op.key
      u == op.request
      F == fieldsOf(db, k)
      C == columnsOf(db, k)
      h == hist.hurt[k]
  IN /\ k \in DOMAIN db.registry
     /\ h \subseteq {u} /\ (h = {} \/ Repeats(k, u)) =>
       \/ Reading(op)
       \/ /\ k \in Protected /\ <<>> \notin DOMAIN F /\ Agree(F, C) /\ Refusing(op.todo, F)
          /\ k \notin hist.loose => MappedTo(db.mapping[k], F)
       \/ /\ k \notin Protected /\ Ordered(op.todo)
          /\ Between(Listed(op.todo), F, C) /\ Again(u, Listed(op.todo), F, C) /\ u \in Updates
          /\ k \notin hist.loose => Mapped(Listed(op.todo), F, db.mapping[k])
Making(op) ==
  LET k == op.key
      c == op.request
      F == fieldsOf(db, k)
      C == columnsOf(db, k)
      plan == createPlan(c)
  IN /\ c \in Creates /\ c.key = k
     /\ \/ op.todo = plan /\ (k \notin hist.loose => db.mapping[k] = <<>>)
        \/ /\ op.todo = Tail(plan) /\ C = plan[1].columns
           /\ k \notin hist.loose => db.mapping[k] = <<>>
        \/ /\ k \in DOMAIN db.registry /\ Ordered(op.todo) /\ Between(Listed(op.todo), F, C)
           /\ k \notin hist.loose => Mapped(Listed(op.todo), F, db.mapping[k])
Mapping(op) ==
  LET k == op.key
  IN /\ k \in DOMAIN db.registry /\ Steady(k) => Sound(k)
     /\ k \in Protected /\ k \notin hist.loose =>
          /\ k \in DOMAIN db.registry
          /\ Steady(k) => Remaps(op.todo, fieldsOf(db, k), db.mapping[k])
Leaving(op) ==
  LET k == op.key
  IN /\ db.mapping[k] # <<>> => Awaits(op, "unmap")
     /\ k \in DOMAIN db.registry =>
          \E s : Member(s, op.todo) /\ s.do = "unregister" /\ s.id = db.registry[k].id
OnCourse(op) ==
  /\ op.kind = "update" => Editing(op)
  /\ op.kind = "create" => Making(op)
  /\ op.kind = "mapping" => Mapping(op)
  /\ op.kind = "remove" => Leaving(op)

\* The fields of a dataset are its columns, or an operation will make them so, or
\* it is on record that they may differ.
Tally ==
  /\ DOMAIN hist.hurt = Keys /\ DOMAIN db.registry \subseteq Keys
  /\ \A a \in Admins : ops[a] # Idle /\ ops[a].kind = "create" => ops[a].key \in Keys
  /\ \A k \in Keys : ~Changing(k) => Settled(k)
  /\ \A a \in Admins : ops[a] # Idle /\ ops[a].key \in Keys /\ ~ops[a].shared => OnCourse(ops[a])

-----------------------------------------------------------------------------
(* What one statement makes of fields F, columns C and mapping m.           *)

MovesFields(s, F, G) ==
  /\ s.do \notin {"add field", "set field", "delete field"} => G = F
  /\ s.do = "add field" =>
       /\ DOMAIN G = DOMAIN F \cup {s.col} /\ G[s.col].type = s.type
       /\ \A c \in DOMAIN F \ {s.col} : G[c] = F[c]
  /\ s.do = "set field" /\ s.col \in DOMAIN F /\ F[s.col].id = s.id =>
       /\ DOMAIN G = DOMAIN F /\ G[s.col].type = s.type /\ G[s.col].id = s.id
       /\ \A c \in DOMAIN F \ {s.col} : G[c] = F[c]
  /\ s.do = "delete field" /\ s.col \in DOMAIN F /\ F[s.col].id = s.id =>
       DOMAIN G = DOMAIN F \ {s.col} /\ \A c \in DOMAIN G : G[c] = F[c]
MovesColumns(s, C, D) ==
  /\ IsMap(C) => IsMap(D)
  /\ s.do \notin {"add column", "alter column", "drop column"} => D = C
  /\ s.do = "add column" =>
       /\ DOMAIN D = DOMAIN C \cup {s.col} /\ \A c \in DOMAIN C : D[c] = C[c]
       /\ s.col \notin DOMAIN C => D[s.col] = s.type
  /\ s.do = "alter column" =>
       /\ s.col \in DOMAIN C /\ DOMAIN D = DOMAIN C /\ D[s.col] = s.type
       /\ \A c \in DOMAIN C \ {s.col} : D[c] = C[c]
  /\ s.do = "drop column" => DOMAIN D = DOMAIN C \ {s.col} /\ \A c \in DOMAIN D : D[c] = C[c]
MovesMapping(s, m, n) ==
  /\ s.do \notin {"seed mapping", "unmap column"} => n = m
  /\ s.do = "seed mapping" =>
       \/ n = m
       \/ /\ s.label \notin DOMAIN m /\ DOMAIN n = DOMAIN m \cup {s.label} /\ n[s.label].col = s.col
          /\ \A l \in DOMAIN m : n[l] = m[l]
  /\ s.do = "unmap column" =>
       DOMAIN n = {l \in DOMAIN m : m[l].col # s.col} /\ \A l \in DOMAIN n : n[l] = m[l]

\* The statements T are to come after s.
Then(S, s, T) == S = {s} \cup T /\ \A t \in T : Before(s, t)

-----------------------------------------------------------------------------
(* The statements of an edit.                                               *)

AddColumn(k, id, f) == [AddField(k, id, f) EXCEPT !.do = "add column"]
AlterColumn(k, id, f) == [AddField(k, id, f) EXCEPT !.do = "alter column"]
SetField(k, id, f) == [AddField(k, id, f) EXCEPT !.do = "set field"]
DropColumn(k, col) == [do |-> "drop column", key |-> k, col |-> col]
DeleteField(k, col, id) == [do |-> "delete field", key |-> k, col |-> col, id |-> id]
UnmapColumn(k, col) == [do |-> "unmap column", key |-> k, col |-> col]
Refuse(k) == [do |-> "refuse", key |-> k]
Structural(k, todo) == IF k \in Protected THEN <<Refuse(k)>> ELSE todo

KeptBlock(k, id, E, f) ==
  IF f.key \notin DOMAIN E
  THEN Structural(k, <<AddColumn(k, id, f), AddField(k, id, f), SeedMapping(k, f)>>)
  ELSE (IF E[f.key].type = f.type THEN <<>> ELSE Structural(k, <<AlterColumn(k, id, f)>>))
       \o <<SetField(k, E[f.key].id, f)>>
DroppedBlock(k, E, col) ==
  Structural(k, <<DropColumn(k, col), DeleteField(k, col, E[col].id), UnmapColumn(k, col)>>)

KeptBlocks(k, id, E, g) == [i \in DOMAIN g |-> KeptBlock(k, id, E, g[i])]
DroppedBlocks(k, E, gone) == [i \in DOMAIN gone |-> DroppedBlock(k, E, gone[i])]

\* What it does for a field that is asked for, and for a column that is not.
Keeps(k, id, E, f, s) ==
  \/ f.key \notin DOMAIN E /\ s \in {AddColumn(k, id, f), AddField(k, id, f), SeedMapping(k, f)}
  \/ f.key \in DOMAIN E /\ E[f.key].type # f.type /\ s = AlterColumn(k, id, f)
  \/ f.key \in DOMAIN E /\ s = SetField(k, E[f.key].id, f)
Drops(k, E, col, s) == s \in {DropColumn(k, col), DeleteField(k, col, E[col].id), UnmapColumn(k, col)}

OfField(E, f, s) ==
  /\ s.col = f.key /\ s.do \notin Dropping
  /\ s.do \in {"add column", "add field", "seed mapping"} => f.key \notin DOMAIN E
  /\ s.do \in {"alter column", "set field"} => f.key \in DOMAIN E
  /\ s.do \in {"add column", "add field", "alter column", "set field"} => s.type = f.type
  /\ s.do = "set field" => s.id = E[f.key].id
  /\ s.do = "alter column" => E[f.key].type # f.type
  /\ s.do \in {"add column", "add field", "seed mapping", "alter column", "set field"}

OfColumn(E, col, s) ==
  /\ s.col = col /\ s.do \notin Adding
  /\ s.do \in {"drop column", "delete field", "unmap column"}
  /\ s.do = "delete field" => s.id = E[col].id

\* The statements of an edit.
Issues(k, id, E, g, s) ==
  \/ \E i \in DOMAIN g : Keeps(k, id, E, g[i], s)
  \/ \E col \in DOMAIN E \ KeysOf(g) : Drops(k, E, col, s)

=============================================================================
