------------------------------ MODULE Reports ------------------------------
(***************************************************************************)
(* Record views and dataset browsing: paging, counting, caching, searching *)
(* and exporting rows, while a sync changes them and an administrator      *)
(* edits the view.  backend/src/reports (service, repository, exports) and *)
(* datasets/dataset-browse.service.ts.                                     *)
(*                                                                         *)
(* Rows are records with a `record_id`.  A view with browse = TRUE is a    *)
(* dataset opened directly: no scope, no row limit, every column.          *)
(***************************************************************************)
EXTENDS FilterLogic, FieldCatalog, FiniteSetsExt

CONSTANTS Fields, Indexed,   \* the field registry; columns with a trigram index
          Start,             \* the rows at first
          Versions,          \* the rows a sync may write
          Views, Edits,      \* the views at first; what an edit may save
          Queries,           \* requests: conditions, search terms, order, page
          CountCap,          \* CAP in countFindings, 10,000 in the code
          EstimateAbove,     \* ESTIMATE_ABOVE_ROWS, 2,000,000 in the code
          Drift,             \* by how many rows reltuples may be off
          ChunkSize,         \* CHUNK in streamFindings, 10,000 in the code
          PdfRowLimit,       \* PDF_ROW_LIMIT, 2,000 in the code
          MaxWrites,         \* bound on the sync's writes
          MaxCached,         \* bound on the entries of each cache
          Toggled            \* bound: the columns added and removed one by one

None == -9
\* What is configured and asked for; a term is 0 when blank, None is no number
\* and no limit, as a limit that is not positive is none.
Filter == [conds : Seq(Condition), logic : Seq(Lexeme)]
ViewRow == [scope : Filter, limit : (Nat \ {0}) \cup {None}, columns : SUBSET STRING,
            granted : BOOLEAN, browse : BOOLEAN]
Term == [text : Nat, number : Nat \cup {None}]
Question == [conds : Seq(Condition), logic : Seq(Lexeme), search : Term,
             cols : Seq([col : STRING, term : Term]), sort : STRING,
             order : {"asc", "desc"}, page : Nat \ {0}, size : Nat \ {0}]

ASSUME TableAssumption ==
  /\ IsFiniteSet(Start) /\ IsFiniteSet(DOMAIN Fields) /\ DOMAIN Fields \subseteq STRING
  /\ \A r, o \in Start : r.record_id = o.record_id => r = o
  /\ \A r \in Start \cup Versions :
       r.record_id \in Nat /\ \A f \in DOMAIN Fields : r[f] \in Int
ASSUME LimitsAssumption ==
  {CountCap, EstimateAbove, Drift, PdfRowLimit} \subseteq Nat /\ ChunkSize \in Nat \ {0}
ASSUME AskedAssumption ==
  Views \cup Edits \subseteq ViewRow /\ Queries \subseteq Question /\ Toggled \subseteq STRING

VARIABLES rows,      \* the dataset's table
          version,   \* how often it was written (a history variable)
          view,      \* the row of the view, its columns and whether it is granted
          pages,     \* cached answers: key -> [rows, total, capped, estimated, columns, old]
          counts,    \* cached counts:  key -> [total, capped, estimated, at, old]
          fence,     \* the version when a sync last cleared the caches (history)
          reader,    \* the request under way
          export,    \* the export under way
          editor     \* the administrator's edit under way

vars == <<rows, version, view, pages, counts, fence, reader, export, editor>>

(***************************************************************************)
(* The statements: the view's scope, the user's filter, the quick search   *)
(* and the searches in columns, in one numbering of parameters.            *)
(***************************************************************************)
SearchOr(term, params) ==
  LET columns == SetToSeq(globalSearch(Fields, Indexed))
      text == IF columns = <<>> THEN params ELSE Append(params, << term.text >>)
      like == [i \in DOMAIN columns |-> Test(columns[i], "contains", << Len(text) >>)]
      id == IF term.number = None THEN <<>>
            ELSE << Test("record_id", "eq", << Len(text) + 1 >>) >>
      tests == like \o id
  IN [params |-> IF id = <<>> THEN text ELSE Append(text, << term.number >>),
      sql |-> IF tests = <<>> THEN <<>>
              ELSE Paren([i \in 1..(2 * Len(tests) - 1) |->
                            IF i % 2 = 1 THEN tests[(i + 1) \div 2] ELSE Tok("OR")])]

\* A search in one column; one that is blank or cannot be searched is left out.
SearchIn(w, filter) ==
  LET id == filter.col = "record_id" /\ filter.term.number # None
  IN IF filter.term.text = 0 \/ filter.col \notin searchable(Fields) THEN w
     ELSE [w EXCEPT !.params = Append(@, << IF id THEN filter.term.number
                                            ELSE filter.term.text >>),
                    !.sql = And(@, << Test(filter.col, IF id THEN "eq" ELSE "contains",
                                           << Len(w.params) + 1 >>) >>)]

\* A statement after the one before it, whose parameters it is numbered after.
Followed(b, u) ==
  [bad |-> b.bad \/ u.bad, sql |-> And(b.sql, u.sql), params |-> b.params \o u.params]

\* Mutant: the user's parameters are numbered from one again.
NumberedAnew(b, q) == Followed(b, buildExpressionWhere(q.conds, q.logic, 0))

Narrowed(b, q) == Followed(b, buildExpressionWhere(q.conds, q.logic, Len(b.params)))

Searched(w, q) ==
  IF q.search.text = 0 THEN w
  ELSE LET s == SearchOr(q.search, w.params)
       IN [w EXCEPT !.params = s.params, !.sql = And(@, s.sql)]

whereFor(scope, q) ==
  LET upTo[n \in 0..Len(q.cols)] ==
        IF n = 0
        THEN Searched(Narrowed(buildExpressionWhere(scope.conds, scope.logic, 0), q), q)
        ELSE SearchIn(upTo[n - 1], q.cols[n])
  IN upTo[Len(q.cols)]

searching(q) == q.search.text # 0 \/ \E i \in DOMAIN q.cols : q.cols[i].term.text # 0

\* A set as a sequence: the i-th of it has i - 1 others before it.
InOrder(S, before) ==
  [i \in 1..Cardinality(S) |->
     CHOOSE r \in S : Cardinality({o \in S : <<o, r>> \in before}) = i - 1]

\* Sorted by a column and then the id, both in one direction, a NULL being
\* larger than every value; a column that cannot be sorted by gives way to
\* the dataset's own order.
SortKey(r, col) == IF r[col] = Null THEN 1000 ELSE r[col]
SortColumn(q) ==
  IF q.sort \in DOMAIN Fields \cup {"record_id"} THEN q.sort ELSE "record_id"
Sorted(S, q) ==
  LET col == SortColumn(q)
      less(a, b) == \/ SortKey(a, col) < SortKey(b, col)
                    \/ SortKey(a, col) = SortKey(b, col) /\ a.record_id < b.record_id
  IN InOrder(S, {p \in S \X S : IF q.order = "asc" THEN less(p[1], p[2]) ELSE less(p[2], p[1])})

Window(s, offset, size) == SubSeq(s, offset + 1, Min({Len(s), offset + size}))

pageFindings(scope, q) ==
  Window(Sorted(Selected(rows, whereFor(scope, q)), q), (q.page - 1) * q.size, q.size)

\* Counting stops one past the cap, unless nothing is filtered; then it is
\* left out where the statistics say that the table is large.
Counted(w, n, reltuples) ==
  IF w.sql # <<>>
  THEN [total |-> Min({n, CountCap}), capped |-> n > CountCap, estimated |-> FALSE]
  ELSE IF reltuples >= EstimateAbove
  THEN [total |-> reltuples, capped |-> FALSE, estimated |-> TRUE]
  ELSE [total |-> n, capped |-> FALSE, estimated |-> FALSE]

countFindings(scope, q, reltuples) ==
  LET w == whereFor(scope, q) IN Counted(w, Cardinality(Selected(rows, w)), reltuples)

\* What pg_class may say of the table: nothing (before its first ANALYZE, or as
\* the query fails), or a sampled number of rows that is Drift off at most.
Estimates(S) ==
  LET n == Cardinality(S) IN {-1} \cup (n - Drift)..(n + Drift)

\* A view of the top N shrinks the window of the page it ends on.
NoCap(q, rowLimit) == q   \* mutant: the window is not shrunk

capPage(q, rowLimit) ==
  IF rowLimit = None THEN q
  ELSE [q EXCEPT !.size = Max({0, Min({q.size, rowLimit - (q.page - 1) * q.size})})]

\* The columns an answer has: those configured that the dataset still has,
\* its first ones when there are none, and always the record id.
contextFor(v) ==
  LET known == DOMAIN Fields \cup {"record_id"}
      configured == v.columns \cap known
  IN {"record_id"} \cup (IF v.browse \/ configured = {} THEN DOMAIN Fields ELSE configured)

(***************************************************************************)
(* A page: DatasetBrowseService.data, ReportsService.findingsData.         *)
(***************************************************************************)
PageKey(scope, limit, q) == [scope |-> scope, q |-> capPage(q, limit)]
CountKey(scope, q) ==
  [scope |-> scope, conds |-> q.conds, logic |-> q.logic, search |-> q.search, cols |-> q.cols]

Idle == [pc |-> "idle"]
\* A count, and the version it was taken at (a history field).
NoCount == [total |-> None, capped |-> FALSE, estimated |-> FALSE, at |-> None, old |-> FALSE]

Init ==
  /\ rows = Start /\ version = 0 /\ fence = 0
  /\ view \in Views
  /\ pages = <<>> /\ counts = <<>>
  /\ reader = Idle /\ export = Idle /\ editor = Idle

Put(f, key, value) == [k \in DOMAIN f \cup {key} |-> IF k = key THEN value ELSE f[k]]

\* mustBeAccessible: the row of the view as it is now.  A request that would
\* fill a cache past its bound waits until entries have expired.
Room(f, key) == key \in DOMAIN f \/ Cardinality(DOMAIN f) < MaxCached
Ask(q) ==
  /\ reader = Idle /\ export = Idle /\ view.granted
  /\ Room(pages, PageKey(view.scope, view.limit, q))
  /\ Room(counts, CountKey(view.scope, q))
  /\ ~whereFor(view.scope, q).bad
  /\ reader' = [pc |-> "context", q |-> q, scope |-> view.scope, limit |-> view.limit,
                columns |-> {}, count |-> NoCount, rows |-> <<>>, paged |-> None]
  /\ UNCHANGED <<rows, version, view, pages, counts, fence, export, editor>>

\* The columns are read next, and the cache is asked.
ReadContext ==
  /\ reader.pc = "context"
  /\ LET key == PageKey(reader.scope, reader.limit, reader.q)
     IN IF key \in DOMAIN pages
        THEN reader' = Idle
        ELSE reader' = [reader EXCEPT !.pc = "read", !.columns = contextFor(view)]
  /\ UNCHANGED <<rows, version, view, pages, counts, fence, export, editor>>

\* getCount, from the cache or the table.
GetCount ==
  /\ reader.pc = "read" /\ reader.count.at = None
  /\ LET key == CountKey(reader.scope, reader.q)
     IN IF key \in DOMAIN counts
        THEN reader' = [reader EXCEPT !.count = counts[key]]
        ELSE \E reltuples \in Estimates(rows) :
               LET found == countFindings(reader.scope, reader.q, reltuples)
               IN reader' = [reader EXCEPT !.pc = "keep",
                               !.count = [NoCount EXCEPT !.total = found.total,
                                            !.capped = found.capped,
                                            !.estimated = found.estimated, !.at = version]]
  /\ UNCHANGED <<rows, version, view, pages, counts, fence, export, editor>>

\* What is stored is marked old (a history field) when the caches have been
\* cleared of it already: nothing clears them of it again.
KeepCount ==
  /\ reader.pc = "keep"
  /\ counts' = Put(counts, CountKey(reader.scope, reader.q),
                   [reader.count EXCEPT !.old = reader.count.at < fence])
  /\ reader' = [reader EXCEPT !.pc = "read"]
  /\ UNCHANGED <<rows, version, view, pages, fence, export, editor>>

\* A search waits for its count; otherwise the two are independent.
GetPage ==
  /\ reader.pc \in {"read", "keep"} /\ reader.paged = None
  /\ searching(reader.q) => reader.count.at # None /\ reader.pc = "read"
  /\ LET q == capPage(reader.q, reader.limit)
     IN reader' = [reader EXCEPT !.paged = version,
                     !.rows = IF q.size > 0 THEN pageFindings(reader.scope, q) ELSE <<>>]
  /\ UNCHANGED <<rows, version, view, pages, counts, fence, export, editor>>

\* The total of a view of the top N is never more than N.
Total(count, limit) ==
  IF limit # None /\ count.total > limit
  THEN [count EXCEPT !.total = limit, !.capped = FALSE, !.estimated = FALSE]
  ELSE count

\* The same of a page: of its rows, its count, its columns and its limit.
Outdated ==
  \/ reader.count.at < fence \/ reader.paged < fence
  \/ editor = Idle /\ (reader.columns # contextFor(view) \/ reader.limit # view.limit)

Answer ==
  /\ reader.pc = "read" /\ reader.count.at # None /\ reader.paged # None
  /\ LET count == Total(reader.count, reader.limit)
     IN pages' = Put(pages, PageKey(reader.scope, reader.limit, reader.q),
                     [rows |-> reader.rows, total |-> count.total, capped |-> count.capped,
                      estimated |-> count.estimated, columns |-> reader.columns,
                      old |-> Outdated])
  /\ reader' = Idle
  /\ UNCHANGED <<rows, version, view, counts, fence, export, editor>>

\* Answers live 60 s, counts 30 minutes.
Expire ==
  /\ reader = Idle
  /\ \/ pages # <<>> /\ pages' = <<>> /\ UNCHANGED counts
     \/ counts # <<>> /\ counts' = <<>> /\ UNCHANGED pages
  /\ UNCHANGED <<rows, version, view, fence, reader, export, editor>>

(***************************************************************************)
(* An export: chunks in descending order of id, each after the last id of  *)
(* the one before, cut at the view's N and, in a pdf, at its own limit.    *)
(***************************************************************************)
\* It reads no cache and, once begun, no setting of the view, so it is looked
\* at while the caches are empty and nobody edits.
Streaming(q, format, w) ==
  /\ ~w.bad
  /\ export' = [pc |-> "stream", q |-> q, scope |-> view.scope, limit |-> view.limit,
                room |-> IF format = "pdf" THEN PdfRowLimit ELSE None,
                where |-> w, cursor |-> None, sent |-> <<>>,
                steady |-> Selected(rows, w)]

StartExport(q, format) ==
  /\ reader = Idle /\ export = Idle /\ view.granted
  /\ editor = Idle /\ pages = <<>> /\ counts = <<>>
  /\ Streaming(q, format, whereFor(view.scope, q))
  /\ UNCHANGED <<rows, version, view, pages, counts, fence, reader, editor>>

Cut(s, limit) == IF limit = None \/ Len(s) =< limit THEN s ELSE SubSeq(s, 1, limit)

\* Mutant: the last row of a chunk starts the next one.
FromCursor(cursor, r) == cursor = None \/ r.record_id =< cursor

After(cursor, r) == cursor = None \/ r.record_id < cursor

StreamChunk ==
  LET left == {r \in Selected(rows, export.where) : After(export.cursor, r)}
      descending == {p \in left \X left : p[1].record_id > p[2].record_id}
      batch == Window(InOrder(left, descending), 0, ChunkSize)
      sent == Cut(Cut(export.sent \o batch, export.limit), export.room)
      more == /\ Len(batch) = ChunkSize
              /\ export.limit # None => Len(sent) < export.limit
              /\ export.room # None => Len(sent) < export.room
  IN /\ export.pc = "stream"
     /\ export' = [export EXCEPT !.sent = sent,
                     !.cursor = IF batch = <<>> THEN @ ELSE Last(batch).record_id,
                     !.pc = IF more THEN "stream" ELSE "done"]
     /\ UNCHANGED <<rows, version, view, pages, counts, fence, reader, editor>>

CloseExport ==
  /\ export.pc = "done" /\ export' = Idle
  /\ UNCHANGED <<rows, version, view, pages, counts, fence, reader, editor>>

(***************************************************************************)
(* The sync writes rows, and clears the caches when it is done: best       *)
(* effort, a clearing that fails leaves some of the entries (invalidate).  *)
(***************************************************************************)
LeftOf(f, keys) == [k \in keys |-> [f[k] EXCEPT !.old = TRUE]]

\* Mutant: the counts are kept.
InvalidatePages ==
  /\ \E left \in SUBSET DOMAIN pages : pages' = LeftOf(pages, left)
  /\ UNCHANGED counts

Invalidate ==
  /\ \E left \in SUBSET DOMAIN pages : pages' = LeftOf(pages, left)
  /\ \E left \in SUBSET DOMAIN counts : counts' = LeftOf(counts, left)

Write(r) ==
  /\ version < MaxWrites /\ r \notin rows
  /\ rows' = {o \in rows : o.record_id # r.record_id} \cup {r}
  /\ version' = version + 1
  /\ export' = IF export = Idle THEN Idle
               ELSE [export EXCEPT !.steady = {o \in @ : o.record_id # r.record_id}]
  /\ UNCHANGED <<view, pages, counts, fence, reader, editor>>

SyncDone ==
  /\ fence < version /\ fence' = version
  /\ Invalidate /\ UNCHANGED <<rows, version, view, reader, export, editor>>

(***************************************************************************)
(* An edit of the view, statement by statement: updateView.                *)
(***************************************************************************)
updateView(new) ==
  /\ editor = Idle /\ export = Idle /\ ~view.browse /\ new # view /\ new.browse = view.browse
  /\ ~buildExpressionWhere(new.scope.conds, new.scope.logic, 0).bad
  /\ view' = [view EXCEPT !.scope = new.scope, !.limit = new.limit]
  /\ editor' = [pc |-> "columns", new |-> new]
  /\ UNCHANGED <<rows, version, pages, counts, fence, reader, export>>

\* setColumns and setAccessRoles delete, and then insert row by row.
setColumns ==
  /\ \/ /\ editor.pc = "columns"
        /\ view' = [view EXCEPT !.columns = {}]
        /\ editor' = [editor EXCEPT !.pc = "insert"]
     \/ /\ editor.pc = "insert"
        /\ \E c \in editor.new.columns \ view.columns :
             view' = [view EXCEPT !.columns = @ \cup {c}]
        /\ UNCHANGED editor
     \/ /\ editor.pc = "insert" /\ editor.new.columns = view.columns
        /\ editor' = [editor EXCEPT !.pc = "roles"]
        /\ UNCHANGED view
  /\ UNCHANGED <<rows, version, pages, counts, fence, reader, export>>

setAccessRoles ==
  /\ \/ /\ editor.pc = "roles"
        /\ view' = [view EXCEPT !.granted = FALSE]
        /\ editor' = [editor EXCEPT !.pc = "grant"]
     \/ /\ editor.pc = "grant"
        /\ view' = [view EXCEPT !.granted = editor.new.granted]
        /\ editor' = [editor EXCEPT !.pc = "invalidate"]
  /\ UNCHANGED <<rows, version, pages, counts, fence, reader, export>>

EditDone ==
  /\ editor.pc = "invalidate" /\ editor' = Idle
  /\ Invalidate /\ UNCHANGED <<rows, version, view, fence, reader, export>>

\* A statement that fails ends the edit where it is, and nothing is cleared.
EditFails ==
  /\ editor # Idle /\ editor' = Idle
  /\ pages' = LeftOf(pages, DOMAIN pages)
  /\ UNCHANGED <<rows, version, view, counts, fence, reader, export>>

\* The older screens add and remove one column, which clears nothing.
upsertColumn(c) ==
  /\ editor = Idle /\ ~view.browse /\ export = Idle
  /\ view' = [view EXCEPT !.columns = @ \cup {c}] /\ view' # view
  /\ pages' = LeftOf(pages, DOMAIN pages)
  /\ UNCHANGED <<rows, version, counts, fence, reader, export, editor>>

deleteColumn(c) ==
  /\ editor = Idle /\ c \in view.columns /\ export = Idle
  /\ view' = [view EXCEPT !.columns = @ \ {c}]
  /\ pages' = LeftOf(pages, DOMAIN pages)
  /\ UNCHANGED <<rows, version, counts, fence, reader, export, editor>>

Next ==
  \/ \E q \in Queries : Ask(q) \/ \E format \in {"csv", "pdf"} : StartExport(q, format)
  \/ ReadContext \/ GetCount \/ KeepCount \/ GetPage \/ Answer \/ Expire
  \/ StreamChunk \/ CloseExport
  \/ \E r \in Versions : Write(r)
  \/ SyncDone
  \/ \E new \in Edits : updateView(new)
  \/ setColumns \/ setAccessRoles \/ EditDone \/ EditFails
  \/ \E c \in Toggled : upsertColumn(c) \/ deleteColumn(c)

Spec == Init /\ [][Next]_vars

(***************************************************************************)
(* Properties.                                                             *)
(***************************************************************************)
Matches(scope, q, r) ==
  LET finds(col, term) == Like("contains", r[col], term.text)
  IN /\ Meaning(scope, r) /\ Meaning([conds |-> q.conds, logic |-> q.logic], r)
     /\ q.search.text # 0 =>
          \/ \E col \in globalSearch(Fields, Indexed) : finds(col, q.search)
          \/ r.record_id = q.search.number
     /\ \A i \in DOMAIN q.cols :
          q.cols[i].term.text # 0 /\ q.cols[i].col \in searchable(Fields) =>
            IF q.cols[i].col = "record_id" /\ q.cols[i].term.number # None
            THEN r.record_id = q.cols[i].term.number ELSE finds(q.cols[i].col, q.cols[i].term)

\* Whatever the user filters by and searches for, a page and an export hold
\* rows of the view's scope only, and only rows the user asked for: the user
\* narrows a view and never widens it (whereFor).
OnlyNarrows ==
  /\ reader # Idle =>
       \A i \in DOMAIN reader.rows : Matches(reader.scope, reader.q, reader.rows[i])
  /\ export # Idle =>
       \A i \in DOMAIN export.sent : Matches(export.scope, export.q, export.sent[i])

\* Page p holds the p-th slice of the matching rows in their order, up to the
\* view's N: over pages read from one state of the table no row is shown twice
\* and none is skipped (pageFindings, capPage).
Slice(scope, limit, q) ==
  LET all == Cut(Sorted({r \in rows : Matches(scope, q, r)}, q), limit)
  IN Window(all, (q.page - 1) * q.size, q.size)
PagesTile ==
  reader # Idle /\ reader.paged = version =>
    reader.rows = Slice(reader.scope, reader.limit, reader.q)

\* An export has no row twice, whatever a sync writes between two chunks, and
\* when it ends every row that matched all along is in it, unless it was cut
\* at the view's N or the limit of a pdf (streamFindings, capStream, streamPdf).
ExportOnce ==
  export # Idle =>
    LET ids == [i \in DOMAIN export.sent |-> export.sent[i].record_id]
        cut == \E n \in {export.limit, export.room} : n # None /\ Len(export.sent) = n
    IN /\ \A i, j \in DOMAIN ids : i < j => ids[i] > ids[j]
       /\ export.pc = "done" /\ ~cut => export.steady \subseteq ToSet(export.sent)

\* Outside the moments between a change and the clearing of the caches that
\* follows it, a cached page is the page that would be read now, with the columns
\* and the total of now, and a cached count is the count of now, exact up to the
\* cap, or else an estimate that is said to be one and is no further off than the
\* statistics.  An entry may be older in three ways only: it was out of date as
\* it was stored, because what it holds was read before the clearing; a clearing
\* that failed left it; a column was changed without a clearing (findingsData,
\* invalidate, upsertColumn).
Tells(count, n, filtered, limit) ==
  LET shown == IF limit = None THEN n ELSE Min({n, limit})
      exact == IF filtered THEN Min({CountCap, shown}) ELSE shown
      large == ~filtered /\ n + Drift >= EstimateAbove
  IN /\ count.capped <=> (filtered /\ n > CountCap /\ shown >= CountCap)
     /\ count.estimated => large
     /\ count.total # exact =>
          /\ large /\ count.total - exact \in -Drift..Drift
          /\ count.estimated \/ (limit # None /\ count.total = limit)

Quiet == fence = version /\ editor = Idle
CacheCoherent ==
  LET matching(k, u) == Cardinality({r \in rows : Matches(k.scope, u, r)})
      filtered(k, u) == whereFor(k.scope, u).sql # <<>>
  IN Quiet =>
       /\ \A k \in DOMAIN pages : ~pages[k].old =>
            /\ pages[k].rows = Slice(k.scope, view.limit, k.q)
            /\ pages[k].columns = contextFor(view)
            /\ Tells(pages[k], matching(k, k.q), filtered(k, k.q), view.limit)
       /\ \A k \in DOMAIN counts : ~counts[k].old =>
            Tells(counts[k], matching(k, k), filtered(k, k), None)

=============================================================================
