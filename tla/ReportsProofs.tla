---------------------------- MODULE ReportsProofs ----------------------------
(***************************************************************************)
(* Proofs about views, their pages and their exports, for any dataset,     *)
(* rows, views, filters and searches, however many writes and edits come   *)
(* between.                                                                *)
(***************************************************************************)
EXTENDS Reports, FilterProofs

-----------------------------------------------------------------------------
(* Rows in their order.                                                     *)

Strict(S, before) ==
  /\ IsFiniteSet(S)
  /\ \A a \in S : <<a, a>> \notin before
  /\ \A a, b, c \in S : <<a, b>> \in before /\ <<b, c>> \in before => <<a, c>> \in before
  /\ \A a, b \in S : a # b => <<a, b>> \in before \/ <<b, a>> \in before

\* A set in a strict order: all of it, each before those after it.
Listing(R, S, before) ==
  /\ R \in Seq(S) /\ Len(R) = Cardinality(S) /\ \A r \in S : \E i \in DOMAIN R : R[i] = r
  /\ \A i, j \in DOMAIN R : i < j => <<R[i], R[j]>> \in before

LEMMA PartOf ==
  ASSUME NEW S, IsFiniteSet(S), NEW T, T \subseteq S
  PROVE  IsFiniteSet(T) /\ Cardinality(T) \in Nat /\ Cardinality(T) <= Cardinality(S)
BY FS_Subset, FS_CardinalityType

LEMMA InOrderLists ==
  ASSUME NEW S, NEW before, Strict(S, before)
  PROVE  Listing(InOrder(S, before), S, before)
<1> DEFINE n == Cardinality(S)
           Under(r) == {o \in S : <<o, r>> \in before}
           rank == [r \in S |-> Cardinality(Under(r))]
<1>1. n \in Nat /\ IsFiniteSet(S)
  BY FS_CardinalityType DEF Strict
<1>2. \A r \in S : IsFiniteSet(Under(r)) /\ Cardinality(Under(r)) \in Nat
  <2>1. \A r \in S : Under(r) \subseteq S
    OBVIOUS
  <2> HIDE DEF Under
  <2> QED BY <1>1, <2>1, PartOf
<1>3. \A a, b \in S : <<a, b>> \in before => rank[a] < rank[b]
  <2> SUFFICES ASSUME NEW a \in S, NEW b \in S, <<a, b>> \in before
               PROVE  rank[a] < rank[b]
    OBVIOUS
  <2>1. a \notin Under(a) /\ Under(a) \cup {a} \subseteq Under(b)
    BY DEF Strict
  <2>2. Cardinality(Under(a) \cup {a}) = Cardinality(Under(a)) + 1
    BY <1>2, <2>1, FS_AddElement
  <2>3. Cardinality(Under(a) \cup {a}) <= Cardinality(Under(b))
    BY <1>2, <2>1, PartOf
  <2> QED BY <1>2, <2>2, <2>3
<1>4. \A r \in S : rank[r] \in 0..(n - 1)
  <2> SUFFICES ASSUME NEW r \in S PROVE rank[r] \in 0..(n - 1)
    OBVIOUS
  <2>1. Under(r) \subseteq S \ {r}
    BY DEF Strict
  <2>2. IsFiniteSet(S \ {r}) /\ Cardinality(S \ {r}) = n - 1
    BY <1>1, FS_RemoveElement
  <2>3. Cardinality(Under(r)) <= n - 1
    <3> HIDE DEF Under
    <3> QED BY <2>1, <2>2, PartOf
  <2> QED BY <1>1, <1>2, <2>3
<1>5. rank \in Injection(S, 0..(n - 1))
  <2>1. \A a, b \in S : rank[a] = rank[b] => a = b
    <3> SUFFICES ASSUME NEW a \in S, NEW b \in S, rank[a] = rank[b], a # b PROVE FALSE
      OBVIOUS
    <3>1. rank[a] < rank[b] \/ rank[b] < rank[a]
      BY <1>3 DEF Strict
    <3>2. rank[a] \in Nat /\ rank[b] \in Nat
      BY <1>2
    <3> HIDE DEF rank
    <3> QED BY <3>1, <3>2
  <2>2. rank \in [S -> 0..(n - 1)]
    BY <1>4
  <2> HIDE DEF rank, n
  <2> QED BY <2>1, <2>2 DEF Injection, IsInjective
<1>6. \A i \in 0..(n - 1) : \E r \in S : rank[r] = i
  <2>1. IsFiniteSet(0..(n - 1)) /\ Cardinality(0..(n - 1)) = n
    BY <1>1, FS_Interval
  <2>2. rank \in Surjection(S, 0..(n - 1))
    BY <1>5, <2>1, FS_Injection
  <2> QED BY <2>2 DEF Surjection
<1> DEFINE at(i) == CHOOSE r \in S : Cardinality(Under(r)) = i - 1
           R == [i \in 1..n |-> at(i)]
<1>a. R = InOrder(S, before)
  BY DEF InOrder
<1>b. \A i \in 1..n : at(i) \in S /\ rank[at(i)] = i - 1
  <2>1. \A i \in 1..n : i - 1 \in 0..(n - 1)
    BY <1>1
  <2>2. \A r \in S : rank[r] = Cardinality(Under(r))
    OBVIOUS
  <2> HIDE DEF rank, Under
  <2>3. \A i \in 1..n : \E r \in S : Cardinality(Under(r)) = i - 1
    BY <1>6, <2>1, <2>2
  <2> QED BY <2>2, <2>3
<1> HIDE DEF at, rank, n
<1>7. DOMAIN R = 1..n /\ \A i \in 1..n : R[i] \in S /\ rank[R[i]] = i - 1
  BY <1>b
<1>8. R \in Seq(S) /\ Len(R) = n
  <2>1. R \in [1..n -> S]
    BY <1>b
  <2> QED BY <1>1, <2>1
<1> HIDE DEF R
<1>9. \A r \in S : \E i \in DOMAIN R : R[i] = r
  <2> SUFFICES ASSUME NEW r \in S PROVE \E i \in DOMAIN R : R[i] = r
    OBVIOUS
  <2>1. rank[r] + 1 \in 1..n /\ (rank[r] + 1) - 1 = rank[r]
    BY <1>1, <1>4
  <2>2. rank[R[rank[r] + 1]] = rank[r] /\ R[rank[r] + 1] \in S
    BY <1>7, <2>1
  <2>3. R[rank[r] + 1] = r
    BY <1>5, <2>2 DEF Injection, IsInjective
  <2> QED BY <1>7, <2>1, <2>3
<1>10. \A i, j \in DOMAIN R : i < j => <<R[i], R[j]>> \in before
  <2> SUFFICES ASSUME NEW i \in 1..n, NEW j \in 1..n, i < j PROVE <<R[i], R[j]>> \in before
    BY <1>7
  <2>1. R[i] \in S /\ R[j] \in S /\ rank[R[i]] = i - 1 /\ rank[R[j]] = j - 1
    BY <1>7
  <2>2. R[i] # R[j] /\ ~(rank[R[j]] < rank[R[i]])
    BY <1>1, <2>1
  <2> QED BY <1>3, <2>1, <2>2 DEF Strict
<1> QED BY <1>8, <1>9, <1>10, <1>a DEF Listing, n

LEMMA LeastOfTwo == ASSUME NEW a \in Nat, NEW b \in Nat
                    PROVE  Min({a, b}) = IF a <= b THEN a ELSE b
  BY DEF Min

\* The first of a sequence, cut at a limit.
LEMMA CutIsPrefix ==
  ASSUME NEW S, NEW s \in Seq(S), NEW limit \in Nat \cup {None}
  PROVE  /\ Cut(s, limit) \in Seq(S) /\ Len(Cut(s, limit)) <= Len(s)
         /\ \A i \in 1..Len(Cut(s, limit)) : Cut(s, limit)[i] = s[i]
         /\ limit # None => Len(Cut(s, limit)) <= limit
         /\ (limit = None \/ Len(Cut(s, limit)) # limit) => Cut(s, limit) = s
<1>1. CASE limit = None \/ Len(s) <= limit
  BY <1>1 DEF Cut, None
<1>2. CASE ~(limit = None \/ Len(s) <= limit)
  <2>1. Cut(s, limit) = SubSeq(s, 1, limit) /\ limit \in Nat /\ limit < Len(s)
    BY <1>2 DEF Cut
  <2>2. \A i \in 1..limit : s[i] \in S
    BY <2>1
  <2>3. /\ SubSeq(s, 1, limit) \in Seq(S)
        /\ Len(SubSeq(s, 1, limit)) = limit
        /\ \A i \in 1..limit : SubSeq(s, 1, limit)[i] = s[i]
    BY <2>1, <2>2
  <2> QED BY <1>2, <2>1, <2>3
<1> QED BY <1>1, <1>2

LEMMA FirstWindow ==
  ASSUME NEW S, NEW R \in Seq(S), NEW size \in Nat
  PROVE  LET b == Window(R, 0, size)
         IN /\ b \in Seq(S) /\ Len(b) = IF Len(R) <= size THEN Len(R) ELSE size
            /\ \A i \in 1..Len(b) : b[i] = R[i]
<1> DEFINE m == IF Len(R) <= size THEN Len(R) ELSE size
<1>1. m \in Nat /\ m <= Len(R) /\ Window(R, 0, size) = SubSeq(R, 1, m)
  BY LeastOfTwo DEF Window
<1>2. \A i \in 1..m : R[i] \in S
  BY <1>1
<1>3. /\ SubSeq(R, 1, m) \in Seq(S)
      /\ Len(SubSeq(R, 1, m)) = m
      /\ \A i \in 1..m : SubSeq(R, 1, m)[i] = R[i]
  BY <1>1, <1>2
<1> QED BY <1>1, <1>3

-----------------------------------------------------------------------------
(* The table, the view and the export.                                      *)

Records == Start \cup Versions
Limit == Nat \cup {None}
Tidy(S) ==
  /\ S \subseteq Records /\ IsFiniteSet(S)
  /\ \A r, o \in S : r.record_id = o.record_id => r = o

Exporting(x) ==
  x \in [pc : {"stream", "done"}, q : Question, scope : Filter, limit : Limit, room : Limit,
         where : {x.where}, cursor : Limit, sent : Seq(Records), steady : SUBSET Records]

IsSent(r, x) == \E i \in DOMAIN x.sent : x.sent[i] = r
Descends(s) == \A i, j \in DOMAIN s : i < j => s[i].record_id > s[j].record_id

\* What was sent lies at or above the cursor, and so does no other steady row.
SentTo(x) ==
  /\ x.cursor = None => x.sent = <<>>
  /\ x.cursor # None => \A i \in DOMAIN x.sent : x.sent[i].record_id >= x.cursor
  /\ \A r \in x.steady : x.cursor # None /\ r.record_id >= x.cursor => IsSent(r, x)

SentAll(x) ==
  (\A n \in {x.limit, x.room} : n = None \/ Len(x.sent) # n) => \A r \in x.steady : IsSent(r, x)

GoodExport(x) ==
  /\ Exporting(x) /\ Descends(x.sent) /\ x.steady \subseteq Selected(rows, x.where)
  /\ x.pc = "stream" => SentTo(x)
  /\ x.pc = "done" => SentAll(x)

Edited == [pc : {"columns", "insert", "roles", "grant", "invalidate"}, new : Edits]
Editing == editor = Idle \/ editor \in Edited

ExportInv ==
  Tidy(rows) /\ view \in ViewRow /\ Editing /\ (export # Idle => GoodExport(export))

LEMMA SelectedOf ==
  ASSUME NEW S, NEW w
  PROVE  /\ Selected(S, w) \subseteq S
         /\ \A T : \A r \in S \cap T : r \in Selected(S, w) <=> r \in Selected(T, w)
BY DEF Selected

LEMMA Downwards ==
  ASSUME NEW S, Tidy(S)
  PROVE  LET before == {p \in S \X S : p[1].record_id > p[2].record_id}
             R == InOrder(S, before)
         IN /\ R \in Seq(S) /\ \A r \in S : \E i \in DOMAIN R : R[i] = r
            /\ Descends(R)
<1> DEFINE before == {p \in S \X S : p[1].record_id > p[2].record_id}
           R == InOrder(S, before)
<1>1. \A a, b \in S : <<a, b>> \in before <=> a.record_id > b.record_id
  OBVIOUS
<1>2. \A a \in S : a.record_id \in Nat
  BY TableAssumption DEF Tidy, Records
<1> HIDE DEF before
<1>3. Strict(S, before)
  BY <1>1, <1>2 DEF Strict, Tidy
<1>4. Listing(R, S, before)
  BY <1>3, InOrderLists
<1>5. R \in Seq(S)
  BY <1>4 DEF Listing
<1> HIDE DEF R
<1>6. \A i \in DOMAIN R : R[i] \in S
  BY <1>5
<1>7. Descends(R)
  BY <1>1, <1>4, <1>6 DEF Listing, Descends
<1> QED BY <1>4, <1>5, <1>7 DEF Listing, before, R

\* A chunk: the rows sent so far and the next ones, cut where an export ends.
LEMMA ChunkKeeps ==
  ASSUME Tidy(rows), GoodExport(export), StreamChunk
  PROVE  GoodExport(export)'
<1> DEFINE left == {r \in Selected(rows, export.where) : After(export.cursor, r)}
           R == InOrder(left, {p \in left \X left : p[1].record_id > p[2].record_id})
           batch == Window(R, 0, ChunkSize)
           all == export.sent \o batch
           byView == Cut(all, export.limit)
           sent == Cut(byView, export.room)
           more == /\ Len(batch) = ChunkSize
                   /\ export.limit # None => Len(sent) < export.limit
                   /\ export.room # None => Len(sent) < export.room
           cursor == IF batch = <<>> THEN export.cursor ELSE Last(batch).record_id
<1>0. export' = [export EXCEPT !.sent = sent, !.cursor = cursor,
                               !.pc = IF more THEN "stream" ELSE "done"]
      /\ export.pc = "stream" /\ UNCHANGED rows
  BY DEF StreamChunk
<1>1. Exporting(export) /\ SentTo(export)
  BY <1>0 DEF GoodExport
<1>2. /\ export.limit \in Limit /\ export.room \in Limit /\ export.cursor \in Limit
      /\ export.sent \in Seq(Records) /\ export.steady \subseteq Records
  BY <1>1 DEF Exporting
<1>3. left \subseteq rows /\ left \subseteq Records /\ Tidy(left)
  <2>1. left \subseteq rows
    BY SelectedOf
  <2> QED BY <2>1, PartOf DEF Tidy
<1>4. R \in Seq(left) /\ Descends(R) /\ \A r \in left : \E i \in DOMAIN R : R[i] = r
  BY <1>3, Downwards
<1>5. ChunkSize \in Nat /\ ChunkSize # 0
  BY LimitsAssumption
<1> HIDE DEF R
<1>6. /\ batch \in Seq(left) /\ Len(batch) = IF Len(R) <= ChunkSize THEN Len(R) ELSE ChunkSize
      /\ \A i \in 1..Len(batch) : batch[i] = R[i]
  BY <1>4, <1>5, FirstWindow
<1> HIDE DEF batch
<1>7. \A r \in left : r.record_id \in Nat /\ After(export.cursor, r)
  BY <1>3, TableAssumption DEF Records
<1>8. batch \in Seq(Records) /\ Len(batch) \in Nat /\ Len(export.sent) \in Nat
      /\ Len(R) \in Nat /\ DOMAIN R = 1..Len(R)
  BY <1>2, <1>3, <1>4, <1>6
<1>9. /\ all \in Seq(Records) /\ Len(all) = Len(export.sent) + Len(batch)
      /\ \A i \in 1..Len(all) : all[i] = IF i <= Len(export.sent) THEN export.sent[i]
                                         ELSE batch[i - Len(export.sent)]
  BY <1>2, <1>8, ConcatProperties
<1> HIDE DEF all, left
<1>10. Descends(all)
  <2> SUFFICES ASSUME NEW i \in 1..Len(all), NEW j \in 1..Len(all), i < j
               PROVE  all[i].record_id > all[j].record_id
    BY <1>9 DEF Descends
  <2>1. CASE j <= Len(export.sent)
    <3>1. all[i] = export.sent[i] /\ all[j] = export.sent[j]
          /\ i \in DOMAIN export.sent /\ j \in DOMAIN export.sent
      BY <1>2, <1>8, <1>9, <2>1
    <3> QED BY <3>1 DEF GoodExport, Descends
  <2>2. CASE ~(i <= Len(export.sent))
    <3>a. Len(all) \in Nat /\ ~(j <= Len(export.sent)) /\ i \in Nat /\ j \in Nat
      BY <1>8, <1>9, <2>2
    <3>b. all[i] = batch[i - Len(export.sent)] /\ all[j] = batch[j - Len(export.sent)]
      BY <1>9, <2>2, <3>a
    <3>c. /\ i - Len(export.sent) \in 1..Len(batch) /\ j - Len(export.sent) \in 1..Len(batch)
          /\ i - Len(export.sent) < j - Len(export.sent)
      BY <1>8, <1>9, <2>2, <3>a
    <3>1. /\ i - Len(export.sent) \in 1..Len(batch) /\ j - Len(export.sent) \in 1..Len(batch)
          /\ i - Len(export.sent) < j - Len(export.sent)
          /\ all[i] = batch[i - Len(export.sent)] /\ all[j] = batch[j - Len(export.sent)]
      BY <3>b, <3>c
    <3>2. Len(batch) <= Len(R)
      BY <1>5, <1>6, <1>8
    <3>3. i - Len(export.sent) \in DOMAIN R /\ j - Len(export.sent) \in DOMAIN R
      BY <1>8, <3>1, <3>2
    <3> QED BY <1>4, <1>6, <3>1, <3>3 DEF Descends
  <2>3. CASE i <= Len(export.sent) /\ ~(j <= Len(export.sent))
    <3>1. all[i] = export.sent[i] /\ i \in DOMAIN export.sent
      BY <1>2, <1>8, <1>9, <2>3
    <3>2. j - Len(export.sent) \in 1..Len(batch) /\ all[j] = batch[j - Len(export.sent)]
      BY <1>8, <1>9, <2>3
    <3>3. all[j] \in left
      BY <1>6, <3>2
    <3>4. export.sent # <<>>
      BY <1>2, <3>1
    <3>5. export.cursor \in Nat /\ export.sent[i].record_id >= export.cursor
      BY <1>1, <1>2, <3>1, <3>4 DEF SentTo, Limit
    <3>6. all[j].record_id < export.cursor /\ all[j].record_id \in Nat
      BY <1>7, <3>3, <3>5 DEF After, None
    <3>7. export.sent[i].record_id \in Nat
      BY <1>2, <3>1, TableAssumption DEF Records
    <3> QED BY <3>1, <3>5, <3>6, <3>7
  <2> QED BY <2>1, <2>2, <2>3
<1>11. /\ byView \in Seq(Records) /\ Len(byView) <= Len(all)
       /\ \A i \in 1..Len(byView) : byView[i] = all[i]
       /\ export.limit # None => Len(byView) <= export.limit
       /\ (export.limit = None \/ Len(byView) # export.limit) => byView = all
  BY <1>2, <1>9, CutIsPrefix DEF Limit
<1> HIDE DEF byView
<1>12. /\ sent \in Seq(Records) /\ Len(sent) <= Len(byView)
       /\ \A i \in 1..Len(sent) : sent[i] = byView[i]
       /\ export.room # None => Len(sent) <= export.room
       /\ (export.room = None \/ Len(sent) # export.room) => sent = byView
  BY <1>2, <1>11, CutIsPrefix DEF Limit
<1> HIDE DEF sent
<1>13. Descends(sent)
  <2>1. DOMAIN sent = 1..Len(sent) /\ DOMAIN all = 1..Len(all) /\ Len(sent) \in Nat
        /\ Len(all) \in Nat /\ Len(byView) \in Nat
    BY <1>9, <1>11, <1>12
  <2>2. \A i \in DOMAIN sent : i \in DOMAIN all /\ sent[i] = all[i]
    BY <1>11, <1>12, <2>1
  <2> QED BY <1>10, <2>2 DEF Descends
\* Unless it is cut, what was sent is all that was and the batch.
<1>14. (\A n \in {export.limit, export.room} : n = None \/ Len(sent) # n) => sent = all
  BY <1>11, <1>12
<1>15. cursor \in Limit
  <2>1. CASE batch = <<>>
    BY <1>2, <2>1
  <2>2. CASE batch # <<>>
    <3>1. Len(batch) \in DOMAIN batch /\ Last(batch) = batch[Len(batch)]
      BY <1>8, <2>2 DEF Last
    <3> QED BY <1>6, <1>7, <2>2, <3>1 DEF Limit
  <2> QED BY <2>1, <2>2
<1>16. ASSUME sent = all, NEW r \in export.steady,
              \E i \in 1..Len(batch) : batch[i] = r
       PROVE  \E i \in DOMAIN sent : sent[i] = r
  <2>1. PICK i \in 1..Len(batch) : batch[i] = r
    BY <1>16
  <2>2. i + Len(export.sent) \in 1..Len(all) /\ ~(i + Len(export.sent) <= Len(export.sent))
        /\ (i + Len(export.sent)) - Len(export.sent) = i
    BY <1>8, <1>9
  <2>3. all[i + Len(export.sent)] = r
    BY <1>9, <2>1, <2>2
  <2> QED BY <1>9, <1>16, <2>2, <2>3
<1>17. ASSUME sent = all, NEW r \in export.steady, IsSent(r, export)
       PROVE  \E i \in DOMAIN sent : sent[i] = r
  <2>1. PICK i \in DOMAIN export.sent : export.sent[i] = r
    BY <1>17 DEF IsSent
  <2>2. i \in 1..Len(all) /\ all[i] = r
    BY <1>2, <1>8, <1>9, <2>1
  <2> QED BY <1>9, <1>17, <2>2
<1>18. ASSUME NEW r \in export.steady, ~IsSent(r, export)
       PROVE  \E i \in DOMAIN R : R[i] = r
  <2>1. r \in Selected(rows, export.where) /\ r.record_id \in Nat
    BY <1>2, TableAssumption DEF GoodExport, Records
  <2>2. After(export.cursor, r)
    BY <1>1, <1>2, <1>18, <2>1 DEF SentTo, After, Limit, None
  <2>3. r \in left
    BY <2>1, <2>2 DEF left
  <2> QED BY <1>4, <2>3
<1> DEFINE x == [export EXCEPT !.sent = sent, !.cursor = cursor,
                               !.pc = IF more THEN "stream" ELSE "done"]
<1>19. /\ x \in [pc : {"stream", "done"}, q : Question, scope : Filter, limit : Limit,
                 room : Limit, where : {x.where}, cursor : Limit, sent : Seq(Records),
                 steady : SUBSET Records]
       /\ x.sent = sent /\ x.cursor = cursor /\ x.steady = export.steady
       /\ x.where = export.where /\ x.limit = export.limit /\ x.room = export.room
       /\ x.pc = IF more THEN "stream" ELSE "done"
  <2> HIDE DEF more, cursor
  <2> QED BY <1>1, <1>12, <1>15 DEF Exporting
<1>20. x.pc = "stream" => SentTo(x)
  <2> SUFFICES ASSUME more PROVE SentTo(x)
    BY <1>19
  <2>1. sent = all /\ batch # <<>> /\ Len(batch) \in 1..Len(batch)
    BY <1>5, <1>8, <1>14
  <2>2. Last(batch) = batch[Len(batch)] /\ batch[Len(batch)] = R[Len(batch)]
        /\ Len(batch) \in DOMAIN R
    BY <1>5, <1>6, <1>8, <2>1 DEF Last
  <2>3. cursor = R[Len(batch)].record_id /\ R[Len(batch)] \in left /\ cursor \in Nat
    BY <1>4, <1>7, <2>1, <2>2
  <2>4. \A i \in DOMAIN sent : sent[i].record_id >= cursor
    <3> HIDE DEF x, cursor, more
    <3>a. sent = all /\ DOMAIN all = 1..Len(all)
      BY <1>9, <2>1
    <3> SUFFICES ASSUME NEW i \in 1..Len(all) PROVE all[i].record_id >= cursor
      BY <3>a
    <3>b. /\ Len(all) \in 1..Len(all) /\ i <= Len(all) /\ ~(Len(all) <= Len(export.sent))
          /\ Len(all) - Len(export.sent) = Len(batch)
      BY <1>8, <1>9, <2>1
    <3>1. Len(all) \in 1..Len(all) /\ all[Len(all)] = batch[Len(batch)] /\ i <= Len(all)
      BY <1>9, <3>b
    <3>2. all[Len(all)].record_id = cursor
      BY <2>2, <2>3, <3>1
    <3>3. i = Len(all) \/ i < Len(all)
      BY <1>8, <1>9
    <3>4. DOMAIN all = 1..Len(all) /\ all[i].record_id \in Nat
      BY <1>9, TableAssumption DEF Records
    <3>5. CASE i = Len(all)
      BY <2>3, <3>2, <3>5
    <3>6. CASE i < Len(all)
      <4>1. all[i].record_id > all[Len(all)].record_id
        BY <1>10, <3>1, <3>4, <3>6 DEF Descends
      <4> QED BY <2>3, <3>2, <3>4, <4>1
    <3> QED BY <3>3, <3>5, <3>6
  <2>5. ASSUME NEW r \in export.steady, r.record_id >= cursor
        PROVE  \E i \in DOMAIN sent : sent[i] = r
    <3>1. CASE IsSent(r, export)
      BY <1>17, <2>1, <3>1
    <3>2. CASE ~IsSent(r, export)
      <4>1. PICK i \in DOMAIN R : R[i] = r
        BY <1>18, <3>2
      <4>2. r.record_id \in Nat
        BY <1>2, TableAssumption DEF Records
      <4>3. ~(Len(batch) < i)
        BY <1>4, <2>2, <2>3, <2>5, <4>1, <4>2 DEF Descends
      <4>4. i \in 1..Len(batch) /\ batch[i] = r
        BY <1>6, <1>8, <4>1, <4>3
      <4> QED BY <1>16, <2>1, <4>4
    <3> QED BY <3>1, <3>2
  <2> HIDE DEF x, cursor, more
  <2>6. cursor # None
    BY <2>3 DEF None
  <2> QED BY <1>19, <2>4, <2>5, <2>6 DEF SentTo, IsSent
<1>21. x.pc = "done" => SentAll(x)
  <2> SUFFICES ASSUME ~more, \A n \in {export.limit, export.room} : n = None \/ Len(sent) # n,
                      NEW r \in export.steady
               PROVE  \E i \in DOMAIN sent : sent[i] = r
    <3> HIDE DEF x, more, cursor
    <3> QED BY <1>19 DEF SentAll, IsSent
  <2>1. sent = all
    BY <1>14
  <2>2. Len(batch) # ChunkSize
    <3>1. export.limit # None => Len(sent) < export.limit
      BY <1>2, <1>11, <1>12, <2>1, <1>14 DEF Limit
    <3>2. export.room # None => Len(sent) < export.room
      BY <1>2, <1>12 DEF Limit
    <3> QED BY <3>1, <3>2
  <2>3. Len(batch) = Len(R)
    BY <1>6, <2>2
  <2>4. CASE IsSent(r, export)
    BY <1>17, <2>1, <2>4
  <2>5. CASE ~IsSent(r, export)
    <3>1. PICK i \in DOMAIN R : R[i] = r
      BY <1>18, <2>5
    <3>2. i \in 1..Len(batch) /\ batch[i] = r
      BY <1>6, <1>8, <2>3, <3>1
    <3> QED BY <1>16, <2>1, <3>2
  <2> QED BY <2>4, <2>5
<1>22. x.steady \subseteq Selected(rows, x.where) /\ Descends(x.sent)
  BY <1>13, <1>19 DEF GoodExport
<1>23. export' = x
  BY <1>0
<1> HIDE DEF x
<1> QED BY <1>0, <1>19, <1>20, <1>21, <1>22, <1>23 DEF GoodExport, Exporting, SentTo, SentAll, IsSent, Selected

\* A write takes out of the steady rows the one it replaces.
LEMMA WriteKeeps ==
  ASSUME ExportInv, NEW r \in Versions, Write(r)
  PROVE  ExportInv'
<1> DEFINE others(S) == {o \in S : o.record_id # r.record_id}
<1>1. rows' = others(rows) \cup {r} /\ UNCHANGED <<view, editor>>
  BY DEF Write
<1>2. Tidy(rows')
  <2>1. others(rows) \subseteq rows /\ r \in Records
    BY DEF Records
  <2>2. IsFiniteSet(others(rows))
    BY <2>1, PartOf DEF ExportInv, Tidy
  <2>3. IsFiniteSet(rows')
    BY <1>1, <2>2, FS_AddElement
  <2> QED BY <1>1, <2>1, <2>3 DEF ExportInv, Tidy
<1>3. CASE export = Idle
  BY <1>1, <1>2, <1>3 DEF Write, ExportInv, Editing
<1>4. CASE export # Idle
  <2>1. GoodExport(export) /\ export' = [export EXCEPT !.steady = others(@)]
    BY <1>4 DEF ExportInv, Write
  <2>2. PICK w : w = export.where
    OBVIOUS
  <2>3. export \in [pc : {"stream", "done"}, q : Question, scope : Filter, limit : Limit,
                    room : Limit, where : {w}, cursor : Limit, sent : Seq(Records),
                    steady : SUBSET Records]
    BY <2>1, <2>2 DEF GoodExport, Exporting
  <2>4. /\ export' \in [pc : {"stream", "done"}, q : Question, scope : Filter, limit : Limit,
                    room : Limit, where : {w}, cursor : Limit, sent : Seq(Records),
                    steady : SUBSET Records]
        /\ export'.pc = export.pc /\ export'.sent = export.sent /\ export'.cursor = export.cursor
        /\ export'.limit = export.limit /\ export'.room = export.room
        /\ export'.where = w /\ export'.steady = others(export.steady)
    BY <2>1, <2>3
  <2>5. others(export.steady) \subseteq Selected(rows', w)
    <3> SUFFICES ASSUME NEW o \in export.steady, o.record_id # r.record_id
                 PROVE  o \in Selected(rows', w)
      OBVIOUS
    <3>1. o \in Selected(rows, w) /\ Selected(rows, w) \subseteq rows
      BY <2>1, <2>2, SelectedOf DEF GoodExport
    <3>2. o \in rows \cap rows'
      BY <1>1, <3>1
    <3>3. \A T : \A p \in rows \cap T : p \in Selected(rows, w) <=> p \in Selected(T, w)
      BY SelectedOf
    <3> QED BY <3>1, <3>2, <3>3
  <2>6. others(export.steady) \subseteq export.steady
    OBVIOUS
  <2> HIDE DEF others
  <2>7. SentTo(export) => SentTo(export')
    BY <2>4, <2>6 DEF SentTo, IsSent
  <2>8. SentAll(export) => SentAll(export')
    BY <2>4, <2>6 DEF SentAll, IsSent
  <2>9. Exporting(export')
    BY <2>4 DEF Exporting
  <2>10. GoodExport(export)'
    <3>1. Exporting(export)'
      BY <2>9 DEF Exporting
    <3>2. (export.pc = "stream" => SentTo(export))'
      BY <2>1, <2>4, <2>7 DEF GoodExport, SentTo, IsSent
    <3>3. (export.pc = "done" => SentAll(export))'
      BY <2>1, <2>4, <2>8 DEF GoodExport, SentAll, IsSent
    <3>4. Descends(export'.sent) /\ export'.steady \subseteq Selected(rows', export'.where)
      BY <2>1, <2>4, <2>5 DEF GoodExport
    <3> QED BY <3>1, <3>2, <3>3, <3>4 DEF GoodExport
  <2> QED BY <1>1, <1>2, <2>10 DEF ExportInv, Editing
<1> QED BY <1>3, <1>4

\* An export starts with nothing sent, its steady rows the ones it selects.
LEMMA StartKeeps ==
  ASSUME ExportInv, NEW q \in Queries, NEW format, StartExport(q, format)
  PROVE  ExportInv'
<1>1. PICK w : Streaming(q, format, w)
  BY DEF StartExport
<1>2. export' = [pc |-> "stream", q |-> q, scope |-> view.scope, limit |-> view.limit,
                 room |-> IF format = "pdf" THEN PdfRowLimit ELSE None,
                 where |-> w, cursor |-> None, sent |-> <<>>, steady |-> Selected(rows, w)]
  BY <1>1 DEF Streaming
<1>3. UNCHANGED <<rows, view, editor>>
  BY DEF StartExport
<1>4. view.scope \in Filter /\ view.limit \in Limit /\ q \in Question
  BY AskedAssumption DEF ExportInv, ViewRow, Limit
<1>5. (IF format = "pdf" THEN PdfRowLimit ELSE None) \in Limit /\ None \in Limit
  BY LimitsAssumption DEF Limit
<1>6. Selected(rows, w) \subseteq rows /\ rows \subseteq Records
  BY SelectedOf DEF ExportInv, Tidy
<1>7. /\ export' \in [pc : {"stream", "done"}, q : Question, scope : Filter, limit : Limit,
                      room : Limit, where : {w}, cursor : Limit, sent : Seq(Records),
                      steady : SUBSET Records]
      /\ export'.where = w /\ export'.pc = "stream" /\ export'.sent = <<>>
      /\ export'.cursor = None /\ export'.steady = Selected(rows, w)
  BY <1>2, <1>4, <1>5, <1>6
<1>8. GoodExport(export)'
  BY <1>3, <1>7 DEF GoodExport, Exporting, SentTo, Descends, Selected
<1> QED BY <1>3, <1>8 DEF ExportInv, Editing, Tidy

\* The other steps leave the rows and the export; an edit leaves a view a view.
LEMMA EditKeeps ==
  ASSUME ExportInv,
         \/ \E new \in Edits : updateView(new)
         \/ setColumns \/ setAccessRoles
         \/ \E c \in Toggled : upsertColumn(c) \/ deleteColumn(c)
  PROVE  view' \in ViewRow /\ Editing' /\ UNCHANGED <<rows, export>>
<1>1. CASE \E new \in Edits : updateView(new)
  <2>1. PICK new \in Edits : updateView(new)
    BY <1>1
  <2>2. new \in ViewRow /\ view \in ViewRow
    BY AskedAssumption DEF ExportInv
  <2>3. view' \in ViewRow
    BY <2>1, <2>2 DEF updateView, ViewRow
  <2>4. editor' \in Edited
    BY <2>1 DEF updateView, Edited
  <2> QED BY <2>1, <2>3, <2>4 DEF updateView, Editing
<1>2. CASE setColumns
  <2>1. editor \in Edited
    BY <1>2 DEF setColumns, ExportInv, Editing, Idle
  <2>2. editor.new \in ViewRow /\ view \in ViewRow
    BY <2>1, AskedAssumption DEF ExportInv, Edited
  <2>3. editor.new.columns \subseteq STRING /\ view.columns \subseteq STRING
    BY <2>2 DEF ViewRow
  <2>4. /\ view' \in ViewRow
        /\ \/ UNCHANGED editor
           \/ \E step \in {"insert", "roles"} : editor' = [editor EXCEPT !.pc = step]
    <3>1. CASE view' = [view EXCEPT !.columns = {}] /\ editor' = [editor EXCEPT !.pc = "insert"]
      BY <2>2, <3>1 DEF ViewRow
    <3>2. CASE /\ \E c \in editor.new.columns : view' = [view EXCEPT !.columns = @ \cup {c}]
               /\ UNCHANGED editor
      BY <2>2, <2>3, <3>2 DEF ViewRow
    <3>3. CASE UNCHANGED view /\ editor' = [editor EXCEPT !.pc = "roles"]
      BY <2>2, <3>3
    <3> QED BY <1>2, <3>1, <3>2, <3>3 DEF setColumns
  <2>5. editor' \in Edited
    BY <2>1, <2>4 DEF Edited
  <2> QED BY <1>2, <2>4, <2>5 DEF setColumns, Editing
<1>3. CASE setAccessRoles
  <2>1. editor \in Edited
    BY <1>3 DEF setAccessRoles, ExportInv, Editing, Idle
  <2>2. editor.new \in ViewRow /\ view \in ViewRow
    BY <2>1, AskedAssumption DEF ExportInv, Edited
  <2>3. editor.new.granted \in BOOLEAN
    BY <2>2 DEF ViewRow
  <2>4. view' \in ViewRow
    BY <1>3, <2>2, <2>3 DEF setAccessRoles, ViewRow
  <2>5. editor' \in Edited
    BY <1>3, <2>1 DEF setAccessRoles, Edited
  <2> QED BY <1>3, <2>4, <2>5 DEF setAccessRoles, Editing
<1>4. CASE \E c \in Toggled : upsertColumn(c) \/ deleteColumn(c)
  <2>1. PICK c \in Toggled : upsertColumn(c) \/ deleteColumn(c)
    BY <1>4
  <2>2. c \in STRING /\ view \in ViewRow
    BY AskedAssumption DEF ExportInv
  <2>3. view' \in ViewRow
    BY <2>1, <2>2 DEF upsertColumn, deleteColumn, ViewRow
  <2> QED BY <2>1, <2>3 DEF upsertColumn, deleteColumn, ExportInv, Editing
<1> QED BY <1>1, <1>2, <1>3, <1>4

LEMMA NextExport == ASSUME ExportInv, [Next]_vars PROVE ExportInv'
<1>1. CASE UNCHANGED <<rows, view, export, editor>>
  BY <1>1 DEF ExportInv, Tidy, Editing, GoodExport, Exporting, SentTo, SentAll, IsSent, Selected
<1>2. ASSUME NEW q \in Queries, Ask(q) PROVE ExportInv'
  BY <1>1, <1>2 DEF Ask
<1>3. CASE ReadContext \/ GetCount \/ KeepCount \/ GetPage \/ Answer \/ Expire
  BY <1>1, <1>3 DEF ReadContext, GetCount, KeepCount, GetPage, Answer, Expire
<1>4. CASE StreamChunk
  <2>1. export # Idle
    BY <1>4 DEF StreamChunk, Idle
  <2>2. GoodExport(export)'
    BY <1>4, <2>1, ChunkKeeps DEF ExportInv
  <2>3. UNCHANGED <<rows, view, editor>>
    BY <1>4 DEF StreamChunk
  <2> QED BY <2>2, <2>3 DEF ExportInv, Tidy, Editing
<1>5. CASE CloseExport
  BY <1>5 DEF CloseExport, ExportInv, Tidy, Editing
<1>6. CASE SyncDone
  BY <1>1, <1>6 DEF SyncDone
<1>7. CASE EditDone \/ EditFails
  BY <1>7 DEF EditDone, EditFails, ExportInv, Editing, Tidy, GoodExport, Exporting, SentTo, SentAll,
              IsSent, Selected
<1>8. CASE \/ \E new \in Edits : updateView(new)
           \/ setColumns \/ setAccessRoles
           \/ \E c \in Toggled : upsertColumn(c) \/ deleteColumn(c)
  BY <1>8, EditKeeps DEF ExportInv, Tidy, GoodExport, Exporting, SentTo, SentAll, IsSent, Selected
<1>9. CASE UNCHANGED vars
  BY <1>1, <1>9 DEF vars
<1> QED BY <1>2, <1>3, <1>4, <1>5, <1>6, <1>7, <1>8, <1>9, WriteKeeps, StartKeeps DEF Next

\* Whatever is written, asked and edited meanwhile, an export has sent every steady
\* row at or above its cursor, and none twice (streamFindings).
THEOREM ExportInvariant == Spec => []ExportInv
<1>1. Init => ExportInv
  BY TableAssumption, AskedAssumption DEF Init, ExportInv, Tidy, Records, Editing
<1> QED BY <1>1, NextExport, PTL DEF Spec

\* However many rows, chunks and writes there are, an export that is read to its end
\* has each row once, and every row that matched all along unless it was cut at the
\* view's N or the limit of a pdf (streamFindings, capStream, streamPdf).
THEOREM ExportsAreOnce == Spec => []ExportOnce
<1>1. ExportInv => ExportOnce
  <2> SUFFICES ASSUME ExportInv, export # Idle PROVE ExportOnce
    BY DEF ExportOnce
  <2> DEFINE ids == [i \in DOMAIN export.sent |-> export.sent[i].record_id]
             cut == \E n \in {export.limit, export.room} : n # None /\ Len(export.sent) = n
  <2>1. GoodExport(export)
    BY DEF ExportInv
  <2>2. \A i, j \in DOMAIN ids : i < j => ids[i] > ids[j]
    BY <2>1 DEF GoodExport, Descends
  <2>3. export.pc = "done" /\ ~cut => export.steady \subseteq ToSet(export.sent)
    BY <2>1 DEF GoodExport, SentAll, IsSent, ToSet
  <2> QED BY <2>2, <2>3 DEF ExportOnce
<1> QED BY <1>1, ExportInvariant, PTL

-----------------------------------------------------------------------------
(* Tests of a search, any of which is enough.                               *)

Tests(s) == s \in Seq(SqlWord) /\ s # <<>> /\ \A i \in 1..Len(s) : s[i].type = "TEST"
OrWords(s) ==
  [i \in 1..(2 * Len(s) - 1) |-> IF i % 2 = 1 THEN s[(i + 1) \div 2] ELSE Tok("OR")]
AnyOf(h, s) == \E i \in 1..Len(s) : Of(h, <<s[i]>>) = 2

LEMMA Halves ==
  ASSUME NEW i \in Nat, i % 2 = 1
  PROVE  \E k \in Nat : i = 2 * k + 1 /\ (i + 1) \div 2 = k + 1
<1>1. PICK k \in Nat : k = i \div 2
  OBVIOUS
<1>2. i = 2 * k + 1
  BY <1>1
<1>3. (i + 1) \div 2 = k + 1
  BY <1>2
<1> QED BY <1>2, <1>3

LEMMA OrWordsStep ==
  ASSUME NEW s, Tests(s), Len(s) > 1
  PROVE  /\ Tests(Tail(s)) /\ Len(Tail(s)) = Len(s) - 1
         /\ OrWords(Tail(s)) \in Seq(SqlWord)
         /\ OrWords(s) = Infix(<<s[1]>>, "OR", OrWords(Tail(s)))
<1> DEFINE n == Len(s)
           t == Tail(s)
           v == OrWords(t)
           w == OrWords(s)
           x == Tok("OR")
<1>1. s \in Seq(SqlWord) /\ n \in Nat /\ n > 1 /\ \A i \in 1..n : s[i] \in SqlWord /\ s[i].type = "TEST"
  BY DEF Tests
<1>2. t \in Seq(SqlWord) /\ Len(t) = n - 1 /\ \A i \in 1..(n - 1) : t[i] = s[i + 1]
  BY <1>1
<1>3. Tests(t)
  <2>1. t # <<>>
    <3> HIDE DEF t
    <3>1. Len(t) # 0
      BY <1>1, <1>2
    <3> QED BY <3>1
  <2>2. \A i \in 1..(n - 1) : i + 1 \in 1..n
    BY <1>1
  <2>3. \A i \in 1..(n - 1) : t[i].type = "TEST"
    BY <1>1, <1>2, <2>2
  <2> HIDE DEF t, n
  <2> QED BY <1>2, <2>1, <2>3 DEF Tests
<1>4. x \in SqlWord
  BY MarkOf DEF Marks
<1>5. v = [i \in 1..(2 * (n - 1) - 1) |-> IF i % 2 = 1 THEN t[(i + 1) \div 2] ELSE x]
  BY <1>2 DEF OrWords
<1>6. w = [i \in 1..(2 * n - 1) |-> IF i % 2 = 1 THEN s[(i + 1) \div 2] ELSE x]
  BY DEF OrWords
<1>7. v \in Seq(SqlWord) /\ Len(v) = 2 * (n - 1) - 1
  <2>1. 2 * (n - 1) - 1 \in Nat
    BY <1>1
  <2>2. ASSUME NEW i \in 1..(2 * (n - 1) - 1), i % 2 = 1
        PROVE  (i + 1) \div 2 \in 1..(n - 1)
    BY <1>1, <2>2
  <2>3. v \in [1..(2 * (n - 1) - 1) -> SqlWord]
    <3> HIDE DEF v, t, x
    <3>1. \A i \in 1..(n - 1) : t[i] \in SqlWord
      BY <1>2
    <3> QED BY <1>4, <1>5, <2>2, <3>1
  <2> HIDE DEF v
  <2> QED BY <2>1, <2>3
<1> DEFINE a == <<s[1]>>
           b == <<x>>
           c == a \o b
           u == c \o v
<1> HIDE DEF v, t, x, w
<1>8. a \in Seq(SqlWord) /\ b \in Seq(SqlWord) /\ Len(a) = 1 /\ Len(b) = 1 /\ a[1] = s[1] /\ b[1] = x
  BY <1>1, <1>4
<1>9. c \in Seq(SqlWord) /\ Len(c) = 2 /\ c[1] = s[1] /\ c[2] = x
  <2> HIDE DEF a, b
  <2>1. /\ c \in Seq(SqlWord) /\ Len(c) = Len(a) + Len(b)
        /\ \A i \in 1..Len(a) + Len(b) : c[i] = IF i <= Len(a) THEN a[i] ELSE b[i - Len(a)]
    BY <1>8, ConcatProperties
  <2> QED BY <1>8, <2>1
<1> HIDE DEF c
<1>10. /\ u \in Seq(SqlWord) /\ Len(u) = 2 + Len(v)
       /\ \A i \in 1..2 + Len(v) : u[i] = IF i <= 2 THEN c[i] ELSE v[i - 2]
  <2>1. /\ u \in Seq(SqlWord) /\ Len(u) = Len(c) + Len(v)
        /\ \A i \in 1..Len(c) + Len(v) : u[i] = IF i <= Len(c) THEN c[i] ELSE v[i - Len(c)]
    BY <1>7, <1>9, ConcatProperties
  <2> QED BY <1>9, <2>1
<1> HIDE DEF u
<1>11. ASSUME NEW i \in 1..(2 * n - 1) PROVE u[i] = w[i]
  <2>0. i \in 1..2 + Len(v) /\ i \in Nat
    BY <1>1, <1>7
  <2>1. CASE i = 1
    <3>1. i % 2 = 1 /\ (i + 1) \div 2 = 1
      BY <2>1
    <3>2. w[i] = s[1]
      BY <1>6, <3>1
    <3> QED BY <1>9, <1>10, <2>0, <2>1, <3>2
  <2>2. CASE i = 2
    <3>1. i % 2 # 1
      BY <2>2
    <3>2. w[i] = x
      BY <1>6, <3>1
    <3> QED BY <1>9, <1>10, <2>0, <2>2, <3>2
  <2>3. CASE i > 2
    <3> DEFINE j == i - 2
    <3>1. j \in 1..(2 * (n - 1) - 1) /\ j % 2 = i % 2 /\ ~(i <= 2)
      BY <1>1, <2>3
    <3>2. u[i] = v[j]
      BY <1>10, <2>0, <3>1
    <3>3. CASE i % 2 = 1
      <4>1. (j + 1) \div 2 \in 1..(n - 1) /\ (j + 1) \div 2 + 1 = (i + 1) \div 2
        <5>1. j \in Nat /\ i \in Nat /\ j % 2 = 1
          BY <1>1, <2>3, <3>1, <3>3
        <5>2. PICK k \in Nat : i = 2 * k + 1 /\ (i + 1) \div 2 = k + 1
          BY <3>3, <5>1, Halves
        <5>3. PICK l \in Nat : j = 2 * l + 1 /\ (j + 1) \div 2 = l + 1
          BY <5>1, Halves
        <5>4. k = l + 1 /\ l + 1 \in 1..(n - 1)
          BY <1>1, <3>1, <5>2, <5>3
        <5> QED BY <5>2, <5>3, <5>4
      <4>2. v[j] = t[(j + 1) \div 2]
        BY <1>5, <3>1, <3>3
      <4>3. t[(j + 1) \div 2] = s[(i + 1) \div 2]
        BY <1>2, <4>1
      <4>4. w[i] = s[(i + 1) \div 2]
        BY <1>6, <3>3
      <4> QED BY <3>2, <4>2, <4>3, <4>4
    <3>4. CASE i % 2 # 1
      BY <1>5, <1>6, <3>1, <3>2, <3>4
    <3> QED BY <3>3, <3>4
  <2> QED BY <2>0, <2>1, <2>2, <2>3
<1>12. u = w
  <2>1. u = [i \in 1..(2 * n - 1) |-> u[i]]
    BY <1>1, <1>7, <1>10
  <2>2. w = [i \in 1..(2 * n - 1) |-> w[i]]
    BY <1>6
  <2> QED BY <1>11, <2>1, <2>2
<1>13. w = a \o b \o v
  BY <1>12 DEF u, c
<1>14. OrWords(s) = Infix(<<s[1]>>, "OR", OrWords(Tail(s)))
  BY <1>13 DEF w, x, v, t, Infix
<1>15. Len(t) = n - 1 /\ v \in Seq(SqlWord)
  BY <1>2, <1>7
<1> QED BY <1>3, <1>14, <1>15 DEF v, t

Either(h, s) == Of(h, OrWords(s)) \in Three /\ (Of(h, OrWords(s)) = 2 <=> AnyOf(h, s))
EachValued(h, s) == \A i \in 1..Len(s) : Of(h, <<s[i]>>) \in Three

LEMMA BothOrTwo ==
  ASSUME NEW x \in Three, NEW y \in Three
  PROVE  Both("OR", x, y) = 2 <=> x = 2 \/ y = 2
<1>1. x \in Int /\ y \in Int
  BY DEF Three
<1>2. Both("OR", x, y) = IF x >= y THEN x ELSE y
  BY <1>1, Larger DEF Both
<1> QED BY <1>2 DEF Three

LEMMA OneTest ==
  ASSUME NEW s, Tests(s)
  PROVE  Plain(<<s[1]>>) /\ (Len(s) = 1 => OrWords(s) = <<s[1]>>)
<1>1. s[1] \in SqlWord /\ s[1].type = "TEST"
  BY DEF Tests
<1>2. Plain(<<s[1]>>)
  BY <1>1, SingleShape DEF Shaping, Plain
<1>3. ASSUME Len(s) = 1 PROVE OrWords(s) = <<s[1]>>
  <2>1. OrWords(s) = [i \in 1..1 |-> IF i % 2 = 1 THEN s[(i + 1) \div 2] ELSE Tok("OR")]
    BY <1>3 DEF OrWords
  <2>2. 1 % 2 = 1 /\ (1 + 1) \div 2 = 1
    OBVIOUS
  <2>3. \A i \in 1..1 : i = 1
    OBVIOUS
  <2>4. OrWords(s) = [i \in 1..1 |-> s[1]]
    BY <2>1, <2>2, <2>3
  <2> QED BY <2>4
<1> QED BY <1>2, <1>3

LEMMA OrWordsMean ==
  ASSUME NEW s, Tests(s)
  PROVE  /\ Balanced(OrWords(s))
         /\ \A h : Reading(h) /\ EachValued(h, s) => Either(h, s)
<1> DEFINE S == {n \in Nat : \A t : Tests(t) /\ Len(t) = n + 1 =>
                    Balanced(OrWords(t)) /\ \A h : Reading(h) /\ EachValued(h, t) => Either(h, t)}
<1>1. 0 \in S
  <2> SUFFICES ASSUME NEW t, Tests(t), Len(t) = 1
               PROVE  Balanced(OrWords(t)) /\ \A h : Reading(h) /\ EachValued(h, t) => Either(h, t)
    OBVIOUS
  <2>1. OrWords(t) = <<t[1]>> /\ Balanced(<<t[1]>>)
    BY OneTest DEF Plain
  <2>2. \A i : i \in 1..Len(t) <=> i = 1
    OBVIOUS
  <2> QED BY <2>1, <2>2 DEF EachValued, Either, AnyOf
<1>2. ASSUME NEW n \in Nat, n \in S PROVE n + 1 \in S
  <2> SUFFICES ASSUME NEW t, Tests(t), Len(t) = n + 2
               PROVE  Balanced(OrWords(t)) /\ \A h : Reading(h) /\ EachValued(h, t) => Either(h, t)
    OBVIOUS
  <2> DEFINE u == Tail(t)
             a == <<t[1]>>
             b == OrWords(u)
  <2>1. /\ Tests(u) /\ Len(u) = n + 1 /\ b \in Seq(SqlWord)
        /\ OrWords(t) = Infix(a, "OR", b)
    <3>1. Len(t) > 1 /\ Len(t) - 1 = n + 1
      OBVIOUS
    <3> QED BY <3>1, OrWordsStep
  <2>2. Balanced(b) /\ \A h : Reading(h) /\ EachValued(h, u) => Either(h, u)
    BY <1>2, <2>1
  <2>3. Plain(a)
    BY OneTest
  <2>4. Balanced(OrWords(t))
    BY <2>1, <2>2, <2>3, JoinedLevel DEF Infix, Plain
  <2>5. t \in Seq(SqlWord) /\ Len(t) = n + 2 /\ \A i \in 1..(n + 1) : u[i] = t[i + 1]
    BY DEF Tests
  <2>6. ASSUME NEW h, Reading(h), EachValued(h, t) PROVE Either(h, t)
    <3> DEFINE x == Of(h, a)
               y == Of(h, b)
    <3>1. EachValued(h, u) /\ (AnyOf(h, t) <=> x = 2 \/ AnyOf(h, u))
      <4>1. \A i \in 1..(n + 1) : i + 1 \in 1..(n + 2)
        OBVIOUS
      <4>2. \A i \in 1..(n + 2) : i = 1 \/ i - 1 \in 1..(n + 1)
        OBVIOUS
      <4>3. \A i \in 1..(n + 1) : <<u[i]>> = <<t[i + 1]>>
        BY <2>5
      <4>a. \A i \in 1..(n + 2) : Of(h, <<t[i]>>) \in Three
        BY <2>5, <2>6 DEF EachValued
      <4>4. EachValued(h, u)
        <5> HIDE DEF u
        <5> QED BY <2>1, <4>1, <4>3, <4>a DEF EachValued
      <4>5. AnyOf(h, u) => AnyOf(h, t)
        <5> SUFFICES ASSUME AnyOf(h, u) PROVE AnyOf(h, t)
          OBVIOUS
        <5>1. PICK i \in 1..(n + 1) : Of(h, <<u[i]>>) = 2
          BY <2>1 DEF AnyOf
        <5>2. i + 1 \in 1..Len(t) /\ Of(h, <<t[i + 1]>>) = 2
          BY <2>5, <4>1, <4>3, <5>1
        <5> QED BY <5>2 DEF AnyOf
      <4>6. x = 2 => AnyOf(h, t)
        <5>1. 1 \in 1..Len(t)
          BY <2>5
        <5> QED BY <5>1 DEF AnyOf
      <4>7. AnyOf(h, t) => x = 2 \/ AnyOf(h, u)
        <5> SUFFICES ASSUME AnyOf(h, t), x # 2 PROVE AnyOf(h, u)
          OBVIOUS
        <5>1. PICK i \in 1..(n + 2) : Of(h, <<t[i]>>) = 2
          BY <2>5 DEF AnyOf
        <5>2. i # 1
          BY <5>1
        <5>3. i - 1 \in 1..(n + 1) /\ (i - 1) + 1 = i
          BY <4>2, <5>2
        <5>4. <<u[i - 1]>> = <<t[i]>>
          BY <4>3, <5>3
        <5> HIDE DEF u, x
        <5> QED BY <2>1, <5>1, <5>3, <5>4 DEF AnyOf
      <4> QED BY <4>4, <4>5, <4>6, <4>7
    <3>2. Either(h, u)
      BY <2>2, <2>6, <3>1
    <3>3. x \in Three /\ y \in Three /\ (y = 2 <=> AnyOf(h, u))
      <4>1. 1 \in 1..Len(t)
        BY <2>5
      <4> QED BY <2>6, <3>2, <4>1 DEF EachValued, Either
    <3>4. Of(h, OrWords(t)) = Both("OR", x, y)
      <4>1. Left("OR", a) /\ Rest("OR", b)
        BY <2>2, <2>3 DEF Left, Rest, Plain
      <4> QED BY <2>1, <2>6, <4>1, OfInfix
    <3> HIDE DEF x, y
    <3>5. Both("OR", x, y) \in Three /\ (Both("OR", x, y) = 2 <=> x = 2 \/ y = 2)
      BY <3>3, BothIs, BothOrTwo
    <3> QED BY <3>1, <3>3, <3>4, <3>5 DEF Either
  <2> QED BY <2>4, <2>6
<1> HIDE DEF S
<1>3. Nat \subseteq S
  BY <1>1, <1>2, SetInduction
<1>4. s \in Seq(SqlWord) /\ s # <<>>
  BY DEF Tests
<1>5. Len(s) - 1 \in Nat /\ Len(s) = (Len(s) - 1) + 1
  BY <1>4
<1> QED BY <1>3, <1>5 DEF S

LEMMA Columns ==
  LET S == globalSearch(Fields, Indexed)
      columns == SetToSeq(S)
  IN /\ S \subseteq STRING /\ columns \in Seq(S)
     /\ S # {} => columns # <<>>
     /\ \A c \in S : \E i \in 1..Len(columns) : columns[i] = c
<1> DEFINE S == globalSearch(Fields, Indexed)
           n == Cardinality(S)
           columns == SetToSeq(S)
<1>1. S \subseteq DOMAIN Fields
  BY DEF globalSearch, searchable
<1>2. IsFiniteSet(S) /\ S \subseteq STRING
  BY <1>1, TableAssumption, FS_Subset
<1> HIDE DEF S
<1>3. n \in Nat /\ ExistsBijection(1..n, S)
  <2>1. PICK m \in Nat : ExistsBijection(1..m, S)
    BY <1>2, FS_NatBijection
  <2>2. Cardinality(S) = m
    BY <2>1, FS_CountingElements
  <2> QED BY <2>1, <2>2
<1> HIDE DEF n
<1>4. PICK f : f \in Bijection(1..n, S)
  BY <1>3 DEF ExistsBijection
<1>5. f \in [1..n -> S] /\ IsInjective(f)
  BY <1>4 DEF Bijection, Injection
<1>6. columns \in [1..n -> S] /\ IsInjective(columns)
  <2>1. columns = CHOOSE g \in [1..n -> S] : IsInjective(g)
    BY DEF SetToSeq, n
  <2> QED BY <1>5, <2>1
<1> HIDE DEF columns
<1>7. columns \in Injection(1..n, S)
  BY <1>6 DEF Injection
<1>8. IsFiniteSet(1..n) /\ Cardinality(1..n) = n /\ Cardinality(S) = n
  BY <1>3, FS_Interval DEF n
<1>9. columns \in Surjection(1..n, S)
  BY <1>2, <1>7, <1>8, FS_Injection
<1>10. \A c \in S : \E i \in 1..n : columns[i] = c
  BY <1>9 DEF Surjection
<1>11. columns \in Seq(S) /\ Len(columns) = n
  BY <1>3, <1>6
<1>12. S # {} => columns # <<>>
  <2> SUFFICES ASSUME S # {} PROVE Len(columns) # 0
    BY <1>11
  <2>1. PICK i \in 1..n : TRUE
    BY <1>10
  <2> QED BY <1>3, <1>11, <2>1
<1> QED BY <1>2, <1>10, <1>11, <1>12 DEF S, columns

-----------------------------------------------------------------------------
(* The clauses of a statement, one after another.                           *)

Statement == [bad : BOOLEAN, sql : Seq(SqlWord), params : Seq(Seq(Int))]
\* A statement is true of a row r exactly when b is.
Asks(w, r, b) ==
  /\ w \in Statement /\ Clausal(w.sql)
  /\ \A Q : Agree(Q, 0, w.params) =>
       Chain(Row(Q, r), w.sql) /\ (Of(Row(Q, r), w.sql) = 2 <=> b)
Passes(op, x, v) == x # Null /\ (IF op = "eq" THEN x = v ELSE Like("contains", x, v))

\* The words of a test x of a column with one parameter, the n-th.
TestsOf(x, col, op, n) ==
  /\ x \in SqlWord /\ x.type = "TEST" /\ Plain(<<x>>)
  /\ \A Q, r, v : Q[n] = <<v>> =>
       /\ Of(Row(Q, r), <<x>>) \in Three
       /\ Of(Row(Q, r), <<x>>) = 2 <=> Passes(op, r[col], v)

LEMMA TestOne ==
  ASSUME NEW col \in STRING, NEW op \in {"contains", "eq"}, NEW n \in Nat
  PROVE  TestsOf(Test(col, op, <<n>>), col, op, n)
<1> DEFINE ps == <<n>>
           x == Test(col, op, ps)
<1>1. x \in SqlWord /\ x.type = "TEST" /\ x.field = col /\ x.op = op /\ x.ps = ps
  <2>1. ps \in Seq(Nat)
    OBVIOUS
  <2>2. op \in STRING
    BY WordsAssumption
  <2> HIDE DEF ps
  <2>3. x = [type |-> "TEST", field |-> col, op |-> op, ps |-> ps]
    BY DEF Test
  <2>4. x \in [type : {"TEST"}, field : STRING, op : STRING, ps : Seq(Nat)]
    BY <2>1, <2>2, <2>3
  <2> QED BY <2>3, <2>4 DEF SqlWord
<1> HIDE DEF x
<1>2. Plain(<<x>>)
  BY <1>1, SingleShape DEF Plain, Shaping
<1>3. ASSUME NEW Q, NEW r, NEW v, Q[n] = <<v>>
      PROVE  /\ Of(Row(Q, r), <<x>>) \in Three
             /\ Of(Row(Q, r), <<x>>) = 2 <=> Passes(op, r[col], v)
  <2> DEFINE a == [i \in DOMAIN x.ps |-> Q[x.ps[i]]]
             t == TestValue(TypeOf(col), op, r[col], a)
  <2>1. a[1][1] = v
    <3>1. a = [i \in 1..1 |-> Q[ps[i]]]
      BY <1>1
    <3>2. a[1] = <<v>>
      BY <1>3, <3>1
    <3> QED BY <3>2
  <2> HIDE DEF a
  <2>2. t = IF r[col] = Null THEN 1 ELSE Truth(IF op = "eq" THEN r[col] = v ELSE Like("contains", r[col], v))
    <3>1. CASE op = "eq"
      BY <2>1, <3>1 DEF TestValue, Compare
    <3>2. CASE op = "contains"
      BY <2>1, <3>2 DEF TestValue, Compare
    <3> QED BY <3>1, <3>2
  <2>3. WordValue(x, Q, r) = Num(t)
    BY <1>1 DEF WordValue, a
  <2>4. t \in Three
    BY TestRange
  <2>5. t = 2 <=> Passes(op, r[col], v)
    BY <2>2 DEF Passes, Truth
  <2>6. Row(Q, r)[x] = Num(t)
    BY <1>1, <2>3 DEF Row
  <2> HIDE DEF t
  <2>7. Of(Row(Q, r), <<x>>) = t
    BY <1>1, <2>4, <2>6, RowReads, OfOne DEF Three
  <2> QED BY <2>4, <2>5, <2>7
<1> QED BY <1>1, <1>2, <1>3 DEF x, TestsOf

LEMMA AppendAgrees ==
  ASSUME NEW params \in Seq(Seq(Int)), NEW v \in Int
  PROVE  /\ Append(params, <<v>>) \in Seq(Seq(Int)) /\ Len(Append(params, <<v>>)) = Len(params) + 1
         /\ \A Q : Agree(Q, 0, Append(params, <<v>>)) => Agree(Q, 0, params) /\ Q[Len(params) + 1] = <<v>>
<1> DEFINE p == Append(params, <<v>>)
           n == Len(params)
<1>1. n \in Nat /\ p \in Seq(Seq(Int)) /\ Len(p) = n + 1 /\ p[n + 1] = <<v>> /\ \A i \in 1..n : p[i] = params[i]
  <2>1. <<v>> \in Seq(Int)
    OBVIOUS
  <2> QED BY <2>1
<1> HIDE DEF p, n
<1>2. ASSUME NEW Q, Agree(Q, 0, p) PROVE Agree(Q, 0, params) /\ Q[n + 1] = <<v>>
  <2>1. \A i \in 1..(n + 1) : Q[0 + i] = p[i] /\ 0 + i = i
    BY <1>1, <1>2 DEF Agree
  <2>2. n + 1 \in 1..(n + 1) /\ \A i \in 1..n : i \in 1..(n + 1)
    BY <1>1
  <2> QED BY <1>1, <2>1, <2>2 DEF Agree, n
<1> QED BY <1>1, <1>2 DEF p, n

\* A statement and one more clause.
Plus(w, params, t) == [w EXCEPT !.params = params, !.sql = And(@, t)]

LEMMA OneMoreClause ==
  ASSUME NEW w, NEW r, NEW b, Asks(w, r, b), NEW params \in Seq(Seq(Int)), NEW t, Plain(t), NEW c,
         \A Q : Agree(Q, 0, params) =>
           /\ Agree(Q, 0, w.params) /\ Of(Row(Q, r), t) \in Three
           /\ Of(Row(Q, r), t) = 2 <=> c
  PROVE  Asks(Plus(w, params, t), r, b /\ c)
<1> DEFINE sql == And(w.sql, t)
           u == Plus(w, params, t)
<1>1. w \in Statement /\ Clausal(w.sql)
  BY DEF Asks
<1>2. Clausal(t)
  BY PlainChain
<1>3. Clausal(sql)
  BY <1>1, <1>2, AndClausal
<1>4. sql \in Seq(SqlWord)
  BY <1>3 DEF Clausal
<1>5. u = [w EXCEPT !.params = params, !.sql = sql]
  BY DEF Plus
<1> HIDE DEF sql, u
<1>6. u \in Statement /\ u.sql = sql /\ u.params = params
  BY <1>1, <1>4, <1>5 DEF Statement
<1>7. ASSUME NEW Q, Agree(Q, 0, params)
      PROVE  Chain(Row(Q, r), sql) /\ (Of(Row(Q, r), sql) = 2 <=> b /\ c)
  <2> DEFINE h == Row(Q, r)
  <2>1. Agree(Q, 0, w.params) /\ Of(h, t) \in Three /\ (Of(h, t) = 2 <=> c)
    BY <1>7
  <2>2. Chain(h, w.sql) /\ (Of(h, w.sql) = 2 <=> b)
    BY <2>1 DEF Asks
  <2>3. Reading(h)
    BY RowReads
  <2>4. Chain(h, t)
    BY <2>1, <2>3, PlainChain
  <2> HIDE DEF h
  <2>5. Chain(h, sql) /\ (Of(h, sql) = 2 <=> Of(h, w.sql) = 2 /\ Of(h, t) = 2)
    BY <1>1, <1>2, <2>2, <2>3, <2>4, AndChain DEF sql
  <2> QED BY <2>1, <2>2, <2>5 DEF h
<1>8. Asks(u, r, b /\ c)
  BY <1>3, <1>6, <1>7 DEF Asks
<1> QED BY <1>8 DEF u

\* A search in a column.
Wanted(filter, r) ==
  filter.term.text # 0 /\ filter.col \in searchable(Fields) =>
    IF filter.col = "record_id" /\ filter.term.number # None
    THEN r.record_id = filter.term.number ELSE Like("contains", r[filter.col], filter.term.text)

LEMMA SearchInAsks ==
  ASSUME NEW w, NEW r, NEW b, Asks(w, r, b), NEW filter \in [col : STRING, term : Term], r.record_id \in Nat
  PROVE  Asks(SearchIn(w, filter), r, b /\ Wanted(filter, r)) /\ SearchIn(w, filter).bad = w.bad
<1> DEFINE id == filter.col = "record_id" /\ filter.term.number # None
           v == IF id THEN filter.term.number ELSE filter.term.text
           op == IF id THEN "eq" ELSE "contains"
           n == Len(w.params) + 1
           x == Test(filter.col, op, <<n>>)
           params == Append(w.params, <<v>>)
           u == SearchIn(w, filter)
<1>1. w \in Statement
  BY DEF Asks
<1>2. filter.col \in STRING /\ filter.term.text \in Nat /\ filter.term.number \in Nat \cup {None}
  BY DEF Term
<1>3. CASE filter.term.text = 0 \/ filter.col \notin searchable(Fields)
  <2>1. u = w /\ Wanted(filter, r)
    BY <1>3 DEF SearchIn, Wanted
  <2>2. (b /\ Wanted(filter, r)) <=> b
    BY <2>1
  <2> QED BY <2>1, <2>2 DEF Asks
<1>4. CASE ~(filter.term.text = 0 \/ filter.col \notin searchable(Fields))
  <2>1. u = Plus(w, params, <<x>>)
    BY <1>4 DEF SearchIn, Plus
  <2>2. v \in Int /\ op \in {"contains", "eq"}
    BY <1>2
  <2>3. w.params \in Seq(Seq(Int)) /\ n \in Nat
    BY <1>1 DEF Statement
  <2>4. TestsOf(x, filter.col, op, n)
    <3> HIDE DEF v, op, n
    <3> QED BY <1>2, <2>2, <2>3, TestOne
  <2>5. /\ params \in Seq(Seq(Int))
        /\ \A Q : Agree(Q, 0, params) => Agree(Q, 0, w.params) /\ Q[n] = <<v>>
    <3> HIDE DEF v
    <3> QED BY <2>2, <2>3, AppendAgrees
  <2>6. Wanted(filter, r) <=> Passes(op, r[filter.col], v)
    <3>1. CASE id
      BY <1>2, <1>4, <3>1 DEF Wanted, Passes, Null
    <3>2. CASE ~id
      BY <1>2, <1>4, <3>2 DEF Wanted, Passes, Null, Like
    <3> QED BY <3>1, <3>2
  <2>9. u.bad = w.bad
    BY <1>1, <2>1 DEF Statement, Plus
  <2> HIDE DEF x, v, op, params, u, n
  <2>7. \A Q : Agree(Q, 0, params) =>
           /\ Agree(Q, 0, w.params) /\ Of(Row(Q, r), <<x>>) \in Three
           /\ Of(Row(Q, r), <<x>>) = 2 <=> Wanted(filter, r)
    BY <2>4, <2>5, <2>6 DEF TestsOf
  <2>a. Plain(<<x>>)
    BY <2>4 DEF TestsOf
  <2> DEFINE t == <<x>>
             c == Wanted(filter, r)
  <2> HIDE DEF t, c
  <2>b. Plain(t) /\ \A Q : Agree(Q, 0, params) =>
           /\ Agree(Q, 0, w.params) /\ Of(Row(Q, r), t) \in Three
           /\ Of(Row(Q, r), t) = 2 <=> c
    BY <2>7, <2>a DEF t, c
  <2>8. Asks(Plus(w, params, t), r, b /\ c)
    BY <2>5, <2>b, OneMoreClause
  <2> QED BY <2>1, <2>8, <2>9 DEF u, t, c
<1> QED BY <1>3, <1>4

-----------------------------------------------------------------------------
(* The quick search.                                                         *)

\* The quick search finds its term in a column, or as the id.
Found(term, r) ==
  \/ \E col \in globalSearch(Fields, Indexed) : Like("contains", r[col], term.text)
  \/ r.record_id = term.number

LikeTests(columns, m) == [i \in DOMAIN columns |-> Test(columns[i], "contains", <<m>>)]
IdTest(m) == << Test("record_id", "eq", <<m>>) >>

LEMMA LikeTestsAre ==
  ASSUME NEW columns \in Seq(STRING), columns # <<>>, NEW m \in Nat
  PROVE  /\ Tests(LikeTests(columns, m)) /\ Len(LikeTests(columns, m)) = Len(columns)
         /\ \A i \in 1..Len(columns) : TestsOf(LikeTests(columns, m)[i], columns[i], "contains", m)
<1> DEFINE like == LikeTests(columns, m)
           n == Len(columns)
<1>1. n \in Nat /\ n # 0 /\ DOMAIN columns = 1..n /\ \A i \in 1..n : columns[i] \in STRING
  OBVIOUS
<1>2. ASSUME NEW i \in 1..n
      PROVE  /\ like[i] = Test(columns[i], "contains", <<m>>)
             /\ TestsOf(like[i], columns[i], "contains", m)
  <2>1. like[i] = Test(columns[i], "contains", <<m>>)
    BY <1>1 DEF LikeTests
  <2>2. TestsOf(Test(columns[i], "contains", <<m>>), columns[i], "contains", m)
    BY <1>1, TestOne
  <2> QED BY <2>1, <2>2
<1>3. \A i \in 1..n : like[i] \in SqlWord /\ like[i].type = "TEST"
  BY <1>2 DEF TestsOf
<1>4. like = [i \in 1..n |-> like[i]]
  BY <1>1 DEF LikeTests
<1> HIDE DEF like, n
<1>5. like \in [1..n -> SqlWord]
  BY <1>3, <1>4
<1>6. like \in Seq(SqlWord) /\ Len(like) = n /\ like # <<>>
  BY <1>1, <1>5
<1> QED BY <1>2, <1>3, <1>6 DEF Tests, like, n

\* Tests in parentheses, any of which is enough.
LEMMA AnyTest ==
  ASSUME NEW tests, Tests(tests), NEW P, NEW r, NEW c,
         \A Q : Agree(Q, 0, P) =>
           EachValued(Row(Q, r), tests) /\ (AnyOf(Row(Q, r), tests) <=> c)
  PROVE  /\ Plain(Paren(OrWords(tests)))
         /\ \A Q : Agree(Q, 0, P) =>
              /\ Of(Row(Q, r), Paren(OrWords(tests))) \in Three
              /\ Of(Row(Q, r), Paren(OrWords(tests))) = 2 <=> c
<1>1. Balanced(OrWords(tests)) /\ \A h : Reading(h) /\ EachValued(h, tests) => Either(h, tests)
  BY OrWordsMean
<1>2. Plain(Paren(OrWords(tests)))
  BY <1>1, ParenShape DEF Plain
<1>3. ASSUME NEW Q, Agree(Q, 0, P)
      PROVE  /\ Of(Row(Q, r), Paren(OrWords(tests))) \in Three
             /\ Of(Row(Q, r), Paren(OrWords(tests))) = 2 <=> c
  <2> DEFINE h == Row(Q, r)
  <2>1. Reading(h) /\ EachValued(h, tests) /\ (AnyOf(h, tests) <=> c)
    BY <1>3, RowReads
  <2> HIDE DEF h
  <2>2. Either(h, tests)
    BY <1>1, <2>1
  <2>3. Of(h, Paren(OrWords(tests))) = Of(h, OrWords(tests))
    BY <1>1, <2>1, OfParen
  <2>4. Of(h, Paren(OrWords(tests))) \in Three /\ (Of(h, Paren(OrWords(tests))) = 2 <=> c)
    BY <2>1, <2>2, <2>3 DEF Either
  <2> QED BY <2>4 DEF h
<1> QED BY <1>2, <1>3

Searches(s, params, term, r) ==
  /\ s.params \in Seq(Seq(Int)) /\ Plain(s.sql)
  /\ \A Q : Agree(Q, 0, s.params) =>
       /\ Agree(Q, 0, params) /\ Of(Row(Q, r), s.sql) \in Three
       /\ Of(Row(Q, r), s.sql) = 2 <=> Found(term, r)

\* The test of a column or of the id for a value that is no NULL.
LEMMA LikeFinds ==
  ASSUME NEW x, NEW v \in Nat
  PROVE  Passes("contains", x, v) <=> Like("contains", x, v)
BY DEF Passes, Like, Null

LEMMA WordSearch ==
  ASSUME NEW columns \in Seq(STRING), columns # <<>>,
         \A c \in globalSearch(Fields, Indexed) : \E i \in 1..Len(columns) : columns[i] = c,
         \A i \in 1..Len(columns) : columns[i] \in globalSearch(Fields, Indexed),
         NEW m \in Nat, NEW v \in Nat, NEW Q, Q[m] = <<v>>, NEW r
  PROVE  LET like == LikeTests(columns, m)
         IN /\ EachValued(Row(Q, r), like)
            /\ AnyOf(Row(Q, r), like) <=>
                 \E col \in globalSearch(Fields, Indexed) : Like("contains", r[col], v)
<1> DEFINE like == LikeTests(columns, m)
           h == Row(Q, r)
           n == Len(columns)
<1>1. /\ Len(like) = n
      /\ \A i \in 1..n : TestsOf(like[i], columns[i], "contains", m)
  BY LikeTestsAre
<1>2. \A i \in 1..n : /\ Of(h, <<like[i]>>) \in Three
                      /\ Of(h, <<like[i]>>) = 2 <=> Like("contains", r[columns[i]], v)
  <2> SUFFICES ASSUME NEW i \in 1..n
               PROVE  /\ Of(h, <<like[i]>>) \in Three
                      /\ Of(h, <<like[i]>>) = 2 <=> Like("contains", r[columns[i]], v)
    OBVIOUS
  <2> DEFINE x == like[i]
             col == columns[i]
  <2>1. TestsOf(x, col, "contains", m)
    BY <1>1
  <2> HIDE DEF x, like, col
  <2>2. Of(h, <<x>>) \in Three /\ (Of(h, <<x>>) = 2 <=> Passes("contains", r[col], v))
    BY <2>1 DEF TestsOf
  <2>3. Of(h, <<x>>) \in Three /\ (Of(h, <<x>>) = 2 <=> Like("contains", r[col], v))
    BY <2>2, LikeFinds
  <2> QED BY <2>3 DEF x, col
<1> HIDE DEF like, h
<1>3. EachValued(h, like)
  BY <1>1, <1>2 DEF EachValued
<1>4. AnyOf(h, like) <=> \E i \in 1..n : Like("contains", r[columns[i]], v)
  BY <1>1, <1>2 DEF AnyOf
<1>5. (\E i \in 1..n : Like("contains", r[columns[i]], v))
        <=> \E col \in globalSearch(Fields, Indexed) : Like("contains", r[col], v)
  OBVIOUS
<1> QED BY <1>3, <1>4, <1>5 DEF like, h

\* Tests and one more.
LEMMA OneMoreTest ==
  ASSUME NEW s, Tests(s), NEW x \in SqlWord, x.type = "TEST"
  PROVE  /\ Tests(s \o <<x>>)
         /\ \A h : EachValued(h, s) /\ Of(h, <<x>>) \in Three =>
              /\ EachValued(h, s \o <<x>>)
              /\ AnyOf(h, s \o <<x>>) <=> AnyOf(h, s) \/ Of(h, <<x>>) = 2
<1> DEFINE u == s \o <<x>>
           n == Len(s)
<1>1. s \in Seq(SqlWord) /\ n \in Nat /\ n # 0 /\ \A i \in 1..n : s[i].type = "TEST"
  BY DEF Tests
<1>2. /\ u \in Seq(SqlWord) /\ Len(u) = n + 1 /\ u[n + 1] = x
      /\ \A i \in 1..n : u[i] = s[i]
  <2> DEFINE b == <<x>>
  <2>1. b \in Seq(SqlWord) /\ Len(b) = 1 /\ b[1] = x
    OBVIOUS
  <2> HIDE DEF b
  <2>2. /\ s \o b \in Seq(SqlWord) /\ Len(s \o b) = n + Len(b)
        /\ \A i \in 1..n + Len(b) : (s \o b)[i] = IF i <= n THEN s[i] ELSE b[i - n]
    BY <1>1, <2>1, ConcatProperties
  <2> DEFINE w == s \o b
  <2> HIDE DEF w
  <2>3. /\ w \in Seq(SqlWord) /\ Len(w) = n + 1
        /\ \A i \in 1..n + 1 : w[i] = IF i <= n THEN s[i] ELSE b[i - n]
    BY <2>1, <2>2 DEF w
  <2>4. w[n + 1] = x /\ \A i \in 1..n : w[i] = s[i]
    BY <1>1, <2>1, <2>3
  <2>5. w = u
    BY DEF w, b
  <2> QED BY <2>3, <2>4, <2>5
<1> HIDE DEF u, n
<1>3. Tests(u)
  <2>1. \A i \in 1..n + 1 : u[i].type = "TEST"
    <3>1. \A i \in 1..n + 1 : i \in 1..n \/ i = n + 1
      BY <1>1
    <3> QED BY <1>1, <1>2, <3>1
  <2>2. u # <<>>
    BY <1>1, <1>2
  <2> QED BY <1>2, <2>1, <2>2 DEF Tests
<1>4. ASSUME NEW h, EachValued(h, s), Of(h, <<x>>) \in Three
      PROVE  EachValued(h, u) /\ (AnyOf(h, u) <=> AnyOf(h, s) \/ Of(h, <<x>>) = 2)
  <2>1. \A i \in 1..n : Of(h, <<s[i]>>) \in Three
    BY <1>4 DEF EachValued, n
  <2>2. (\A i \in 1..n + 1 : i \in 1..n \/ i = n + 1) /\ n + 1 \in 1..n + 1 /\ \A i \in 1..n : i \in 1..n + 1
    BY <1>1
  <2>3. \A i \in 1..n : <<u[i]>> = <<s[i]>>
    BY <1>2
  <2>4. <<u[n + 1]>> = <<x>>
    BY <1>2
  <2>5. \A i \in 1..n + 1 : Of(h, <<u[i]>>) \in Three
    BY <1>4, <2>1, <2>2, <2>3, <2>4
  <2>6. (\E i \in 1..n + 1 : Of(h, <<u[i]>>) = 2) <=> (\E i \in 1..n : Of(h, <<s[i]>>) = 2) \/ Of(h, <<x>>) = 2
    BY <2>2, <2>3, <2>4
  <2> QED BY <1>2, <2>5, <2>6 DEF EachValued, AnyOf, n
<1> QED BY <1>3, <1>4 DEF u

LEMMA SearchOrSearches ==
  ASSUME NEW params \in Seq(Seq(Int)), NEW term \in Term, NEW r, r.record_id \in Nat,
         globalSearch(Fields, Indexed) # {}
  PROVE  Searches(SearchOr(term, params), params, term, r)
<1> DEFINE columns == SetToSeq(globalSearch(Fields, Indexed))
           v == term.text
           text == Append(params, <<v>>)
           m == Len(params) + 1
           like == LikeTests(columns, m)
           id == IF term.number = None THEN <<>> ELSE IdTest(m + 1)
           tests == like \o id
           s == SearchOr(term, params)
           G == globalSearch(Fields, Indexed)
<1>1. v \in Nat /\ v \in Int /\ term.number \in Nat \cup {None}
  BY DEF Term
<1>2. /\ columns \in Seq(STRING) /\ columns # <<>>
      /\ \A c \in G : \E i \in 1..Len(columns) : columns[i] = c
      /\ \A i \in 1..Len(columns) : columns[i] \in G
  <2>1. /\ G \subseteq STRING /\ columns \in Seq(G) /\ columns # <<>>
        /\ \A c \in G : \E i \in 1..Len(columns) : columns[i] = c
    BY Columns
  <2> DEFINE n == Len(columns)
  <2> HIDE DEF columns, G
  <2>2. n \in Nat /\ columns \in [1..n -> G] /\ \A i \in 1..n : columns[i] \in G
    BY <2>1
  <2>3. columns \in [1..n -> STRING]
    BY <2>1, <2>2
  <2>4. columns \in Seq(STRING)
    BY <2>2, <2>3
  <2> QED BY <2>1, <2>2, <2>4
<1>3. /\ text \in Seq(Seq(Int)) /\ Len(text) = m /\ m \in Nat
      /\ \A Q : Agree(Q, 0, text) => Agree(Q, 0, params) /\ Q[m] = <<v>>
  <2> HIDE DEF v
  <2> QED BY <1>1, AppendAgrees
<1>4. s = [params |-> IF id = <<>> THEN text ELSE Append(text, << term.number >>),
           sql |-> IF tests = <<>> THEN <<>> ELSE Paren(OrWords(tests))]
  <2> DEFINE given == IF columns = <<>> THEN params ELSE Append(params, <<term.text>>)
             id2 == IF term.number = None THEN <<>> ELSE IdTest(Len(given) + 1)
             tests2 == LikeTests(columns, Len(given)) \o id2
  <2>1. s = [params |-> IF id2 = <<>> THEN given ELSE Append(given, << term.number >>),
             sql |-> IF tests2 = <<>> THEN <<>> ELSE Paren(OrWords(tests2))]
    BY DEF SearchOr, LikeTests, IdTest, OrWords
  <2>2. given = text /\ Len(given) = m
    BY <1>2, <1>3
  <2>3. id2 = id
    BY <2>2
  <2>4. tests2 = tests
    BY <2>2, <2>3
  <2> HIDE DEF given, id2, tests2, id, tests, s
  <2> QED BY <2>1, <2>2, <2>3, <2>4
<1> HIDE DEF columns, v, text, m, s
<1>5. Tests(like)
  BY <1>2, <1>3, LikeTestsAre
<1>6. \A Q : Q[m] = <<v>> =>
        /\ EachValued(Row(Q, r), like)
        /\ AnyOf(Row(Q, r), like) <=> \E col \in G : Like("contains", r[col], v)
  BY <1>1, <1>2, <1>3, WordSearch
<1>7. CASE term.number = None
  <2>1. tests = like
    <3>1. like \in Seq(SqlWord)
      BY <1>5 DEF Tests
    <3> HIDE DEF like
    <3> QED BY <1>7, <3>1
  <2>2. s = [params |-> text, sql |-> Paren(OrWords(like))]
    <3>1. id = <<>> /\ like # <<>>
      BY <1>5, <1>7 DEF Tests
    <3> HIDE DEF like, id, tests
    <3> QED BY <1>4, <2>1, <3>1
  <2> HIDE DEF like, id, tests
  <2>3. Found(term, r) <=> \E col \in G : Like("contains", r[col], v)
    BY <1>7 DEF Found, None, v
  <2> DEFINE c == Found(term, r)
  <2> HIDE DEF c
  <2>4. \A Q : Agree(Q, 0, text) => EachValued(Row(Q, r), like) /\ (AnyOf(Row(Q, r), like) <=> c)
    BY <1>3, <1>6, <2>3 DEF c
  <2>5. /\ Plain(Paren(OrWords(like)))
        /\ \A Q : Agree(Q, 0, text) =>
             /\ Of(Row(Q, r), Paren(OrWords(like))) \in Three
             /\ Of(Row(Q, r), Paren(OrWords(like))) = 2 <=> c
    BY <1>5, <2>4, AnyTest
  <2> DEFINE t == Paren(OrWords(like))
  <2> HIDE DEF t
  <2>6. s.params = text /\ s.sql = t
    BY <2>2 DEF t
  <2>7. Plain(t) /\ \A Q : Agree(Q, 0, text) => Of(Row(Q, r), t) \in Three /\ (Of(Row(Q, r), t) = 2 <=> c)
    BY <2>5 DEF t
  <2>8. Searches(s, params, term, r)
    BY <1>3, <2>6, <2>7 DEF Searches, c
  <2> QED BY <2>8 DEF s
<1>8. CASE term.number # None
  <2> DEFINE k == m + 1
             z == term.number
             x == Test("record_id", "eq", <<k>>)
             P == Append(text, <<z>>)
             t == Paren(OrWords(tests))
             c == Found(term, r)
  <2>1. tests = like \o <<x>> /\ id # <<>>
    BY <1>8 DEF IdTest
  <2>a. k \in Nat /\ z \in Int /\ Len(text) + 1 = k
    BY <1>1, <1>3, <1>8
  <2>2. TestsOf(x, "record_id", "eq", k)
    <3> HIDE DEF k
    <3>1. "record_id" \in STRING /\ "eq" \in {"contains", "eq"}
      BY WordsAssumption
    <3> QED BY <2>a, <3>1, TestOne
  <2>3. x \in SqlWord /\ x.type = "TEST"
    BY <2>2 DEF TestsOf
  <2>4. /\ P \in Seq(Seq(Int))
        /\ \A Q : Agree(Q, 0, P) => Agree(Q, 0, text) /\ Q[k] = <<z>>
    <3> HIDE DEF k, z
    <3> QED BY <1>3, <2>a, AppendAgrees
  <2> DEFINE u == like \o <<x>>
  <2> HIDE DEF x, P, like
  <2>5. /\ Tests(u)
        /\ \A h : EachValued(h, like) /\ Of(h, <<x>>) \in Three =>
             /\ EachValued(h, u)
             /\ AnyOf(h, u) <=> AnyOf(h, like) \/ Of(h, <<x>>) = 2
    BY <1>5, <2>3, OneMoreTest
  <2>6. s.params = P /\ s.sql = t
    <3>1. tests # <<>>
      BY <2>1, <2>5 DEF Tests
    <3> HIDE DEF tests, id
    <3> QED BY <1>4, <2>1, <3>1 DEF P
  <2>7. tests = u
    BY <2>1
  <2> HIDE DEF u, tests, id
  <2>8. \A Q : Agree(Q, 0, P) => EachValued(Row(Q, r), u) /\ (AnyOf(Row(Q, r), u) <=> c)
    <3> SUFFICES ASSUME NEW Q, Agree(Q, 0, P)
                 PROVE  EachValued(Row(Q, r), u) /\ (AnyOf(Row(Q, r), u) <=> c)
      OBVIOUS
    <3> DEFINE h == Row(Q, r)
    <3>1. Q[m] = <<v>> /\ Q[k] = <<z>>
      BY <1>3, <2>4
    <3>2. EachValued(h, like) /\ (AnyOf(h, like) <=> \E col \in G : Like("contains", r[col], v))
      BY <1>6, <3>1
    <3>3. Of(h, <<x>>) \in Three /\ (Of(h, <<x>>) = 2 <=> Passes("eq", r.record_id, z))
      BY <2>2, <3>1 DEF TestsOf
    <3>4. Passes("eq", r.record_id, z) <=> r.record_id = z
      BY DEF Passes, Null
    <3>5. c <=> (\E col \in G : Like("contains", r[col], v)) \/ r.record_id = z
      BY DEF Found, v, z
    <3> HIDE DEF h, c
    <3>6. EachValued(h, u) /\ (AnyOf(h, u) <=> c)
      BY <2>5, <3>2, <3>3, <3>4, <3>5
    <3> QED BY <3>6 DEF h
  <2> HIDE DEF c, t
  <2>9. /\ Plain(Paren(OrWords(u)))
        /\ \A Q : Agree(Q, 0, P) =>
             /\ Of(Row(Q, r), Paren(OrWords(u))) \in Three
             /\ Of(Row(Q, r), Paren(OrWords(u))) = 2 <=> c
    BY <2>5, <2>8, AnyTest
  <2>10. Plain(t) /\ \A Q : Agree(Q, 0, P) => Of(Row(Q, r), t) \in Three /\ (Of(Row(Q, r), t) = 2 <=> c)
    BY <2>7, <2>9 DEF t
  <2>11. Searches(s, params, term, r)
    BY <1>3, <2>4, <2>6, <2>10 DEF Searches, c
  <2> QED BY <2>11 DEF s
<1> QED BY <1>7, <1>8

LEMMA SearchedAsks ==
  ASSUME NEW w, NEW r, NEW b, Asks(w, r, b), NEW q, q.search \in Term, r.record_id \in Nat,
         globalSearch(Fields, Indexed) # {}
  PROVE  /\ Asks(Searched(w, q), r, b /\ (q.search.text # 0 => Found(q.search, r)))
         /\ Searched(w, q).bad = w.bad
<1> DEFINE s == SearchOr(q.search, w.params)
           c == q.search.text # 0 => Found(q.search, r)
<1>1. w \in Statement /\ w.params \in Seq(Seq(Int))
  BY DEF Asks, Statement
<1>2. CASE q.search.text = 0
  <2>1. Searched(w, q) = w /\ c
    BY <1>2 DEF Searched
  <2>2. (b /\ c) <=> b
    BY <2>1
  <2> QED BY <2>1, <2>2 DEF Asks
<1>3. CASE q.search.text # 0
  <2>1. Searched(w, q) = Plus(w, s.params, s.sql)
    BY <1>3 DEF Searched, Plus
  <2>2. Searches(s, w.params, q.search, r)
    BY <1>1, SearchOrSearches
  <2>3. c <=> Found(q.search, r)
    BY <1>3
  <2> DEFINE P == s.params
             t == s.sql
  <2> HIDE DEF s, c
  <2>4. /\ P \in Seq(Seq(Int)) /\ Plain(t)
        /\ \A Q : Agree(Q, 0, P) =>
             /\ Agree(Q, 0, w.params) /\ Of(Row(Q, r), t) \in Three
             /\ Of(Row(Q, r), t) = 2 <=> c
    BY <2>2, <2>3 DEF Searches
  <2> HIDE DEF P, t
  <2>5. Asks(Plus(w, P, t), r, b /\ c)
    BY <2>4, OneMoreClause
  <2>6. Plus(w, P, t).bad = w.bad
    BY <1>1 DEF Plus, Statement
  <2> QED BY <2>1, <2>5, <2>6 DEF c, P, t
<1> QED BY <1>2, <1>3

-----------------------------------------------------------------------------
(* The whole statement of a request.                                         *)

LEMMA AgreeBoth ==
  ASSUME NEW p \in Seq(Seq(Int)), NEW v \in Seq(Seq(Int))
  PROVE  /\ p \o v \in Seq(Seq(Int))
         /\ \A Q : Agree(Q, 0, p \o v) => Agree(Q, 0, p) /\ Agree(Q, Len(p), v)
<1> DEFINE w == p \o v
           n == Len(p)
           m == Len(v)
<1>1. /\ w \in Seq(Seq(Int)) /\ Len(w) = n + m
      /\ \A i \in 1..n + m : w[i] = IF i <= n THEN p[i] ELSE v[i - n]
  BY ConcatProperties
<1>2. n \in Nat /\ m \in Nat
  OBVIOUS
<1> HIDE DEF w, n, m
<1>3. ASSUME NEW Q, Agree(Q, 0, w) PROVE Agree(Q, 0, p) /\ Agree(Q, n, v)
  <2>1. \A i \in 1..n + m : Q[i] = w[i]
    <3>1. \A i \in 1..n + m : Q[0 + i] = w[i] /\ 0 + i = i
      BY <1>1, <1>2, <1>3 DEF Agree
    <3> QED BY <3>1
  <2>2. \A i \in 1..n : Q[0 + i] = p[i]
    <3> SUFFICES ASSUME NEW i \in 1..n PROVE Q[0 + i] = p[i]
      OBVIOUS
    <3>1. i \in 1..n + m /\ i <= n /\ 0 + i = i
      BY <1>2
    <3> QED BY <1>1, <2>1, <3>1
  <2>3. \A i \in 1..m : Q[n + i] = v[i]
    <3> SUFFICES ASSUME NEW i \in 1..m PROVE Q[n + i] = v[i]
      OBVIOUS
    <3> DEFINE j == n + i
    <3>1. j \in 1..n + m /\ ~(j <= n) /\ j - n = i
      BY <1>2
    <3> HIDE DEF j
    <3>2. w[j] = v[j - n]
      BY <1>1, <3>1
    <3>3. Q[j] = v[i]
      BY <2>1, <3>1, <3>2
    <3> QED BY <3>3 DEF j
  <2> QED BY <2>2, <2>3 DEF Agree, n, m
<1> QED BY <1>1, <1>3 DEF w, n

LEMMA AndType ==
  ASSUME NEW a \in Seq(SqlWord), NEW b \in Seq(SqlWord)
  PROVE  And(a, b) \in Seq(SqlWord)
<1> DEFINE x == <<Tok("AND")>>
<1>1. x \in Seq(SqlWord)
  <2>1. Tok("AND") \in SqlWord
    BY MarkOf DEF Marks
  <2> QED BY <2>1
<1> HIDE DEF x
<1>2. a \o x \in Seq(SqlWord)
  BY <1>1, ConcatProperties
<1>3. (a \o x) \o b \in Seq(SqlWord)
  BY <1>2, ConcatProperties
<1> QED BY <1>3, AndIs DEF Infix, x

LEMMA PlusType ==
  ASSUME NEW w \in Statement, NEW params \in Seq(Seq(Int)), NEW t \in Seq(SqlWord)
  PROVE  Plus(w, params, t) \in Statement /\ Plus(w, params, t).bad = w.bad
<1> DEFINE sql == And(w.sql, t)
<1>1. w.sql \in Seq(SqlWord)
  BY DEF Statement
<1>2. sql \in Seq(SqlWord)
  BY <1>1, AndType
<1>3. Plus(w, params, t) = [w EXCEPT !.params = params, !.sql = sql]
  BY DEF Plus
<1> HIDE DEF sql
<1> QED BY <1>2, <1>3 DEF Statement

LEMMA SearchedType ==
  ASSUME NEW w \in Statement, NEW q, q.search \in Term, globalSearch(Fields, Indexed) # {}
  PROVE  Searched(w, q) \in Statement /\ Searched(w, q).bad = w.bad
<1> DEFINE s == SearchOr(q.search, w.params)
<1>1. CASE q.search.text = 0
  BY <1>1 DEF Searched
<1>2. CASE q.search.text # 0
  <2>1. Searched(w, q) = Plus(w, s.params, s.sql)
    BY <1>2 DEF Searched, Plus
  <2>2. w.params \in Seq(Seq(Int))
    BY DEF Statement
  <2> DEFINE r == [record_id |-> 0]
  <2>3. r.record_id \in Nat
    OBVIOUS
  <2> HIDE DEF r
  <2>4. Searches(s, w.params, q.search, r)
    BY <2>2, <2>3, SearchOrSearches
  <2> HIDE DEF s
  <2>5. s.params \in Seq(Seq(Int)) /\ s.sql \in Seq(SqlWord)
    BY <2>4 DEF Searches, Plain, Balanced
  <2> QED BY <2>1, <2>5, PlusType
<1> QED BY <1>1, <1>2

LEMMA SearchInType ==
  ASSUME NEW w \in Statement, NEW filter \in [col : STRING, term : Term]
  PROVE  SearchIn(w, filter) \in Statement /\ SearchIn(w, filter).bad = w.bad
<1> DEFINE id == filter.col = "record_id" /\ filter.term.number # None
           v == IF id THEN filter.term.number ELSE filter.term.text
           op == IF id THEN "eq" ELSE "contains"
           n == Len(w.params) + 1
           x == Test(filter.col, op, <<n>>)
           params == Append(w.params, <<v>>)
<1>1. CASE filter.term.text = 0 \/ filter.col \notin searchable(Fields)
  BY <1>1 DEF SearchIn
<1>2. CASE ~(filter.term.text = 0 \/ filter.col \notin searchable(Fields))
  <2>1. SearchIn(w, filter) = Plus(w, params, <<x>>)
    BY <1>2 DEF SearchIn, Plus
  <2>2. v \in Int /\ op \in {"contains", "eq"} /\ filter.col \in STRING
    BY DEF Term
  <2>3. w.params \in Seq(Seq(Int)) /\ n \in Nat
    BY DEF Statement
  <2> HIDE DEF v, op, n
  <2>4. x \in SqlWord
    BY <2>2, <2>3, TestOne DEF TestsOf
  <2>5. params \in Seq(Seq(Int))
    BY <2>2, <2>3, AppendAgrees
  <2> HIDE DEF x, params
  <2> DEFINE t == <<x>>
  <2>6. t \in Seq(SqlWord)
    BY <2>4
  <2> HIDE DEF t
  <2>7. Plus(w, params, t) \in Statement /\ Plus(w, params, t).bad = w.bad
    BY <2>5, <2>6, PlusType
  <2> QED BY <2>1, <2>7 DEF t
<1> QED BY <1>1, <1>2

BothHold(scope, q, r) == Meaning(scope, r) /\ Meaning([conds |-> q.conds, logic |-> q.logic], r)
First(scope) == buildExpressionWhere(scope.conds, scope.logic, 0)

LEMMA NarrowedAsks ==
  ASSUME NEW scope \in Filter, NEW q \in Question
  PROVE  LET w == Narrowed(First(scope), q)
         IN /\ w \in Statement
            /\ ~w.bad => \A r : Asks(w, r, BothHold(scope, q, r))
<1> DEFINE b == First(scope)
           n == Len(b.params)
           u == buildExpressionWhere(q.conds, q.logic, n)
           w == Narrowed(b, q)
           user == [conds |-> q.conds, logic |-> q.logic]
<1>1. /\ scope.conds \in Seq(Condition) /\ scope.logic \in Seq(Lexeme)
      /\ q.conds \in Seq(Condition) /\ q.logic \in Seq(Lexeme)
  BY DEF Filter, Question
<1>2. b \in ParserState
  BY <1>1, WrittenType DEF First
<1>3. b.params \in Seq(Seq(Int)) /\ b.sql \in Seq(SqlWord) /\ b.bad \in BOOLEAN /\ n \in Nat
  BY <1>2 DEF ParserState
<1> DEFINE k == n
<1> HIDE DEF n
<1>4. u \in ParserState
  BY <1>1, <1>3, WrittenType
<1>5. u.params \in Seq(Seq(Int)) /\ u.sql \in Seq(SqlWord) /\ u.bad \in BOOLEAN
  BY <1>4 DEF ParserState
<1>6. w = [bad |-> b.bad \/ u.bad, sql |-> And(b.sql, u.sql), params |-> b.params \o u.params]
  BY DEF Narrowed, Followed, n
<1>7. ~b.bad => Filtered(scope, 0, b)
  BY <1>1, WrittenMeans DEF First
<1>8. ~u.bad => Filtered(user, n, u)
  <2>1. user.conds = q.conds /\ user.logic = q.logic
    OBVIOUS
  <2> HIDE DEF user
  <2> QED BY <1>1, <1>3, <2>1, WrittenMeans
<1> HIDE DEF b, u, w, user
<1> DEFINE sql == And(b.sql, u.sql)
           params == b.params \o u.params
<1>9. sql \in Seq(SqlWord)
  BY <1>3, <1>5, AndType
<1>10. /\ params \in Seq(Seq(Int))
       /\ \A Q : Agree(Q, 0, params) => Agree(Q, 0, b.params) /\ Agree(Q, n, u.params)
  BY <1>3, <1>5, AgreeBoth DEF n
<1>11. w = [bad |-> b.bad \/ u.bad, sql |-> sql, params |-> params]
  BY <1>6
<1> HIDE DEF sql, params
<1>12. w \in Statement /\ w.sql = sql /\ w.params = params /\ w.bad = (b.bad \/ u.bad)
  BY <1>3, <1>5, <1>9, <1>10, <1>11 DEF Statement
<1>13. ASSUME ~w.bad, NEW r PROVE Asks(w, r, BothHold(scope, q, r))
  <2>1. Filtered(scope, 0, b) /\ Filtered(user, n, u)
    BY <1>7, <1>8, <1>12, <1>13
  <2>2. Clausal(b.sql) /\ Clausal(u.sql)
    BY <2>1 DEF Filtered
  <2>3. Clausal(sql)
    BY <2>2, AndClausal DEF sql
  <2>4. ASSUME NEW Q, Agree(Q, 0, params)
        PROVE  Chain(Row(Q, r), sql) /\ (Of(Row(Q, r), sql) = 2 <=> BothHold(scope, q, r))
    <3> DEFINE h == Row(Q, r)
    <3>1. Agree(Q, 0, b.params) /\ Agree(Q, n, u.params)
      BY <1>10, <2>4
    <3>2. Chain(h, b.sql) /\ (Of(h, b.sql) = 2 <=> Meaning(scope, r))
      BY <2>1, <3>1 DEF Filtered
    <3>3. Chain(h, u.sql) /\ (Of(h, u.sql) = 2 <=> Meaning(user, r))
      BY <2>1, <3>1 DEF Filtered
    <3>4. Reading(h)
      BY RowReads
    <3> HIDE DEF h
    <3>5. Chain(h, sql) /\ (Of(h, sql) = 2 <=> Of(h, b.sql) = 2 /\ Of(h, u.sql) = 2)
      BY <2>2, <3>2, <3>3, <3>4, AndChain DEF sql
    <3>6. Chain(h, sql) /\ (Of(h, sql) = 2 <=> BothHold(scope, q, r))
      BY <3>2, <3>3, <3>5 DEF BothHold, user
    <3> QED BY <3>6 DEF h
  <2> QED BY <1>12, <2>3, <2>4 DEF Asks
<1> QED BY <1>12, <1>13 DEF w, b

Opening(scope, q) == Searched(Narrowed(First(scope), q), q)
\* What a statement with the first n searches in columns asks.
AskedSoFar(scope, q, r, n) ==
  /\ BothHold(scope, q, r) /\ (q.search.text # 0 => Found(q.search, r))
  /\ \A i \in 1..n : Wanted(q.cols[i], r)

LEMMA OpeningAsks ==
  ASSUME NEW scope \in Filter, NEW q \in Question, globalSearch(Fields, Indexed) # {}
  PROVE  /\ Opening(scope, q) \in Statement
         /\ ~Opening(scope, q).bad =>
              \A r : r.record_id \in Nat => Asks(Opening(scope, q), r, AskedSoFar(scope, q, r, 0))
<1> DEFINE w == Narrowed(First(scope), q)
<1>1. /\ w \in Statement
      /\ ~w.bad => \A r : Asks(w, r, BothHold(scope, q, r))
  BY NarrowedAsks
<1>2. q.search \in Term
  BY DEF Question
<1> HIDE DEF w
<1>3. Searched(w, q) \in Statement /\ Searched(w, q).bad = w.bad
  BY <1>1, <1>2, SearchedType
<1>4. ASSUME ~w.bad, NEW r, r.record_id \in Nat
      PROVE  Asks(Searched(w, q), r, AskedSoFar(scope, q, r, 0))
  <2> DEFINE b == BothHold(scope, q, r)
             c == q.search.text # 0 => Found(q.search, r)
  <2>1. Asks(w, r, b)
    BY <1>1, <1>4
  <2> HIDE DEF b
  <2>2. Asks(Searched(w, q), r, b /\ c)
    BY <1>2, <1>4, <2>1, SearchedAsks
  <2>3. AskedSoFar(scope, q, r, 0) <=> b /\ c
    BY DEF AskedSoFar, b
  <2> QED BY <2>2, <2>3 DEF Asks
<1> QED BY <1>3, <1>4 DEF Opening, w

LEMMA WhereAsks ==
  ASSUME NEW scope \in Filter, NEW q \in Question, globalSearch(Fields, Indexed) # {}
  PROVE  /\ whereFor(scope, q) \in Statement
         /\ ~whereFor(scope, q).bad =>
              \A r : r.record_id \in Nat => Asks(whereFor(scope, q), r, Matches(scope, q, r))
<1> DEFINE N == Len(q.cols)
           s == Opening(scope, q)
           Body(n, x) == SearchIn(x, q.cols[n])
           G == [p \in (1..N) \X Statement |-> Body(p[1], p[2])]
           upTo == CHOOSE f : f = [n \in 0..N |-> IF n = 0 THEN s ELSE Body(n, f[n - 1])]
           Right(n, x) == x.bad = s.bad /\ (~s.bad =>
             \A r : r.record_id \in Nat => Asks(x, r, AskedSoFar(scope, q, r, n)))
<1>0. q.cols \in Seq([col : STRING, term : Term])
  BY DEF Question
<1>1. N \in Nat /\ DOMAIN q.cols = 1..N /\ \A n \in 1..N : q.cols[n] \in [col : STRING, term : Term]
  <2> DEFINE X == [col : STRING, term : Term]
             cols == q.cols
  <2>1. cols \in Seq(X)
    BY <1>0
  <2> HIDE DEF X, cols
  <2>2. Len(cols) \in Nat /\ DOMAIN cols = 1..Len(cols) /\ \A n \in 1..Len(cols) : cols[n] \in X
    BY <2>1
  <2> QED BY <2>2 DEF X, cols
<1>2. whereFor(scope, q) = upTo[N]
  <2>1. whereFor(scope, q)
          = (CHOOSE f : f = [n \in 0..Len(q.cols) |->
               IF n = 0 THEN Searched(Narrowed(buildExpressionWhere(scope.conds, scope.logic, 0), q), q)
               ELSE SearchIn(f[n - 1], q.cols[n])])[Len(q.cols)]
    BY DEF whereFor
  <2> QED BY <2>1 DEF N, Body, upTo, s, Opening, First
<1>3. \A n \in 1..N, x \in Statement : Body(n, x) \in Statement /\ Body(n, x).bad = x.bad
  BY <1>1, SearchInType
<1>s. ASSUME NEW n \in Nat, n + 1 \in 1..N, NEW x \in Statement, Right(n, x) PROVE Right(n + 1, Body(n + 1, x))
  <2>1. Body(n + 1, x).bad = s.bad
    BY <1>3, <1>s
  <2>2. ASSUME ~s.bad, NEW r, r.record_id \in Nat
        PROVE  Asks(Body(n + 1, x), r, AskedSoFar(scope, q, r, n + 1))
    <3> DEFINE filter == q.cols[n + 1]
               b == AskedSoFar(scope, q, r, n)
               c == Wanted(filter, r)
    <3>1. Asks(x, r, b) /\ filter \in [col : STRING, term : Term]
      BY <1>1, <1>s, <2>2
    <3>2. AskedSoFar(scope, q, r, n + 1) <=> b /\ c
      <4>1. \A i \in 1..n + 1 : i \in 1..n \/ i = n + 1
        OBVIOUS
      <4>2. n + 1 \in 1..n + 1 /\ \A i \in 1..n : i \in 1..n + 1
        OBVIOUS
      <4>3. (\A i \in 1..n + 1 : Wanted(q.cols[i], r)) <=> (\A i \in 1..n : Wanted(q.cols[i], r)) /\ c
        BY <4>1, <4>2
      <4> QED BY <4>3 DEF AskedSoFar
    <3> HIDE DEF b, filter
    <3>3. Asks(SearchIn(x, filter), r, b /\ c)
      BY <2>2, <3>1, SearchInAsks
    <3>4. SearchIn(x, filter) = Body(n + 1, x)
      BY DEF filter
    <3> QED BY <3>2, <3>3, <3>4 DEF Asks
  <2> QED BY <2>1, <2>2
<1>o. s \in Statement /\ Right(0, s)
  BY OpeningAsks
<1> HIDE DEF Body, N, s, Right
<1>4. G \in Steps(N, Statement) /\ \A n \in 1..N, x \in Statement : G[<<n, x>>] = Body(n, x)
  BY <1>3 DEF Steps
<1> HIDE DEF G
<1>5. \E f : f = [n \in 0..N |-> IF n = 0 THEN s ELSE Body(n, f[n - 1])]
  <2>2. PICK f : Iterates(f, N, Statement, s, G)
    BY <1>1, <1>4, <1>o, IterationExists
  <2>3. ASSUME NEW n \in 0..N PROVE f[n] = IF n = 0 THEN s ELSE Body(n, f[n - 1])
    <3>1. CASE n = 0
      BY <2>2, <3>1 DEF Iterates
    <3>2. CASE n # 0
      <4>1. n \in 1..N /\ n - 1 \in 0..N
        BY <1>1, <3>2
      <4>2. f[n - 1] \in Statement /\ f[n] = G[<<n, f[n - 1]>>]
        BY <2>2, <4>1 DEF Iterates
      <4> QED BY <1>4, <3>2, <4>1, <4>2
    <3> QED BY <3>1, <3>2
  <2>4. f = [n \in 0..N |-> f[n]]
    BY <2>2 DEF Iterates
  <2>5. f = [n \in 0..N |-> IF n = 0 THEN s ELSE Body(n, f[n - 1])]
    BY <2>3, <2>4
  <2> QED BY <2>5
<1>6. upTo = [n \in 0..N |-> IF n = 0 THEN s ELSE Body(n, upTo[n - 1])]
  BY <1>5
<1> HIDE DEF upTo
<1>7. upTo[0] = s /\ \A n \in 1..N : upTo[n] = Body(n, upTo[n - 1])
  BY <1>1, <1>6
<1> DEFINE S == {n \in Nat : n \in 0..N => upTo[n] \in Statement /\ Right(n, upTo[n])}
<1>8. 0 \in S
  BY <1>7, <1>o
<1>9. ASSUME NEW n \in Nat, n \in S PROVE n + 1 \in S
  <2> SUFFICES ASSUME n + 1 \in 0..N
               PROVE  upTo[n + 1] \in Statement /\ Right(n + 1, upTo[n + 1])
    OBVIOUS
  <2>1. n + 1 \in 1..N /\ (n + 1) - 1 = n /\ n \in 0..N
    BY <1>1
  <2>2. upTo[n] \in Statement /\ Right(n, upTo[n])
    BY <1>9, <2>1
  <2>3. upTo[n + 1] = Body(n + 1, upTo[n])
    BY <1>7, <2>1
  <2> QED BY <1>3, <1>s, <2>1, <2>2, <2>3
<1> HIDE DEF S
<1>10. N \in S
  BY <1>1, <1>8, <1>9, SetInduction
<1> DEFINE w == whereFor(scope, q)
<1>11. w \in Statement /\ Right(N, w)
  BY <1>1, <1>2, <1>10 DEF S
<1>12. ASSUME NEW r PROVE AskedSoFar(scope, q, r, N) <=> Matches(scope, q, r)
  BY <1>1 DEF AskedSoFar, Matches, BothHold, Found, Wanted, N
<1> HIDE DEF w
<1>13. ASSUME ~w.bad, NEW r, r.record_id \in Nat PROVE Asks(w, r, Matches(scope, q, r))
  <2>1. Asks(w, r, AskedSoFar(scope, q, r, N))
    BY <1>11, <1>13 DEF Right
  <2> QED BY <1>12, <2>1 DEF Asks
<1> QED BY <1>11, <1>13 DEF w

\* The statement of a request selects what the request asks for: every row that
\* matches the view's scope, the user's conditions and searches, and no other.
THEOREM WhereMatches ==
  ASSUME NEW scope \in Filter, NEW q \in Question, globalSearch(Fields, Indexed) # {},
         ~whereFor(scope, q).bad, NEW S, \A r \in S : r.record_id \in Nat
  PROVE  Selected(S, whereFor(scope, q)) = {r \in S : Matches(scope, q, r)}
<1> DEFINE w == whereFor(scope, q)
<1>1. ASSUME NEW r \in S
      PROVE  Value[[i \in DOMAIN w.sql |-> WordValue(w.sql[i], w.params, r)]] = 2 <=> Matches(scope, q, r)
  <2> DEFINE h == Row(w.params, r)
  <2>1. Asks(w, r, Matches(scope, q, r))
    BY WhereAsks
  <2> HIDE DEF w
  <2>2. w.sql \in Seq(SqlWord)
    BY <2>1 DEF Asks, Statement
  <2>3. Agree(w.params, 0, w.params)
    BY <2>1 DEF Asks, Statement, Agree
  <2>4. Of(h, w.sql) = 2 <=> Matches(scope, q, r)
    BY <2>1, <2>3 DEF Asks
  <2>5. Image(h, w.sql) = [i \in DOMAIN w.sql |-> WordValue(w.sql[i], w.params, r)]
    <3>1. \A i \in DOMAIN w.sql : w.sql[i] \in SqlWord
      BY <2>2
    <3> QED BY <3>1 DEF Image, Row
  <2> QED BY <2>4, <2>5 DEF Of
<1> HIDE DEF w
<1>2. Selected(S, w) = {r \in S : Value[[i \in DOMAIN w.sql |-> WordValue(w.sql[i], w.params, r)]] = 2}
  BY DEF Selected
<1> QED BY <1>1, <1>2 DEF w

-----------------------------------------------------------------------------
(* Pages and exports hold what was asked for.                               *)

Wanting(scope, q) == {r \in Records : Matches(scope, q, r)}

\* A request under way, and an export, with rows that were asked for.
Narrow(x) ==
  /\ x \in [pc : {"context", "read", "keep"}, q : Question, scope : Filter, limit : Limit,
            columns : {x.columns}, count : {x.count}, rows : Seq(Wanting(x.scope, x.q)),
            paged : {x.paged}]
  /\ ~whereFor(x.scope, x.q).bad
NarrowSent(x) ==
  /\ x.where = whereFor(x.scope, x.q) /\ ~x.where.bad
  /\ x.sent \in Seq(Wanting(x.scope, x.q))

NarrowInv ==
  ExportInv /\ (reader # Idle => Narrow(reader)) /\ (export # Idle => NarrowSent(export))

LEMMA SeqInto ==
  ASSUME NEW S, NEW T, S \subseteq T, NEW s \in Seq(S) PROVE s \in Seq(T)
<1>1. s \in [1..Len(s) -> S] /\ Len(s) \in Nat
  OBVIOUS
<1>2. s \in [1..Len(s) -> T]
  BY <1>1
<1> QED BY <1>1, <1>2

\* A window of a sequence.
LEMMA WindowOf ==
  ASSUME NEW S, NEW s \in Seq(S), NEW offset \in Nat, NEW size \in Nat
  PROVE  Window(s, offset, size) \in Seq(S)
<1> DEFINE k == Min({Len(s), offset + size})
<1>1. Len(s) \in Nat /\ offset + size \in Nat
  OBVIOUS
<1>2. k = IF Len(s) <= offset + size THEN Len(s) ELSE offset + size
  <2> DEFINE a == Len(s)
             b == offset + size
  <2> HIDE DEF a, b
  <2>1. Min({a, b}) = IF a <= b THEN a ELSE b
    BY <1>1, LeastOfTwo DEF a, b
  <2> QED BY <2>1 DEF a, b
<1> HIDE DEF k
<1>3. k \in Nat /\ k <= Len(s)
  BY <1>1, <1>2
<1>4. \A i \in (offset + 1)..k : s[i] \in S
  BY <1>3
<1>5. SubSeq(s, offset + 1, k) \in Seq(S)
  BY <1>3, <1>4
<1> QED BY <1>5 DEF Window, k

LEMMA LargerOf ==
  ASSUME NEW a \in Int, NEW b \in Int
  PROVE  Max({a, b}) = IF a >= b THEN a ELSE b
BY DEF Max

LEMMA LesserOf ==
  ASSUME NEW a \in Int, NEW b \in Int
  PROVE  Min({a, b}) = IF a <= b THEN a ELSE b
BY DEF Min

LEMMA ProductOf == ASSUME NEW a \in Nat, NEW b \in Nat PROVE a * b \in Nat
OBVIOUS

\* A question whose window is shrunk asks for the same rows.
LEMMA CappedAsks ==
  ASSUME NEW q \in Question, NEW limit \in Limit, NEW scope
  PROVE  LET c == capPage(q, limit)
         IN /\ c.size \in Nat /\ c.page = q.page /\ c.sort = q.sort /\ c.order = q.order
            /\ (c.page - 1) * c.size \in Nat
            /\ whereFor(scope, c) = whereFor(scope, q)
<1> DEFINE c == capPage(q, limit)
           left == limit - (q.page - 1) * q.size
<1>1. q.page \in Nat /\ q.page # 0 /\ q.size \in Nat /\ q.page - 1 \in Nat
  BY DEF Question
<1>2. /\ c.size \in Nat /\ c.page = q.page /\ c.sort = q.sort /\ c.order = q.order
      /\ c.conds = q.conds /\ c.logic = q.logic /\ c.search = q.search /\ c.cols = q.cols
  <2>1. CASE limit = None
    BY <1>1, <2>1 DEF capPage
  <2>2. CASE limit # None
    <3>1. left \in Int
      <4>1. (q.page - 1) * q.size \in Nat
        BY <1>1, ProductOf
      <4> DEFINE p == (q.page - 1) * q.size
      <4> HIDE DEF p
      <4> QED BY <2>2, <4>1 DEF Limit, p
    <3> DEFINE least == Min({q.size, left})
               size == Max({0, least})
    <3>2. c = [q EXCEPT !.size = size]
      BY <2>2 DEF capPage
    <3> HIDE DEF left
    <3>3. least \in Int
      BY <1>1, <3>1, LesserOf
    <3> HIDE DEF least
    <3>4. size \in Nat
      BY <3>3, LargerOf
    <3> HIDE DEF size
    <3> QED BY <3>2, <3>4 DEF Question
  <2> QED BY <2>1, <2>2
<1> HIDE DEF c
<1>3. (c.page - 1) * c.size \in Nat
  BY <1>1, <1>2, ProductOf
<1>4. whereFor(scope, c) = whereFor(scope, q)
  BY <1>2 DEF whereFor, Searched, Narrowed
<1> QED BY <1>2, <1>3, <1>4 DEF c

\* Rows in the order asked for: all of them, and no others.
LEMMA SortedLists ==
  ASSUME NEW S, Tidy(S), NEW q
  PROVE  Sorted(S, q) \in Seq(S) /\ Len(Sorted(S, q)) = Cardinality(S)
<1> DEFINE col == SortColumn(q)
           key(r) == SortKey(r, col)
           less(a, b) == key(a) < key(b) \/ (key(a) = key(b) /\ a.record_id < b.record_id)
           before == {p \in S \X S : IF q.order = "asc" THEN less(p[1], p[2]) ELSE less(p[2], p[1])}
<1>1. \A r \in S : r.record_id \in Nat /\ \A f \in DOMAIN Fields \cup {"record_id"} : r[f] \in Int
  BY TableAssumption DEF Tidy, Records
<1>2. \A r \in S : key(r) \in Int /\ r.record_id \in Int
  BY <1>1 DEF SortKey, SortColumn
<1>3. Sorted(S, q) = InOrder(S, before)
  BY DEF Sorted
<1> HIDE DEF key
<1>4. \A a, b \in S : <<a, b>> \in before <=> IF q.order = "asc" THEN less(a, b) ELSE less(b, a)
  OBVIOUS
<1>5. /\ \A a \in S : ~less(a, a)
      /\ \A a, b, c \in S : less(a, b) /\ less(b, c) => less(a, c)
      /\ \A a, b \in S : a # b => less(a, b) \/ less(b, a)
  BY <1>2 DEF Tidy
<1> HIDE DEF less, before
<1>6. Strict(S, before)
  BY <1>4, <1>5 DEF Strict, Tidy
<1>7. Listing(InOrder(S, before), S, before)
  BY <1>6, InOrderLists
<1> QED BY <1>3, <1>7 DEF Listing

\* The rows of a statement that was built from a question are those asked for.
LEMMA SelectedIsWanted ==
  ASSUME NEW scope \in Filter, NEW q \in Question, globalSearch(Fields, Indexed) # {},
         ~whereFor(scope, q).bad, NEW S, Tidy(S)
  PROVE  /\ Selected(S, whereFor(scope, q)) \subseteq Wanting(scope, q)
         /\ Tidy(Selected(S, whereFor(scope, q)))
<1> DEFINE T == Selected(S, whereFor(scope, q))
<1>1. \A r \in S : r.record_id \in Nat /\ r \in Records
  BY TableAssumption DEF Tidy, Records
<1>2. T = {r \in S : Matches(scope, q, r)}
  BY <1>1, WhereMatches
<1> HIDE DEF T
<1>3. T \subseteq S /\ IsFiniteSet(S)
  BY <1>2 DEF Tidy
<1>4. IsFiniteSet(T)
  BY <1>3, PartOf
<1>5. T \subseteq Wanting(scope, q)
  BY <1>1, <1>2 DEF Wanting
<1>6. Tidy(T)
  BY <1>3, <1>4 DEF Tidy
<1> QED BY <1>5, <1>6 DEF T

\* A page is read from the rows asked for.
LEMMA PageIsWanted ==
  ASSUME globalSearch(Fields, Indexed) # {}, Tidy(rows), NEW scope \in Filter, NEW q \in Question,
         NEW limit \in Limit, ~whereFor(scope, q).bad
  PROVE  pageFindings(scope, capPage(q, limit)) \in Seq(Wanting(scope, q))
<1> DEFINE c == capPage(q, limit)
           T == Selected(rows, whereFor(scope, q))
           s == Sorted(T, c)
           offset == (c.page - 1) * c.size
<1>1. offset \in Nat /\ c.size \in Nat /\ whereFor(scope, c) = whereFor(scope, q)
  BY CappedAsks
<1>2. pageFindings(scope, c) = Window(s, offset, c.size)
  BY <1>1 DEF pageFindings
<1>3. T \subseteq Wanting(scope, q) /\ Tidy(T)
  BY SelectedIsWanted
<1> HIDE DEF T, c
<1>4. s \in Seq(T)
  BY <1>3, SortedLists
<1> HIDE DEF s, offset
<1>5. Window(s, offset, c.size) \in Seq(T)
  BY <1>1, <1>4, WindowOf
<1> DEFINE w == Window(s, offset, c.size)
<1> HIDE DEF w
<1>6. w \in Seq(Wanting(scope, q))
  BY <1>3, <1>5, SeqInto DEF w
<1> QED BY <1>2, <1>6 DEF w, c

\* A request under way asks for what it asked for, whatever is read for it.
LEMMA ReaderNarrows ==
  ASSUME globalSearch(Fields, Indexed) # {}, ExportInv, reader # Idle, Narrow(reader),
         ReadContext \/ GetCount \/ KeepCount \/ GetPage
  PROVE  reader' # Idle => Narrow(reader')
<1> DEFINE M == Wanting(reader.scope, reader.q)
<1>1. /\ reader \in [pc : {"context", "read", "keep"}, q : Question, scope : Filter, limit : Limit,
            columns : {reader.columns}, count : {reader.count}, rows : Seq(M),
            paged : {reader.paged}]
      /\ reader.scope \in Filter /\ reader.q \in Question /\ reader.limit \in Limit
      /\ ~whereFor(reader.scope, reader.q).bad
  BY DEF Narrow
<1> HIDE DEF M
<1>2. CASE ReadContext
  <2>1. CASE reader' = Idle
    BY <2>1
  <2>2. CASE reader' = [reader EXCEPT !.pc = "read", !.columns = contextFor(view)]
    <3> DEFINE columns == contextFor(view)
    <3>1. reader' = [reader EXCEPT !.pc = "read", !.columns = columns]
      BY <2>2
    <3> HIDE DEF columns
    <3>2. Narrow(reader')
      BY <1>1, <3>1 DEF Narrow, M
    <3> QED BY <3>2
  <2> QED BY <1>2, <2>1, <2>2 DEF ReadContext
<1>3. CASE GetCount
  <2>1. \/ \E count : reader' = [reader EXCEPT !.count = count]
        \/ \E count : reader' = [reader EXCEPT !.pc = "keep", !.count = count]
    BY <1>3 DEF GetCount
  <2>2. CASE \E count : reader' = [reader EXCEPT !.count = count]
    BY <1>1, <2>2 DEF Narrow, M
  <2>3. CASE \E count : reader' = [reader EXCEPT !.pc = "keep", !.count = count]
    BY <1>1, <2>3 DEF Narrow, M
  <2> QED BY <2>1, <2>2, <2>3
<1>4. CASE KeepCount
  <2>1. reader' = [reader EXCEPT !.pc = "read"]
    BY <1>4 DEF KeepCount
  <2>2. Narrow(reader')
    BY <1>1, <2>1 DEF Narrow, M
  <2> QED BY <2>2
<1>5. CASE GetPage
  <2> DEFINE c == capPage(reader.q, reader.limit)
             page == IF c.size > 0 THEN pageFindings(reader.scope, c) ELSE <<>>
  <2>1. reader' = [reader EXCEPT !.paged = version, !.rows = page]
    BY <1>5 DEF GetPage
  <2>2. page \in Seq(M)
    <3>1. pageFindings(reader.scope, c) \in Seq(M)
      BY <1>1, PageIsWanted DEF ExportInv, M
    <3>2. <<>> \in Seq(M)
      OBVIOUS
    <3> HIDE DEF c
    <3> QED BY <3>1, <3>2
  <2> HIDE DEF page
  <2>3. Narrow(reader')
    BY <1>1, <2>1, <2>2 DEF Narrow, M
  <2> QED BY <2>3
<1> QED BY <1>2, <1>3, <1>4, <1>5

\* A chunk holds rows that were asked for.
LEMMA ChunkNarrows ==
  ASSUME globalSearch(Fields, Indexed) # {}, ExportInv, GoodExport(export), NarrowSent(export), StreamChunk
  PROVE  NarrowSent(export')
<1> DEFINE scope == export.scope
           q == export.q
           M == Wanting(scope, q)
           T == Selected(rows, export.where)
           left == {r \in T : After(export.cursor, r)}
           R == InOrder(left, {p \in left \X left : p[1].record_id > p[2].record_id})
           batch == Window(R, 0, ChunkSize)
           all == export.sent \o batch
           byView == Cut(all, export.limit)
           sent == Cut(byView, export.room)
           more == /\ Len(batch) = ChunkSize
                   /\ export.limit # None => Len(sent) < export.limit
                   /\ export.room # None => Len(sent) < export.room
           cursor == IF batch = <<>> THEN export.cursor ELSE Last(batch).record_id
<1>1. export' = [export EXCEPT !.sent = sent, !.cursor = cursor,
                               !.pc = IF more THEN "stream" ELSE "done"]
  BY DEF StreamChunk
<1>2. /\ export.limit \in Limit /\ export.room \in Limit
      /\ scope \in Filter /\ q \in Question /\ export.sent \in Seq(M)
      /\ export.where = whereFor(scope, q) /\ ~whereFor(scope, q).bad
  BY DEF GoodExport, Exporting, NarrowSent
<1>3. T \subseteq M /\ Tidy(T)
  BY <1>2, SelectedIsWanted DEF ExportInv
<1> HIDE DEF T
<1>4. left \subseteq T /\ Tidy(left)
  <2>1. left \subseteq T
    OBVIOUS
  <2> HIDE DEF left
  <2> QED BY <1>3, <2>1, PartOf DEF Tidy
<1>5. R \in Seq(left)
  BY <1>4, Downwards
<1> HIDE DEF R
<1>6. batch \in Seq(left)
  BY <1>5, FirstWindow, LimitsAssumption
<1> HIDE DEF batch, left, M
<1>7. batch \in Seq(M)
  <2>1. left \subseteq M
    BY <1>3, <1>4
  <2> QED BY <1>6, <2>1, SeqInto
<1>8. all \in Seq(M)
  BY <1>2, <1>7, ConcatProperties
<1> HIDE DEF all
<1>9. byView \in Seq(M)
  BY <1>2, <1>8, CutIsPrefix DEF Limit
<1> HIDE DEF byView
<1>10. sent \in Seq(M)
  BY <1>2, <1>9, CutIsPrefix DEF Limit
<1> HIDE DEF sent, more, cursor
<1>11. PICK w : w = export.where
  OBVIOUS
<1>12. export \in [pc : {"stream", "done"}, q : Question, scope : Filter, limit : Limit, room : Limit,
         where : {w}, cursor : Limit, sent : Seq(Records), steady : SUBSET Records]
  BY <1>11 DEF GoodExport, Exporting
<1>13. /\ export'.where = export.where /\ export'.scope = scope /\ export'.q = q
       /\ export'.sent = sent
  BY <1>1, <1>12
<1> QED BY <1>2, <1>10, <1>13 DEF NarrowSent, M

\* A question starts a request that its statement can answer.
LEMMA AskNarrows ==
  ASSUME ExportInv, NEW q \in Queries, Ask(q)
  PROVE  Narrow(reader')
<1>1. view.scope \in Filter /\ view.limit \in Limit /\ q \in Question
  BY AskedAssumption DEF ExportInv, ViewRow, Limit
<1> DEFINE x == [pc |-> "context", q |-> q, scope |-> view.scope, limit |-> view.limit,
                columns |-> {}, count |-> NoCount, rows |-> <<>>, paged |-> None]
<1>2. reader' = x /\ ~whereFor(view.scope, q).bad
  BY DEF Ask
<1>3. /\ x.scope = view.scope /\ x.q = q /\ x.columns = {} /\ x.count = NoCount
      /\ x.paged = None
  OBVIOUS
<1> DEFINE M == Wanting(x.scope, x.q)
<1> HIDE DEF M
<1>4. x \in [pc : {"context", "read", "keep"}, q : Question, scope : Filter, limit : Limit,
            columns : {{}}, count : {NoCount}, rows : Seq(M),
            paged : {None}]
  BY <1>1
<1> HIDE DEF x
<1> QED BY <1>2, <1>3, <1>4 DEF Narrow, M

LEMMA ReadersAct ==
  ASSUME ReadContext \/ GetCount \/ KeepCount \/ GetPage
  PROVE  reader # Idle
<1>1. reader.pc \in {"context", "read", "keep"}
  BY DEF ReadContext, GetCount, KeepCount, GetPage
<1> QED BY <1>1 DEF Idle

LEMMA NextNarrow ==
  ASSUME globalSearch(Fields, Indexed) # {}, NarrowInv, [Next]_vars
  PROVE  NarrowInv'
<1>1. ExportInv /\ ExportInv'
  BY NextExport DEF NarrowInv
<1>2. CASE UNCHANGED <<reader, export>>
  BY <1>1, <1>2 DEF NarrowInv, Narrow, NarrowSent
<1>3. ASSUME NEW q \in Queries, Ask(q) PROVE NarrowInv'
  <2>1. UNCHANGED export
    BY <1>3 DEF Ask
  <2> QED BY <1>1, <1>3, <2>1, AskNarrows DEF NarrowInv, NarrowSent, Narrow
<1>4. CASE ReadContext \/ GetCount \/ KeepCount \/ GetPage
  <2>1. UNCHANGED export
    BY <1>4 DEF ReadContext, GetCount, KeepCount, GetPage
  <2>2. reader # Idle
    BY <1>4, ReadersAct
  <2>3. reader' # Idle => Narrow(reader')
    BY <1>1, <1>4, <2>2, ReaderNarrows DEF NarrowInv
  <2> QED BY <1>1, <2>1, <2>3 DEF NarrowInv, NarrowSent, Narrow
<1>5. CASE Answer \/ Expire
  <2>1. UNCHANGED export /\ (reader' = Idle \/ UNCHANGED reader)
    BY <1>5 DEF Answer, Expire
  <2> QED BY <1>1, <2>1 DEF NarrowInv, NarrowSent, Narrow
<1>6. CASE StreamChunk
  <2>1. export # Idle /\ UNCHANGED reader
    BY <1>6 DEF StreamChunk, Idle
  <2>2. NarrowSent(export')
    BY <1>1, <1>6, <2>1, ChunkNarrows DEF NarrowInv, ExportInv
  <2> QED BY <1>1, <2>1, <2>2 DEF NarrowInv, NarrowSent, Narrow
<1>7. CASE CloseExport
  BY <1>1, <1>7 DEF CloseExport, NarrowInv, Narrow
<1>8. ASSUME NEW r \in Versions, Write(r) PROVE NarrowInv'
  <2>1. UNCHANGED reader
    BY <1>8 DEF Write
  <2>2. CASE export = Idle
    BY <1>1, <1>8, <2>1, <2>2 DEF Write, NarrowInv, Narrow
  <2>3. CASE export # Idle
    <3> DEFINE steady == {o \in export.steady : o.record_id # r.record_id}
    <3>1. export' = [export EXCEPT !.steady = steady]
      BY <1>8, <2>3 DEF Write
    <3> HIDE DEF steady
    <3>2. PICK w : w = export.where
      OBVIOUS
    <3>3. export \in [pc : {"stream", "done"}, q : Question, scope : Filter, limit : Limit, room : Limit,
           where : {w}, cursor : Limit, sent : Seq(Records), steady : SUBSET Records]
      BY <1>1, <2>3, <3>2 DEF ExportInv, GoodExport, Exporting
    <3>4. /\ export'.where = export.where /\ export'.scope = export.scope
          /\ export'.q = export.q /\ export'.sent = export.sent
      BY <3>1, <3>3
    <3>5. NarrowSent(export')
      BY <2>3, <3>4 DEF NarrowInv, NarrowSent
    <3> QED BY <1>1, <2>1, <3>5 DEF NarrowInv, NarrowSent, Narrow
  <2> QED BY <2>2, <2>3
<1>9. ASSUME NEW q \in Queries, NEW format, StartExport(q, format) PROVE NarrowInv'
  <2>1. UNCHANGED reader
    BY <1>9 DEF StartExport
  <2> DEFINE w == whereFor(view.scope, q)
  <2>2. ~w.bad /\ export' = [pc |-> "stream", q |-> q, scope |-> view.scope, limit |-> view.limit,
                room |-> IF format = "pdf" THEN PdfRowLimit ELSE None,
                where |-> w, cursor |-> None, sent |-> <<>>,
                steady |-> Selected(rows, w)]
    BY <1>9 DEF StartExport, Streaming
  <2>3. /\ export'.where = w /\ export'.scope = view.scope /\ export'.q = q /\ export'.sent = <<>>
    BY <2>2
  <2>4. NarrowSent(export')
    <3>1. export'.where = whereFor(export'.scope, export'.q)
      BY <2>3
    <3>2. \A X : <<>> \in Seq(X)
      OBVIOUS
    <3> HIDE DEF w
    <3> QED BY <2>2, <2>3, <3>1, <3>2 DEF NarrowSent
  <2> QED BY <1>1, <2>1, <2>4 DEF NarrowInv, NarrowSent, Narrow
<1>10. CASE SyncDone \/ EditDone \/ EditFails
  <2>1. UNCHANGED <<reader, export>>
    BY <1>10 DEF SyncDone, EditDone, EditFails
  <2> QED BY <1>2, <2>1
<1>11. CASE \/ \E new \in Edits : updateView(new)
            \/ setColumns \/ setAccessRoles
            \/ \E c \in Toggled : upsertColumn(c) \/ deleteColumn(c)
  <2>1. UNCHANGED <<reader, export>>
    BY <1>11 DEF updateView, setColumns, setAccessRoles, upsertColumn, deleteColumn
  <2> QED BY <1>2, <2>1
<1>12. CASE UNCHANGED vars
  BY <1>2, <1>12 DEF vars
<1> QED BY <1>3, <1>4, <1>5, <1>6, <1>7, <1>8, <1>9, <1>10, <1>11, <1>12 DEF Next

\* Whatever the view, the filters and the searches are, a page and an export hold
\* rows of the view's scope that the user asked for, and no others, in a dataset
\* with a column to search in (whereFor, findingsData, streamFindings).
THEOREM PagesNarrow ==
  ASSUME globalSearch(Fields, Indexed) # {} PROVE Spec => []OnlyNarrows
<1>1. Init => NarrowInv
  <2>1. Init => ExportInv
    BY TableAssumption, AskedAssumption DEF Init, ExportInv, Tidy, Records, Editing
  <2> QED BY <2>1 DEF Init, NarrowInv
<1>2. NarrowInv /\ [Next]_vars => NarrowInv'
  BY NextNarrow
<1>3. NarrowInv => OnlyNarrows
  <2> SUFFICES ASSUME NarrowInv PROVE OnlyNarrows
    OBVIOUS
  <2>1. ASSUME reader # Idle, NEW i \in DOMAIN reader.rows
        PROVE  Matches(reader.scope, reader.q, reader.rows[i])
    <3>1. reader.rows \in Seq(Wanting(reader.scope, reader.q))
      BY <2>1 DEF NarrowInv, Narrow
    <3>2. reader.rows[i] \in Wanting(reader.scope, reader.q)
      BY <2>1, <3>1
    <3> QED BY <3>2 DEF Wanting
  <2>2. ASSUME export # Idle, NEW i \in DOMAIN export.sent
        PROVE  Matches(export.scope, export.q, export.sent[i])
    <3>1. export.sent \in Seq(Wanting(export.scope, export.q))
      BY <2>2 DEF NarrowInv, NarrowSent
    <3>2. export.sent[i] \in Wanting(export.scope, export.q)
      BY <2>2, <3>1
    <3> QED BY <3>2 DEF Wanting
  <2> QED BY <2>1, <2>2 DEF OnlyNarrows
<1> QED BY <1>1, <1>2, <1>3, PTL DEF Spec

-----------------------------------------------------------------------------
(* Pages are slices of the rows in their order.                             *)

\* Where a window ends.
EndOf(length, offset, size) == IF length <= offset + size THEN length ELSE offset + size

LEMMA WindowIs ==
  ASSUME NEW S, NEW s \in Seq(S), NEW offset \in Nat, NEW size \in Nat, NEW n \in Nat,
         offset + n = EndOf(Len(s), offset, size)
  PROVE  /\ Window(s, offset, size) \in Seq(S) /\ Len(Window(s, offset, size)) = n
         /\ \A i \in 1..n : Window(s, offset, size)[i] = s[offset + i]
<1> DEFINE k == offset + n
           w == Window(s, offset, size)
<1>1. Len(s) \in Nat /\ offset + size \in Nat /\ k \in Nat
  OBVIOUS
<1>2. w = SubSeq(s, offset + 1, k)
  <2> DEFINE a == Len(s)
             b == offset + size
  <2> HIDE DEF a, b
  <2>1. Min({a, b}) = IF a <= b THEN a ELSE b
    BY <1>1, LeastOfTwo DEF a, b
  <2> QED BY <2>1 DEF a, b, Window, EndOf
<1>3. k <= Len(s)
  BY <1>1 DEF EndOf
<1> HIDE DEF w
<1>4. \A i \in (offset + 1)..k : s[i] \in S
  BY <1>3
<1>5. w \in Seq(S)
  BY <1>1, <1>2, <1>3, <1>4
<1>6. Len(w) = n
  BY <1>1, <1>2, <1>3
<1>7. \A i \in 1..n : w[i] = s[offset + i]
  BY <1>1, <1>2, <1>3
<1> QED BY <1>5, <1>6, <1>7 DEF w

LEMMA SameSequence ==
  ASSUME NEW S, NEW s \in Seq(S), NEW t \in Seq(S), Len(s) = Len(t), \A i \in 1..Len(s) : s[i] = t[i]
  PROVE  s = t
OBVIOUS

\* A window that ends where a sequence is cut, or before.
LEMMA WindowOfCut ==
  ASSUME NEW S, NEW s \in Seq(S), NEW limit \in Limit, NEW offset \in Nat, NEW size \in Nat,
         limit = None \/ offset + size <= limit
  PROVE  Window(Cut(s, limit), offset, size) = Window(s, offset, size)
<1> DEFINE t == Cut(s, limit)
<1>1. /\ t \in Seq(S) /\ Len(t) <= Len(s) /\ \A i \in 1..Len(t) : t[i] = s[i]
      /\ (limit = None \/ Len(t) # limit) => t = s
  BY CutIsPrefix DEF Limit
<1> HIDE DEF t
<1>2. CASE t = s
  BY <1>2 DEF t
<1>3. CASE t # s
  <2> DEFINE v == Window(t, offset, size)
             w == Window(s, offset, size)
  <2>1. Len(t) = limit /\ limit \in Nat /\ offset + size <= Len(t) /\ Len(s) \in Nat
    BY <1>1, <1>3 DEF Limit
  <2>2. EndOf(Len(t), offset, size) = offset + size /\ EndOf(Len(s), offset, size) = offset + size
    BY <1>1, <2>1 DEF EndOf
  <2>3. v \in Seq(S) /\ Len(v) = size /\ \A i \in 1..size : v[i] = t[offset + i]
    BY <1>1, <2>2, WindowIs
  <2>4. w \in Seq(S) /\ Len(w) = size /\ \A i \in 1..size : w[i] = s[offset + i]
    BY <1>1, <2>2, WindowIs
  <2> HIDE DEF v, w
  <2>5. \A i \in 1..size : offset + i \in 1..Len(t)
    BY <2>1
  <2>6. \A i \in 1..size : v[i] = w[i]
    BY <1>1, <2>3, <2>4, <2>5
  <2>7. v = w
    BY <2>3, <2>4, <2>6, SameSequence
  <2> QED BY <2>7 DEF v, w, t
<1> QED BY <1>2, <1>3

\* A window behind the end.
LEMMA WindowBehind ==
  ASSUME NEW S, NEW s \in Seq(S), NEW offset \in Nat, NEW size \in Nat, Len(s) <= offset
  PROVE  Window(s, offset, size) = <<>>
<1> DEFINE a == Len(s)
           b == offset + size
<1>1. a \in Nat /\ b \in Nat /\ a <= offset /\ a <= b
  OBVIOUS
<1> HIDE DEF a, b
<1>2. Min({a, b}) = a
  BY <1>1, LeastOfTwo
<1>3. Window(s, offset, size) = SubSeq(s, offset + 1, a)
  BY <1>2 DEF Window, a, b
<1> QED BY <1>1, <1>3

\* The first page of a sequence that is cut before the page ends.
LEMMA WindowAtStart ==
  ASSUME NEW S, NEW s \in Seq(S), NEW limit \in Nat, NEW size \in Nat, limit <= size
  PROVE  Window(Cut(s, limit), 0, size) = Window(s, 0, limit)
<1> DEFINE t == Cut(s, limit)
           v == Window(t, 0, size)
           w == Window(s, 0, limit)
<1>1. /\ t \in Seq(S) /\ Len(t) <= Len(s) /\ \A i \in 1..Len(t) : t[i] = s[i]
      /\ limit # None => Len(t) <= limit
      /\ Len(t) # limit => t = s
  BY CutIsPrefix
<1>2. limit # None
  BY DEF None
<1> HIDE DEF t
<1>3. Len(t) \in Nat /\ Len(s) \in Nat
  BY <1>1
<1>4. 0 + Len(t) = EndOf(Len(t), 0, size) /\ 0 + Len(t) = EndOf(Len(s), 0, limit)
  BY <1>1, <1>2, <1>3 DEF EndOf
<1>5. v \in Seq(S) /\ Len(v) = Len(t) /\ \A i \in 1..Len(t) : v[i] = t[0 + i]
  BY <1>1, <1>3, <1>4, WindowIs
<1>6. w \in Seq(S) /\ Len(w) = Len(t) /\ \A i \in 1..Len(t) : w[i] = s[0 + i]
  BY <1>1, <1>3, <1>4, WindowIs
<1> HIDE DEF v, w
<1>7. \A i \in 1..Len(t) : 0 + i = i /\ t[i] = s[i]
  BY <1>1
<1>8. \A i \in 1..Len(t) : v[i] = w[i]
  BY <1>5, <1>6, <1>7
<1>9. v = w
  BY <1>5, <1>6, <1>8, SameSequence
<1> QED BY <1>9 DEF v, w, t

LEMMA TimesMore ==
  ASSUME NEW a \in Nat, NEW b \in Nat, NEW c \in Nat, b <= c PROVE a * b <= a * c
<1>1. PICK d \in Nat : c = b + d
  <2>1. c - b \in Nat /\ c = b + (c - b)
    OBVIOUS
  <2> QED BY <2>1
<1>2. a * c = a * b + a * d /\ a * b \in Nat /\ a * d \in Nat
  BY <1>1
<1> QED BY <1>2

OffsetOf(q) == (q.page - 1) * q.size
\* A page that begins before the view's last row and ends behind it.
Straddles(limit, q) ==
  limit # None /\ q.page > 1 /\ OffsetOf(q) < limit /\ limit < OffsetOf(q) + q.size

\* What the shrunk window is.
LEMMA CapIs ==
  ASSUME NEW q \in Question, NEW limit \in Limit
  PROVE  LET c == capPage(q, limit)
             o == OffsetOf(q)
         IN /\ o \in Nat
            /\ c.page = q.page /\ c.sort = q.sort /\ c.order = q.order
            /\ c.conds = q.conds /\ c.logic = q.logic /\ c.search = q.search /\ c.cols = q.cols
            /\ c.size = IF limit = None \/ o + q.size <= limit THEN q.size
                        ELSE IF limit <= o THEN 0 ELSE limit - o
<1> DEFINE c == capPage(q, limit)
           o == OffsetOf(q)
           left == limit - o
<1>1. q.page \in Nat /\ q.page # 0 /\ q.size \in Nat /\ q.page - 1 \in Nat
  BY DEF Question
<1>2. o \in Nat
  BY <1>1, ProductOf DEF OffsetOf
<1>3. CASE limit = None
  BY <1>1, <1>2, <1>3 DEF capPage
<1>4. CASE limit # None
  <2> DEFINE least == Min({q.size, left})
             size == Max({0, least})
  <2>1. c = [q EXCEPT !.size = size]
    BY <1>4 DEF capPage, OffsetOf
  <2> HIDE DEF c, o
  <2>2. left \in Int /\ limit \in Nat
    BY <1>2, <1>4 DEF Limit
  <2>3. least = IF q.size <= left THEN q.size ELSE left
    BY <1>1, <2>2, LesserOf
  <2>4. least \in Int
    BY <1>1, <2>2, <2>3
  <2> HIDE DEF least
  <2>5. size = IF 0 >= least THEN 0 ELSE least
    BY <2>4, LargerOf
  <2> HIDE DEF size
  <2>6. size = IF o + q.size <= limit THEN q.size ELSE IF limit <= o THEN 0 ELSE limit - o
    BY <1>1, <1>2, <2>2, <2>3, <2>5 DEF left
  <2>7. c.size = size /\ c.page = q.page /\ c.sort = q.sort /\ c.order = q.order
        /\ c.conds = q.conds /\ c.logic = q.logic /\ c.search = q.search /\ c.cols = q.cols
    BY <2>1 DEF Question
  <2> QED BY <1>2, <1>4, <2>6, <2>7 DEF c, o
<1> QED BY <1>3, <1>4

\* What is asked for of the rows S, in order; a page read from them; what it
\* should be; and the count.
Ordered(S, scope, q) == Sorted({r \in S : Matches(scope, q, r)}, q)
ReadFrom(S, scope, c) ==
  Window(Sorted(Selected(S, whereFor(scope, c)), c), OffsetOf(c), c.size)
PageOf(S, scope, c) ==
  IF c.size > 0 THEN ReadFrom(S, scope, c) ELSE <<>>
SliceOf(S, scope, limit, q) ==
  Window(Cut(Ordered(S, scope, q), limit), OffsetOf(q), q.size)

LEMMA OrderedIs ==
  ASSUME globalSearch(Fields, Indexed) # {}, NEW S, Tidy(S), NEW scope \in Filter, NEW q \in Question,
         NEW limit \in Limit, ~whereFor(scope, q).bad
  PROVE  LET c == capPage(q, limit)
         IN /\ Ordered(S, scope, q) \in Seq(Records) /\ Ordered(S, scope, c) = Ordered(S, scope, q)
            /\ ReadFrom(S, scope, c) = Window(Ordered(S, scope, q), OffsetOf(c), c.size)
<1> DEFINE c == capPage(q, limit)
           T == Selected(S, whereFor(scope, q))
           M == {r \in S : Matches(scope, q, r)}
<1>1. \A r \in S : r.record_id \in Nat
  BY TableAssumption DEF Tidy, Records
<1>2. T = M /\ Tidy(T) /\ M \subseteq Records
  BY <1>1, WhereMatches, SelectedIsWanted DEF Tidy
<1>3. whereFor(scope, c) = whereFor(scope, q)
  BY CappedAsks
<1>4. /\ c.page = q.page /\ c.sort = q.sort /\ c.order = q.order
      /\ c.conds = q.conds /\ c.logic = q.logic /\ c.search = q.search /\ c.cols = q.cols
  BY CapIs
<1> HIDE DEF c
<1>5. \A R : Sorted(R, c) = Sorted(R, q)
  BY <1>4 DEF Sorted, SortColumn
<1>6. {r \in S : Matches(scope, c, r)} = M
  BY <1>4 DEF Matches
<1> HIDE DEF M, T
<1>7. Sorted(M, q) \in Seq(Records)
  <2>1. Sorted(M, q) \in Seq(M)
    BY <1>2, SortedLists
  <2> QED BY <1>2, <2>1, SeqInto
<1>8. Ordered(S, scope, q) = Sorted(M, q) /\ Ordered(S, scope, c) = Sorted(M, q)
  BY <1>5, <1>6 DEF Ordered, M
<1>9. ReadFrom(S, scope, c) = Window(Sorted(M, q), OffsetOf(c), c.size)
  BY <1>2, <1>3, <1>5 DEF ReadFrom, OffsetOf, T
<1> QED BY <1>7, <1>8, <1>9 DEF c

\* What is read for a page that does not straddle the end of the view.
LEMMA PageIsSlice ==
  ASSUME globalSearch(Fields, Indexed) # {}, NEW S, Tidy(S), NEW scope \in Filter, NEW q \in Question,
         NEW limit \in Limit, ~whereFor(scope, q).bad, ~Straddles(limit, q)
  PROVE  PageOf(S, scope, capPage(q, limit)) = SliceOf(S, scope, limit, q)
<1> DEFINE c == capPage(q, limit)
           o == OffsetOf(q)
           s == Ordered(S, scope, q)
<1>1. /\ s \in Seq(Records) /\ ReadFrom(S, scope, c) = Window(s, OffsetOf(c), c.size)
  BY OrderedIs
<1>2. /\ o \in Nat /\ c.page = q.page
      /\ c.size = IF limit = None \/ o + q.size <= limit THEN q.size
                  ELSE IF limit <= o THEN 0 ELSE limit - o
  BY CapIs
<1>3. SliceOf(S, scope, limit, q) = Window(Cut(s, limit), o, q.size)
  BY DEF SliceOf
<1>4. q.size \in Nat \ {0} /\ q.page \in Nat \ {0}
  BY DEF Question
<1>5. limit = None \/ limit \in Nat
  BY DEF Limit
<1> HIDE DEF c, s
<1>6. CASE limit = None \/ o + q.size <= limit
  <2>1. c.size = q.size /\ OffsetOf(c) = o
    BY <1>2, <1>6 DEF OffsetOf
  <2>2. Window(Cut(s, limit), o, q.size) = Window(s, o, q.size)
    BY <1>1, <1>2, <1>4, <1>6, WindowOfCut
  <2> QED BY <1>1, <1>3, <1>4, <2>1, <2>2 DEF PageOf, c
<1>7. CASE limit # None /\ limit <= o
  <2>1. c.size = 0
    BY <1>2, <1>4, <1>5, <1>7
  <2> DEFINE t == Cut(s, limit)
  <2>2. t \in Seq(Records) /\ Len(t) <= limit
    BY <1>1, <1>5, <1>7, CutIsPrefix
  <2> HIDE DEF t
  <2>3. Len(t) <= o
    BY <1>2, <1>5, <1>7, <2>2
  <2>4. Window(t, o, q.size) = <<>>
    BY <1>2, <1>4, <2>2, <2>3, WindowBehind
  <2> QED BY <1>3, <2>1, <2>4 DEF PageOf, c, t
<1>8. CASE limit # None /\ o < limit /\ limit < o + q.size
  <2>1. q.page = 1
    BY <1>4, <1>8 DEF Straddles
  <2>2. o = 0 /\ OffsetOf(c) = 0 /\ c.size = limit /\ limit \in Nat /\ limit > 0 /\ limit <= q.size
    <3>1. o = 0
      BY <1>4, <2>1 DEF OffsetOf
    <3>2. c.size = limit /\ limit \in Nat /\ limit > 0 /\ limit <= q.size
      BY <1>2, <1>4, <1>5, <1>8, <3>1
    <3>3. OffsetOf(c) = 0
      BY <1>2, <2>1, <3>2 DEF OffsetOf
    <3> QED BY <3>1, <3>2, <3>3
  <2>3. Window(Cut(s, limit), 0, q.size) = Window(s, 0, limit)
    BY <1>1, <1>4, <2>2, WindowAtStart
  <2> QED BY <1>1, <1>3, <2>2, <2>3 DEF PageOf, c
<1> HIDE DEF o
<1>9. \/ limit = None \/ o + q.size <= limit
      \/ limit # None /\ limit <= o
      \/ limit # None /\ o < limit /\ limit < o + q.size
  BY <1>2, <1>4, <1>5
<1> QED BY <1>6, <1>7, <1>8, <1>9

\* What is read for a page, by the shrunk window itself.
LEMMA PageIsCappedSlice ==
  ASSUME globalSearch(Fields, Indexed) # {}, NEW S, Tidy(S), NEW scope \in Filter, NEW q \in Question,
         NEW limit \in Limit, ~whereFor(scope, q).bad
  PROVE  PageOf(S, scope, capPage(q, limit)) = SliceOf(S, scope, limit, capPage(q, limit))
<1> DEFINE c == capPage(q, limit)
           o == OffsetOf(q)
           s == Ordered(S, scope, q)
<1>1. /\ s \in Seq(Records) /\ ReadFrom(S, scope, c) = Window(s, OffsetOf(c), c.size)
      /\ Ordered(S, scope, c) = s
  BY OrderedIs
<1>2. /\ o \in Nat /\ c.page = q.page
      /\ c.size = IF limit = None \/ o + q.size <= limit THEN q.size
                  ELSE IF limit <= o THEN 0 ELSE limit - o
  BY CapIs
<1>3. SliceOf(S, scope, limit, c) = Window(Cut(s, limit), OffsetOf(c), c.size)
  BY <1>1 DEF SliceOf
<1>4. q.size \in Nat /\ q.page - 1 \in Nat
  BY DEF Question
<1>5. limit = None \/ limit \in Nat
  BY DEF Limit
<1> HIDE DEF c, s, o
<1>6. c.size \in Nat /\ c.size <= q.size
  BY <1>2, <1>4, <1>5
<1>7. OffsetOf(c) \in Nat /\ OffsetOf(c) <= o
  BY <1>2, <1>4, <1>6, TimesMore, ProductOf DEF OffsetOf, o
<1>8. CASE c.size > 0
  <2>1. limit = None \/ OffsetOf(c) + c.size <= limit
    BY <1>2, <1>4, <1>5, <1>6, <1>7, <1>8
  <2>2. Window(Cut(s, limit), OffsetOf(c), c.size) = Window(s, OffsetOf(c), c.size)
    BY <1>1, <1>6, <1>7, <2>1, WindowOfCut
  <2> QED BY <1>1, <1>3, <1>8, <2>2 DEF PageOf, c
<1>9. CASE ~(c.size > 0)
  <2>1. c.size = 0 /\ OffsetOf(c) = 0
    BY <1>2, <1>4, <1>6, <1>9 DEF OffsetOf
  <2> DEFINE t == Cut(s, limit)
  <2>2. t \in Seq(Records)
    BY <1>1, <1>5, CutIsPrefix
  <2> HIDE DEF t
  <2>3. Len(t) \in Nat /\ 0 + 0 = EndOf(Len(t), 0, 0)
    BY <2>2 DEF EndOf
  <2>4. Window(t, 0, 0) \in Seq(Records) /\ Len(Window(t, 0, 0)) = 0
    BY <2>2, <2>3, WindowIs
  <2>5. Window(t, 0, 0) = <<>>
    BY <2>4
  <2> QED BY <1>3, <1>9, <2>1, <2>5 DEF PageOf, c, t
<1> QED BY <1>8, <1>9

-----------------------------------------------------------------------------
(* What is read, counted and kept is what the table holds.                  *)

Limits == {v.limit : v \in Views \cup Edits}
Count == [total : Int, capped : BOOLEAN, estimated : BOOLEAN, at : Nat \cup {None}, old : BOOLEAN]

\* A count of the rows of S that a question asks for.
CountOf(S, scope, q) == Cardinality(Selected(S, whereFor(scope, q)))
CountTells(c, S, scope, q, limit) ==
  Tells(c, CountOf(S, scope, q), whereFor(scope, q).sql # <<>>, limit)

\* A request under way, for a table S written v times: what was read from the
\* table as it is is what the table holds.
Fetching(x, S, v) ==
  /\ x.q \in Queries /\ x.limit \in Limits /\ x.count \in Count
  /\ x.paged \in {None} \cup 0..v /\ x.count.at \in {None} \cup 0..v
  /\ x.paged = v => x.rows = PageOf(S, x.scope, capPage(x.q, x.limit))
  /\ x.count.at = v => CountTells(x.count, S, x.scope, x.q, None)
  /\ x.pc = "keep" => x.count.at # None

\* A cached count, under the key of a question: unless it is marked old it was
\* taken after the clearing at f.
KeptCount(k, c, S, v, f) ==
  /\ k.scope \in Filter /\ c \in Count /\ c.at \in 0..v /\ (~c.old => f <= c.at)
  /\ \E q \in Queries :
       /\ k = CountKey(k.scope, q) /\ ~whereFor(k.scope, q).bad
       /\ c.at = v => CountTells(c, S, k.scope, q, None)

\* A cached page: unless it is marked old it is, between a clearing and the next
\* change, the page of the view as it is.
ShownBy(p, S, scope, q, limit) ==
  /\ p.rows = SliceOf(S, scope, limit, capPage(q, limit))
  /\ CountTells(p, S, scope, q, limit)
KeptPage(k, p, S, quiet, shown) ==
  /\ k.scope \in Filter /\ "old" \in DOMAIN p
  /\ \E q \in Queries, limit \in Limits :
       /\ k = PageKey(k.scope, limit, q) /\ ~whereFor(k.scope, q).bad
       /\ quiet /\ ~p.old =>
            /\ limit = shown.limit /\ p.columns = contextFor(shown)
            /\ ShownBy(p, S, k.scope, q, limit)

FreshInv ==
  /\ NarrowInv /\ version \in Nat /\ fence \in 0..version /\ view.limit \in Limits
  /\ reader # Idle => Fetching(reader, rows, version)
  /\ \A k \in DOMAIN counts : KeptCount(k, counts[k], rows, version, fence)
  /\ \A k \in DOMAIN pages : KeptPage(k, pages[k], rows, Quiet, view)

LEMMA LimitsAre == Limits \subseteq Limit
BY AskedAssumption DEF Limits, Limit, ViewRow

LEMMA QueriesAre == Queries \subseteq Question
BY AskedAssumption

\* Without a filter every row is selected.
LEMMA Unfiltered ==
  ASSUME NEW S, NEW w, w.sql = <<>> PROVE Selected(S, w) = S
<1>1. \A r : [i \in DOMAIN w.sql |-> WordValue(w.sql[i], w.params, r)] = <<>>
  OBVIOUS
<1> QED BY <1>1, ValueOfNone DEF Selected

LEMMA CountIs ==
  ASSUME NEW S, Tidy(S), NEW scope, NEW q
  PROVE  /\ CountOf(S, scope, q) \in Nat /\ Cardinality(S) \in Nat
         /\ whereFor(scope, q).sql = <<>> => CountOf(S, scope, q) = Cardinality(S)
<1> DEFINE w == whereFor(scope, q)
<1>1. Cardinality(Selected(S, w)) \in Nat /\ Cardinality(S) \in Nat
  BY SelectedOf, PartOf, FS_CardinalityType DEF Tidy
<1>2. w.sql = <<>> => Selected(S, w) = S
  BY Unfiltered
<1> HIDE DEF w
<1>3. CountOf(S, scope, q) = Cardinality(Selected(S, w))
  BY DEF CountOf, w
<1> QED BY <1>1, <1>2, <1>3 DEF w

\* What Tells says, of a count of which `shown` rows are to be seen.
LEMMA TellsIs ==
  ASSUME NEW count, NEW n, NEW filtered \in BOOLEAN, NEW limit, NEW shown, NEW exact,
         shown = IF limit = None THEN n ELSE Min({n, limit}),
         exact = IF filtered THEN Min({CountCap, shown}) ELSE shown,
         count.capped <=> (filtered /\ n > CountCap /\ shown >= CountCap),
         count.estimated => (~filtered /\ n + Drift >= EstimateAbove),
         \/ count.total = exact
         \/ /\ ~filtered /\ n + Drift >= EstimateAbove
            /\ count.total - exact \in -Drift..Drift
            /\ count.estimated \/ (limit # None /\ count.total = limit)
  PROVE  Tells(count, n, filtered, limit)
BY DEF Tells

LEMMA TellsSo ==
  ASSUME NEW count, NEW n, NEW filtered \in BOOLEAN, Tells(count, n, filtered, None)
  PROVE  LET exact == IF filtered THEN Min({CountCap, n}) ELSE n
         IN /\ count.capped <=> (filtered /\ n > CountCap /\ n >= CountCap)
            /\ count.estimated => (~filtered /\ n + Drift >= EstimateAbove)
            /\ \/ count.total = exact
               \/ /\ ~filtered /\ n + Drift >= EstimateAbove
                  /\ count.total - exact \in -Drift..Drift
                  /\ count.estimated
<1> DEFINE shown == IF None = None THEN n ELSE Min({n, None})
           exact == IF filtered THEN Min({CountCap, shown}) ELSE shown
<1>1. shown = n
  OBVIOUS
<1>2. /\ count.capped <=> (filtered /\ n > CountCap /\ shown >= CountCap)
      /\ count.estimated => (~filtered /\ n + Drift >= EstimateAbove)
      /\ count.total # exact =>
           /\ ~filtered /\ n + Drift >= EstimateAbove
           /\ count.total - exact \in -Drift..Drift
           /\ count.estimated \/ (None # None /\ count.total = None)
  BY Zenon DEF Tells
<1> HIDE DEF shown
<1> QED BY <1>1, <1>2

\* What countFindings says is told by the table, and stays so under a limit.
LEMMA CountingTells ==
  ASSUME NEW S, Tidy(S), NEW scope, NEW q, NEW reltuples \in Estimates(S)
  PROVE  LET found == Counted(whereFor(scope, q), CountOf(S, scope, q), reltuples)
         IN /\ found \in [total : Int, capped : BOOLEAN, estimated : BOOLEAN]
            /\ CountTells(found, S, scope, q, None)
<1> DEFINE w == whereFor(scope, q)
           n == CountOf(S, scope, q)
           all == Cardinality(S)
           filtered == w.sql # <<>>
           least == Min({n, CountCap})
           fewer == Min({CountCap, n})
           found == Counted(w, n, reltuples)
<1>1. n \in Nat /\ all \in Nat /\ (~filtered => n = all)
  BY CountIs
<1>2. CountCap \in Nat /\ EstimateAbove \in Nat /\ Drift \in Nat
  BY LimitsAssumption
<1>3. reltuples \in {-1} \cup (all - Drift)..(all + Drift)
  BY DEF Estimates
<1> HIDE DEF w, n, all, filtered
<1>4. /\ least = IF n <= CountCap THEN n ELSE CountCap
      /\ fewer = IF CountCap <= n THEN CountCap ELSE n
  BY <1>1, <1>2, LesserOf
<1>5. reltuples \in Int /\ least \in Int
  BY <1>1, <1>2, <1>3, <1>4
<1>6. found = IF filtered THEN [total |-> least, capped |-> n > CountCap, estimated |-> FALSE]
              ELSE IF reltuples >= EstimateAbove
              THEN [total |-> reltuples, capped |-> FALSE, estimated |-> TRUE]
              ELSE [total |-> n, capped |-> FALSE, estimated |-> FALSE]
  BY DEF Counted, filtered
<1> HIDE DEF found
<1>7. found \in [total : Int, capped : BOOLEAN, estimated : BOOLEAN]
  BY <1>1, <1>2, <1>5, <1>6
<1>8. Tells(found, n, filtered, None)
  <2> HIDE DEF least
  <2> DEFINE exact == IF filtered THEN fewer ELSE n
  <2>1. n = IF None = None THEN n ELSE Min({n, None})
    OBVIOUS
  <2>2. filtered \in BOOLEAN
    BY DEF filtered
  <2>3. CASE filtered
    <3>1. found.total = least /\ (found.capped <=> n > CountCap) /\ ~found.estimated
      BY <1>6, <2>3
    <3>2. least = exact
      BY <1>1, <1>2, <1>4, <2>3
    <3> HIDE DEF found
    <3>4. n > CountCap => n >= CountCap
      BY <1>1, <1>2
    <3>3. found.capped <=> (filtered /\ n > CountCap /\ n >= CountCap)
      BY <2>3, <3>1, <3>4
    <3> QED BY <2>1, <2>2, <3>1, <3>2, <3>3, TellsIs
  <2>4. CASE ~filtered /\ reltuples >= EstimateAbove
    <3>1. found.total = reltuples /\ ~found.capped /\ found.estimated
      BY <1>6, <2>4
    <3>2. n = all /\ reltuples \in (n - Drift)..(n + Drift)
      BY <1>1, <1>2, <1>3, <2>4
    <3>3. n + Drift >= EstimateAbove /\ reltuples - n \in -Drift..Drift
      BY <1>1, <1>2, <2>4, <3>2
    <3> HIDE DEF found
    <3> QED BY <2>1, <2>2, <2>4, <3>1, <3>3, TellsIs
  <2>5. CASE ~filtered /\ ~(reltuples >= EstimateAbove)
    <3>1. found.total = n /\ ~found.capped /\ ~found.estimated
      BY <1>6, <2>5
    <3> HIDE DEF found
    <3> QED BY <2>1, <2>2, <2>5, <3>1, TellsIs
  <2> QED BY <2>3, <2>4, <2>5
<1> QED BY <1>7, <1>8 DEF found, n, w, filtered, CountTells

LEMMA TotalTells ==
  ASSUME NEW count \in Count, NEW n \in Nat, NEW filtered \in BOOLEAN, NEW limit \in Limit,
         Tells(count, n, filtered, None)
  PROVE  Tells(Total(count, limit), n, filtered, limit)
<1> DEFINE shown == IF limit = None THEN n ELSE Min({n, limit})
           some == Min({CountCap, n})
           fewer == Min({CountCap, shown})
           exact == IF filtered THEN fewer ELSE shown
           whole == IF filtered THEN some ELSE n
           large == ~filtered /\ n + Drift >= EstimateAbove
           total == Total(count, limit)
<1>1. CountCap \in Nat /\ EstimateAbove \in Nat /\ Drift \in Nat
  BY LimitsAssumption
<1>2. limit = None \/ (limit \in Nat /\ limit # None)
  BY DEF Limit, None
<1>3. shown = IF limit = None \/ n <= limit THEN n ELSE limit
  BY <1>2, LeastOfTwo
<1>4. some = IF CountCap <= n THEN CountCap ELSE n
  BY <1>1, LeastOfTwo
<1>5. shown \in Nat
  BY <1>2, <1>3
<1>6. fewer = IF CountCap <= shown THEN CountCap ELSE shown
  BY <1>1, <1>5, LeastOfTwo
<1>7. /\ count.capped <=> (filtered /\ n > CountCap /\ n >= CountCap)
      /\ count.estimated => large
      /\ \/ count.total = whole
         \/ large /\ count.total - whole \in -Drift..Drift /\ count.estimated
  BY TellsSo
<1>8. count.total \in Int /\ count.capped \in BOOLEAN /\ count.estimated \in BOOLEAN
  BY DEF Count
<1> HIDE DEF some, fewer
<1>9. ASSUME /\ total.capped <=> (filtered /\ n > CountCap /\ shown >= CountCap)
             /\ total.estimated => large
             /\ \/ total.total = exact
                \/ /\ large /\ total.total - exact \in -Drift..Drift
                   /\ total.estimated \/ (limit # None /\ total.total = limit)
      PROVE  Tells(total, n, filtered, limit)
  <2> HIDE DEF total
  <2> QED BY <1>9, TellsIs DEF fewer
<1> HIDE DEF shown
<1> DEFINE seen == filtered /\ n > CountCap /\ shown >= CountCap
<1>10. CASE limit # None /\ count.total > limit
  <2>1. total = [count EXCEPT !.total = limit, !.capped = FALSE, !.estimated = FALSE]
    BY <1>10 DEF Total
  <2>2. total.total = limit /\ ~total.capped /\ ~total.estimated
    BY <2>1 DEF Count
  <2> HIDE DEF total
  <2>3. ~seen
    <3> SUFFICES ASSUME filtered, n > CountCap, shown >= CountCap PROVE FALSE
      OBVIOUS
    <3>1. count.total = some
      BY <1>7
    <3> QED BY <1>1, <1>2, <1>3, <1>4, <1>10, <3>1
  <2>4. \/ limit = exact
        \/ large /\ limit - exact \in -Drift..Drift
    <3>1. CASE filtered
      <4>1. count.total = some
        BY <1>7, <3>1
      <4>2. fewer = limit
        BY <1>1, <1>2, <1>3, <1>4, <1>6, <1>10, <4>1
      <4> QED BY <3>1, <4>2
    <3>2. CASE ~filtered /\ count.total = n
      <4>1. shown = limit
        BY <1>2, <1>3, <1>10, <3>2
      <4> QED BY <3>2, <4>1
    <3>3. CASE ~filtered /\ count.total # n
      <4>1. large /\ count.total - n \in -Drift..Drift
        BY <1>7, <3>3
      <4>2. limit - shown \in -Drift..Drift
        BY <1>1, <1>2, <1>3, <1>8, <1>10, <4>1
      <4> QED BY <3>3, <4>1, <4>2
    <3> QED BY <3>1, <3>2, <3>3
  <2> HIDE DEF seen, exact, large, total
  <2>5. /\ total.capped <=> seen
        /\ total.estimated => large
        /\ \/ total.total = exact
           \/ /\ large /\ total.total - exact \in -Drift..Drift
              /\ total.estimated \/ (limit # None /\ total.total = limit)
    <3>1. limit # None /\ total.total = limit
      BY <1>10, <2>2
    <3>2. total.capped <=> seen
      BY <2>2, <2>3
    <3>3. \/ total.total = exact
          \/ large /\ total.total - exact \in -Drift..Drift
      BY <2>4, <3>1
    <3> QED BY <2>2, <3>1, <3>2, <3>3
  <2> QED BY <1>9, <2>5 DEF seen, exact, large, total
<1>11. CASE ~(limit # None /\ count.total > limit)
  <2>1. total = count
    BY <1>11 DEF Total
  <2> HIDE DEF total
  <2>2. filtered /\ n > CountCap /\ n >= CountCap <=> seen
    <3>1. ASSUME filtered, n > CountCap PROVE n >= CountCap /\ shown >= CountCap
      <4>1. count.total = some
        BY <1>7, <3>1
      <4> QED BY <1>1, <1>2, <1>3, <1>4, <1>11, <3>1, <4>1
    <3> QED BY <3>1
  <2>3. \/ count.total = exact
        \/ large /\ count.total - exact \in -Drift..Drift /\ count.estimated
    <3>1. CASE filtered
      <4>1. count.total = some
        BY <1>7, <3>1
      <4>2. fewer = some
        <5>1. CASE limit = None
          BY <1>1, <1>3, <1>4, <1>6, <5>1
        <5>2. CASE limit \in Nat /\ limit # None
          <6>1. some <= limit
            BY <1>1, <1>4, <1>8, <1>11, <4>1, <5>2
          <6> QED BY <1>1, <1>3, <1>4, <1>6, <5>2, <6>1
        <5> QED BY <1>2, <5>1, <5>2
      <4> QED BY <3>1, <4>1, <4>2
    <3>2. CASE ~filtered /\ count.total = n
      <4>1. shown = n
        BY <1>2, <1>3, <1>11, <3>2
      <4> QED BY <3>2, <4>1
    <3>3. CASE ~filtered /\ count.total # n
      <4>1. large /\ count.total - n \in -Drift..Drift /\ count.estimated
        BY <1>7, <3>3
      <4>2. count.total - shown \in -Drift..Drift
        BY <1>1, <1>2, <1>3, <1>8, <1>11, <4>1
      <4> QED BY <3>3, <4>1, <4>2
    <3> QED BY <3>1, <3>2, <3>3
  <2> HIDE DEF seen, exact, large, total
  <2>4. /\ total.capped <=> seen
        /\ total.estimated => large
        /\ \/ total.total = exact
           \/ /\ large /\ total.total - exact \in -Drift..Drift
              /\ total.estimated \/ (limit # None /\ total.total = limit)
    <3>1. count.capped <=> seen
      BY <1>7, <2>2, Zenon
    <3>2. count.estimated => large
      BY <1>7
    <3>3. total.capped <=> seen
      BY <2>1, <3>1
    <3> QED BY <2>1, <2>3, <3>2, <3>3
  <2> QED BY <1>9, <2>4 DEF seen, exact, large, total
<1> QED BY <1>10, <1>11

\* A statement depends on what a count is kept under, so one question may use
\* the count of another.
LEMMA SameWhere ==
  ASSUME NEW scope, NEW q, NEW u,
         q.conds = u.conds, q.logic = u.logic, q.search = u.search, q.cols = u.cols
  PROVE  whereFor(scope, q) = whereFor(scope, u)
BY DEF whereFor, Narrowed, Searched

\* A request as it is between two steps.
ReaderIs(x) ==
  /\ x \in [pc : {"context", "read", "keep"}, q : Question, scope : Filter, limit : Limit,
            columns : {x.columns}, count : Count, rows : {x.rows}, paged : {x.paged}]
  /\ x.q \in Queries /\ x.limit \in Limits /\ ~whereFor(x.scope, x.q).bad

LEMMA ReaderShape ==
  ASSUME NEW x, NEW S, NEW v, Narrow(x), Fetching(x, S, v)
  PROVE  ReaderIs(x)
BY DEF Narrow, Fetching, ReaderIs

LEMMA FetchingOn ==
  ASSUME FreshInv, reader # Idle,
         ReadContext \/ GetCount \/ KeepCount \/ GetPage
  PROVE  reader' # Idle => Fetching(reader', rows, version)
<1>1. ReaderIs(reader) /\ Fetching(reader, rows, version)
  BY ReaderShape DEF FreshInv, NarrowInv
<1>2. version \in Nat /\ None \notin 0..version
  BY DEF FreshInv, None
<1>3. PICK columns, read, paged : /\ reader.columns = columns /\ reader.rows = read
                                  /\ reader.paged = paged
  OBVIOUS
<1>4. reader \in [pc : {"context", "read", "keep"}, q : Question, scope : Filter, limit : Limit,
            columns : {columns}, count : Count, rows : {read}, paged : {paged}]
  BY <1>1, <1>3 DEF ReaderIs
<1>5. CASE ReadContext
  <2> DEFINE new == contextFor(view)
  <2>1. reader' = Idle \/ reader' = [reader EXCEPT !.pc = "read", !.columns = new]
    BY <1>5 DEF ReadContext
  <2> HIDE DEF new
  <2>2. CASE reader' = [reader EXCEPT !.pc = "read", !.columns = new]
    BY <1>1, <1>4, <2>2 DEF Fetching
  <2> QED BY <2>1, <2>2
<1>6. CASE KeepCount
  <2>1. reader' = [reader EXCEPT !.pc = "read"]
    BY <1>6 DEF KeepCount
  <2> QED BY <1>1, <1>4, <2>1 DEF Fetching
<1>7. CASE GetPage
  <2> DEFINE c == capPage(reader.q, reader.limit)
             page == IF c.size > 0 THEN pageFindings(reader.scope, c) ELSE <<>>
  <2>1. reader' = [reader EXCEPT !.paged = version, !.rows = page]
    BY <1>7 DEF GetPage
  <2>2. page = PageOf(rows, reader.scope, c)
    BY DEF PageOf, ReadFrom, pageFindings, OffsetOf
  <2> HIDE DEF page
  <2>3. /\ reader'.q = reader.q /\ reader'.limit = reader.limit /\ reader'.count = reader.count
        /\ reader'.paged = version /\ reader'.rows = page /\ reader'.scope = reader.scope
        /\ reader'.pc = reader.pc
    BY <1>4, <2>1
  <2> QED BY <1>1, <1>2, <2>2, <2>3 DEF Fetching
<1>8. CASE GetCount
  <2> DEFINE key == CountKey(reader.scope, reader.q)
             known == counts[key]
  <2>1. CASE key \in DOMAIN counts
    <3>1. reader' = [reader EXCEPT !.count = known] /\ reader.pc = "read"
      BY <1>8, <2>1 DEF GetCount
    <3>2. KeptCount(key, known, rows, version, fence)
      BY <2>1 DEF FreshInv
    <3>3. key.scope = reader.scope
      BY DEF CountKey
    <3>4. PICK q \in Queries :
            /\ key = CountKey(reader.scope, q)
            /\ known.at = version => CountTells(known, rows, reader.scope, q, None)
      BY <3>2, <3>3 DEF KeptCount
    <3>5. whereFor(reader.scope, q) = whereFor(reader.scope, reader.q)
      <4>1. /\ q.conds = reader.q.conds /\ q.logic = reader.q.logic
            /\ q.search = reader.q.search /\ q.cols = reader.q.cols
        BY <3>4 DEF CountKey
      <4> QED BY <4>1, SameWhere
    <3>6. known.at = version => CountTells(known, rows, reader.scope, reader.q, None)
      BY <3>4, <3>5 DEF CountTells, CountOf
    <3>7. known \in Count /\ known.at \in 0..version
      BY <3>2 DEF KeptCount
    <3> HIDE DEF known
    <3>8. /\ reader'.q = reader.q /\ reader'.limit = reader.limit /\ reader'.count = known
          /\ reader'.paged = reader.paged /\ reader'.rows = reader.rows /\ reader'.scope = reader.scope
          /\ reader'.pc = reader.pc
      BY <1>4, <3>1
    <3> HIDE DEF key
    <3> QED BY <1>1, <1>2, <3>1, <3>6, <3>7, <3>8 DEF Fetching
  <2>2. CASE key \notin DOMAIN counts
    <3>1. PICK reltuples \in Estimates(rows) :
            LET found == countFindings(reader.scope, reader.q, reltuples)
            IN reader' = [reader EXCEPT !.pc = "keep",
                            !.count = [NoCount EXCEPT !.total = found.total,
                                         !.capped = found.capped,
                                         !.estimated = found.estimated, !.at = version]]
      BY <1>8, <2>2, Zenon DEF GetCount
    <3> DEFINE found == countFindings(reader.scope, reader.q, reltuples)
               count == [NoCount EXCEPT !.total = found.total, !.capped = found.capped,
                                        !.estimated = found.estimated, !.at = version]
    <3>2. found = Counted(whereFor(reader.scope, reader.q),
                          CountOf(rows, reader.scope, reader.q), reltuples)
      BY DEF countFindings, CountOf
    <3>3. /\ found \in [total : Int, capped : BOOLEAN, estimated : BOOLEAN]
          /\ CountTells(found, rows, reader.scope, reader.q, None)
      BY <3>2, CountingTells DEF FreshInv, NarrowInv, ExportInv
    <3>4. reader' = [reader EXCEPT !.pc = "keep", !.count = count]
      BY <3>1
    <3> HIDE DEF found
    <3>5. /\ count \in Count /\ count.total = found.total /\ count.capped = found.capped
          /\ count.estimated = found.estimated /\ count.at = version
      BY <1>2, <3>3 DEF Count, NoCount
    <3> HIDE DEF count
    <3>6. CountTells(count, rows, reader.scope, reader.q, None)
      BY <3>3, <3>5 DEF CountTells, Tells
    <3>7. /\ reader'.q = reader.q /\ reader'.limit = reader.limit /\ reader'.count = count
          /\ reader'.paged = reader.paged /\ reader'.rows = reader.rows /\ reader'.scope = reader.scope
          /\ reader'.pc = "keep"
      BY <1>4, <3>4
    <3> QED BY <1>1, <1>2, <3>5, <3>6, <3>7 DEF Fetching
  <2> QED BY <2>1, <2>2
<1> QED BY <1>5, <1>6, <1>7, <1>8

\* The count that is kept is the one that was read.
LEMMA CountKept ==
  ASSUME FreshInv, KeepCount
  PROVE  \A k \in DOMAIN counts' : KeptCount(k, counts'[k], rows, version, fence)
<1> DEFINE key == CountKey(reader.scope, reader.q)
           late == reader.count.at < fence
           kept == [reader.count EXCEPT !.old = late]
<1>1. reader # Idle /\ reader.pc = "keep" /\ counts' = Put(counts, key, kept)
  BY ReadersAct DEF KeepCount
<1>2. ReaderIs(reader) /\ Fetching(reader, rows, version)
  BY <1>1, ReaderShape DEF FreshInv, NarrowInv
<1>3. reader.count \in Count /\ reader.scope \in Filter /\ reader.q \in Queries
  BY <1>2 DEF ReaderIs
<1>4. /\ version \in Nat /\ fence \in 0..version /\ reader.count.at \in 0..version
      /\ ~whereFor(reader.scope, reader.q).bad
  BY <1>1, <1>2 DEF Fetching, ReaderIs, FreshInv
<1>5. late \in BOOLEAN /\ (~late => fence <= reader.count.at)
  BY <1>4
<1> HIDE DEF late
<1>6. /\ kept \in Count /\ kept.old = late /\ kept.total = reader.count.total
      /\ kept.capped = reader.count.capped /\ kept.estimated = reader.count.estimated
      /\ kept.at = reader.count.at
  BY <1>3, <1>5 DEF Count
<1>7. key.scope = reader.scope
  BY DEF CountKey
<1> HIDE DEF kept
<1>8. kept.at = version => CountTells(kept, rows, reader.scope, reader.q, None)
  BY <1>2, <1>6 DEF Fetching, CountTells, Tells
<1>9. KeptCount(key, kept, rows, version, fence)
  BY <1>3, <1>4, <1>5, <1>6, <1>7, <1>8 DEF KeptCount
<1> HIDE DEF key
<1>10. /\ DOMAIN counts' = DOMAIN counts \cup {key} /\ counts'[key] = kept
       /\ \A k \in DOMAIN counts : k # key => counts'[k] = counts[k]
  <2> DEFINE new == Put(counts, key, kept)
  <2>1. /\ DOMAIN new = DOMAIN counts \cup {key} /\ new[key] = kept
        /\ \A k \in DOMAIN counts : k # key => new[k] = counts[k]
    BY DEF Put
  <2> HIDE DEF new
  <2>2. counts' = new
    BY <1>1 DEF new
  <2> QED BY <2>1, <2>2
<1>11. SUFFICES ASSUME NEW k \in DOMAIN counts' PROVE KeptCount(k, counts'[k], rows, version, fence)
  OBVIOUS
<1>12. CASE k = key
  BY <1>9, <1>10, <1>12
<1>13. CASE k # key
  <2>1. k \in DOMAIN counts /\ counts'[k] = counts[k]
    BY <1>10, <1>11, <1>13
  <2> QED BY <2>1 DEF FreshInv
<1> QED BY <1>12, <1>13

LEMMA ReaderAnswers == ASSUME Answer PROVE reader # Idle
<1>1. reader.pc = "read"
  BY DEF Answer
<1> QED BY <1>1 DEF Idle

\* The page that is stored is the one that was read, with its count.
LEMMA PageKept ==
  ASSUME globalSearch(Fields, Indexed) # {}, FreshInv, Answer
  PROVE  \A k \in DOMAIN pages' : KeptPage(k, pages'[k], rows, Quiet, view)
<1> DEFINE key == PageKey(reader.scope, reader.limit, reader.q)
           count == Total(reader.count, reader.limit)
           late == Outdated
           page == [rows |-> reader.rows, total |-> count.total, capped |-> count.capped,
                    estimated |-> count.estimated, columns |-> reader.columns, old |-> late]
<1>1. /\ reader # Idle /\ reader.count.at # None /\ reader.paged # None
      /\ pages' = Put(pages, key, page)
  BY ReaderAnswers DEF Answer
<1>2. ReaderIs(reader) /\ Fetching(reader, rows, version)
  BY <1>1, ReaderShape DEF FreshInv, NarrowInv
<1>3. /\ reader.count \in Count /\ reader.scope \in Filter
      /\ reader.q \in Queries /\ reader.limit \in Limits /\ ~whereFor(reader.scope, reader.q).bad
      /\ reader.q \in Question /\ reader.limit \in Limit
  BY <1>2, QueriesAre, LimitsAre DEF ReaderIs
<1>4. key.scope = reader.scope
  BY DEF PageKey
<1>5. /\ page.rows = reader.rows /\ page.total = count.total /\ page.capped = count.capped
      /\ page.estimated = count.estimated /\ page.columns = reader.columns
      /\ page.old = late /\ "old" \in DOMAIN page
  OBVIOUS
<1> HIDE DEF page, late
<1>6. ASSUME Quiet, ~page.old
      PROVE  /\ reader.limit = view.limit /\ page.columns = contextFor(view)
             /\ ShownBy(page, rows, reader.scope, reader.q, reader.limit)
  <2>1. /\ fence = version /\ version \in Nat /\ editor = Idle
        /\ ~(reader.count.at < fence) /\ ~(reader.paged < fence)
        /\ reader.columns = contextFor(view) /\ reader.limit = view.limit
    BY <1>5, <1>6 DEF Quiet, FreshInv, late, Outdated
  <2>2. reader.paged = version /\ reader.count.at = version
    BY <1>1, <1>2, <2>1 DEF Fetching
  <2>3. /\ reader.rows = PageOf(rows, reader.scope, capPage(reader.q, reader.limit))
        /\ CountTells(reader.count, rows, reader.scope, reader.q, None)
    BY <1>2, <2>2 DEF Fetching
  <2>4. PageOf(rows, reader.scope, capPage(reader.q, reader.limit))
          = SliceOf(rows, reader.scope, reader.limit, capPage(reader.q, reader.limit))
    BY <1>3, PageIsCappedSlice DEF FreshInv, NarrowInv, ExportInv
  <2>5. CountTells(count, rows, reader.scope, reader.q, reader.limit)
    <3>1. CountOf(rows, reader.scope, reader.q) \in Nat
      BY CountIs DEF FreshInv, NarrowInv, ExportInv
    <3> QED BY <1>3, <2>3, <3>1, TotalTells DEF CountTells
  <2> HIDE DEF count
  <2>6. CountTells(page, rows, reader.scope, reader.q, reader.limit)
    BY <1>5, <2>5 DEF CountTells, Tells
  <2> QED BY <1>5, <2>1, <2>3, <2>4, <2>6 DEF ShownBy
<1> HIDE DEF count
<1>7. KeptPage(key, page, rows, Quiet, view)
  BY <1>3, <1>4, <1>5, <1>6 DEF KeptPage
<1> HIDE DEF key
<1>8. /\ DOMAIN pages' = DOMAIN pages \cup {key} /\ pages'[key] = page
      /\ \A k \in DOMAIN pages : k # key => pages'[k] = pages[k]
  <2> DEFINE new == Put(pages, key, page)
  <2>1. /\ DOMAIN new = DOMAIN pages \cup {key} /\ new[key] = page
        /\ \A k \in DOMAIN pages : k # key => new[k] = pages[k]
    BY DEF Put
  <2> HIDE DEF new
  <2>2. pages' = new
    BY <1>1 DEF new
  <2> QED BY <2>1, <2>2
<1>9. SUFFICES ASSUME NEW k \in DOMAIN pages' PROVE KeptPage(k, pages'[k], rows, Quiet, view)
  OBVIOUS
<1>10. CASE k = key
  BY <1>7, <1>8, <1>10
<1>11. CASE k # key
  <2>1. k \in DOMAIN pages /\ pages'[k] = pages[k]
    BY <1>8, <1>9, <1>11
  <2> QED BY <2>1 DEF FreshInv
<1> QED BY <1>10, <1>11

\* A write changes the table of what is read and kept, which the counters tell.
LEMMA WriteFresh ==
  ASSUME globalSearch(Fields, Indexed) # {}, FreshInv, NEW r \in Versions, Write(r)
  PROVE  FreshInv'
<1>1. /\ UNCHANGED <<view, pages, counts, fence, reader, editor>> /\ NarrowInv'
      /\ version' = version + 1
  BY NextNarrow DEF FreshInv, Write, Next
<1>2. /\ version \in Nat /\ fence \in 0..version /\ version' = version + 1 /\ view.limit \in Limits
  BY <1>1 DEF FreshInv
<1>3. /\ fence # version' /\ version' \in Nat /\ 0..version \subseteq 0..version'
      /\ version' \notin {None} \cup 0..version /\ fence \in 0..version'
  BY <1>2 DEF None
<1>4. reader # Idle => Fetching(reader, rows', version')
  <2> SUFFICES ASSUME reader # Idle PROVE Fetching(reader, rows', version')
    OBVIOUS
  <2>1. Fetching(reader, rows, version)
    BY DEF FreshInv
  <2>2. /\ reader.paged \in {None} \cup 0..version' /\ reader.paged # version'
        /\ reader.count.at \in {None} \cup 0..version' /\ reader.count.at # version'
    BY <1>3, <2>1 DEF Fetching
  <2> QED BY <2>1, <2>2 DEF Fetching
<1>5. \A k \in DOMAIN counts : KeptCount(k, counts[k], rows', version', fence)
  <2> SUFFICES ASSUME NEW k \in DOMAIN counts
               PROVE  KeptCount(k, counts[k], rows', version', fence)
    OBVIOUS
  <2>1. KeptCount(k, counts[k], rows, version, fence)
    BY DEF FreshInv
  <2>2. counts[k].at \in 0..version' /\ counts[k].at # version'
    BY <1>3, <2>1 DEF KeptCount
  <2> QED BY <2>1, <2>2 DEF KeptCount
<1>6. \A k \in DOMAIN pages : KeptPage(k, pages[k], rows', Quiet', view)
  <2>1. ~Quiet'
    BY <1>1, <1>3 DEF Quiet
  <2> QED BY <2>1 DEF FreshInv, KeptPage
<1> QED BY <1>1, <1>2, <1>3, <1>4, <1>5, <1>6 DEF FreshInv

\* Entries that a clearing leaves are marked old, and may be anything.
LEMMA LeftPages ==
  ASSUME FreshInv, NEW left \in SUBSET DOMAIN pages, pages' = LeftOf(pages, left)
  PROVE  \A k \in DOMAIN pages' : KeptPage(k, pages'[k], rows', Quiet', view')
<1> SUFFICES ASSUME NEW k \in DOMAIN pages'
             PROVE  KeptPage(k, pages'[k], rows', Quiet', view')
  OBVIOUS
<1>1. k \in DOMAIN pages /\ pages'[k] = [pages[k] EXCEPT !.old = TRUE]
  BY DEF LeftOf
<1>2. KeptPage(k, pages[k], rows, Quiet, view)
  BY <1>1 DEF FreshInv
<1>3. "old" \in DOMAIN pages'[k] /\ pages'[k].old
  BY <1>1, <1>2 DEF KeptPage
<1> QED BY <1>2, <1>3 DEF KeptPage

LEMMA LeftCounts ==
  ASSUME FreshInv, NEW left \in SUBSET DOMAIN counts, counts' = LeftOf(counts, left),
         UNCHANGED <<rows, version>>
  PROVE  \A k \in DOMAIN counts' : KeptCount(k, counts'[k], rows', version', fence')
<1> SUFFICES ASSUME NEW k \in DOMAIN counts'
             PROVE  KeptCount(k, counts'[k], rows, version, fence')
  OBVIOUS
<1>1. k \in DOMAIN counts /\ counts'[k] = [counts[k] EXCEPT !.old = TRUE]
  BY DEF LeftOf
<1>2. KeptCount(k, counts[k], rows, version, fence)
  BY <1>1 DEF FreshInv
<1>3. /\ counts'[k] \in Count /\ counts'[k].old /\ counts'[k].at = counts[k].at
      /\ counts'[k].total = counts[k].total /\ counts'[k].capped = counts[k].capped
      /\ counts'[k].estimated = counts[k].estimated
  BY <1>1, <1>2 DEF KeptCount, Count
<1>4. \A scope, q : CountTells(counts[k], rows, scope, q, None)
                      => CountTells(counts'[k], rows, scope, q, None)
  BY <1>3 DEF CountTells, Tells
<1> QED BY <1>2, <1>3, <1>4 DEF KeptCount

\* A clearing, and an edit, keep what is kept true of the view as it becomes.
LEMMA ClearingFresh ==
  ASSUME FreshInv, NarrowInv', Invalidate, UNCHANGED <<rows, version, reader>>,
         fence' \in 0..version, view'.limit \in Limits
  PROVE  FreshInv'
<1>1. \A k \in DOMAIN pages' : KeptPage(k, pages'[k], rows', Quiet', view')
  BY LeftPages DEF Invalidate
<1>2. \A k \in DOMAIN counts' : KeptCount(k, counts'[k], rows', version', fence')
  BY LeftCounts DEF Invalidate
<1> QED BY <1>1, <1>2 DEF FreshInv

LEMMA EditFresh ==
  ASSUME FreshInv, NarrowInv', UNCHANGED <<rows, version, fence, reader, counts>>,
         view'.limit \in Limits,
         \/ ~Quiet' /\ UNCHANGED pages
         \/ pages' = LeftOf(pages, DOMAIN pages)
         \/ UNCHANGED <<view, pages>> /\ Quiet' = Quiet
  PROVE  FreshInv'
<1>1. \A k \in DOMAIN pages' : KeptPage(k, pages'[k], rows', Quiet', view')
  <2>1. CASE ~Quiet' /\ UNCHANGED pages
    BY <2>1 DEF FreshInv, KeptPage
  <2>2. CASE pages' = LeftOf(pages, DOMAIN pages)
    BY <2>2, LeftPages
  <2>3. CASE UNCHANGED <<view, pages>> /\ Quiet' = Quiet
    BY <2>3 DEF FreshInv
  <2> QED BY <2>1, <2>2, <2>3
<1> QED BY <1>1 DEF FreshInv

\* What an edit does to the view's limit.
LEMMA LimitKept ==
  ASSUME FreshInv,
         \/ \E new \in Edits : updateView(new)
         \/ setColumns \/ setAccessRoles
         \/ \E c \in Toggled : upsertColumn(c) \/ deleteColumn(c)
  PROVE  view'.limit \in Limits
<1>1. view \in ViewRow /\ view.limit \in Limits
  BY DEF FreshInv, NarrowInv, ExportInv
<1>2. CASE \E new \in Edits : updateView(new)
  <2>1. PICK new \in Edits : updateView(new)
    BY <1>2
  <2>2. view' = [view EXCEPT !.scope = new.scope, !.limit = new.limit]
    BY <2>1, Zenon DEF updateView
  <2>3. view'.limit = new.limit
    BY <1>1, <2>2 DEF ViewRow
  <2> QED BY <2>3 DEF Limits
<1>3. CASE ~(\E new \in Edits : updateView(new))
  <2>1. \/ UNCHANGED view
        \/ \E columns : view' = [view EXCEPT !.columns = columns]
        \/ \E granted : view' = [view EXCEPT !.granted = granted]
    BY <1>3 DEF setColumns, setAccessRoles, upsertColumn, deleteColumn
  <2>2. view'.limit = view.limit
    BY <1>1, <2>1 DEF ViewRow
  <2> QED BY <1>1, <2>2
<1> QED BY <1>2, <1>3

\* While a view is being edited the editor is at one of its steps.
LEMMA EditorBusy ==
  ASSUME FreshInv,
         (\E new \in Edits : updateView(new)) \/ setColumns \/ setAccessRoles
  PROVE  editor' # Idle /\ UNCHANGED <<rows, version, pages, counts, fence, reader, export>>
<1>1. CASE \E new \in Edits : updateView(new)
  <2>1. PICK new \in Edits : updateView(new)
    BY <1>1
  <2>2. /\ editor' = [pc |-> "columns", new |-> new]
        /\ UNCHANGED <<rows, version, pages, counts, fence, reader, export>>
    BY <2>1, Zenon DEF updateView
  <2>3. editor'.pc # "idle"
    BY <2>2
  <2> QED BY <2>2, <2>3 DEF Idle
<1>2. CASE setColumns \/ setAccessRoles
  <2>1. editor \in Edited
    BY <1>2 DEF setColumns, setAccessRoles, FreshInv, NarrowInv, ExportInv, Editing, Idle
  <2>2. \/ UNCHANGED editor
        \/ \E step \in {"insert", "roles", "grant", "invalidate"} :
             editor' = [editor EXCEPT !.pc = step]
    BY <1>2 DEF setColumns, setAccessRoles
  <2>3. editor'.pc # "idle"
    BY <2>1, <2>2 DEF Edited
  <2> QED BY <1>2, <2>3 DEF setColumns, setAccessRoles, Idle
<1> QED BY <1>1, <1>2

LEMMA NextFresh ==
  ASSUME globalSearch(Fields, Indexed) # {}, FreshInv, [Next]_vars
  PROVE  FreshInv'
<1>1. NarrowInv'
  BY NextNarrow DEF FreshInv
<1>2. /\ version \in Nat /\ fence \in 0..version /\ view.limit \in Limits
      /\ reader # Idle => Fetching(reader, rows, version)
      /\ \A k \in DOMAIN counts : KeptCount(k, counts[k], rows, version, fence)
      /\ \A k \in DOMAIN pages : KeptPage(k, pages[k], rows, Quiet, view)
  BY DEF FreshInv
<1>3. ASSUME NEW q \in Queries, Ask(q) PROVE FreshInv'
  <2>1. UNCHANGED <<rows, version, view, pages, counts, fence, editor>>
    BY <1>3 DEF Ask
  <2> DEFINE x == [pc |-> "context", q |-> q, scope |-> view.scope, limit |-> view.limit,
                columns |-> {}, count |-> NoCount, rows |-> <<>>, paged |-> None]
  <2>2. reader' = x
    BY <1>3 DEF Ask
  <2>3. /\ x.q = q /\ x.limit = view.limit /\ x.count = NoCount /\ x.paged = None
        /\ x.pc = "context" /\ x.scope = view.scope
    OBVIOUS
  <2> HIDE DEF x
  <2>4. NoCount \in Count /\ NoCount.at = None
    BY DEF NoCount, Count, None
  <2>5. None \notin 0..version /\ version # None
    BY <1>2 DEF None
  <2>6. Fetching(x, rows, version)
    BY <1>2, <2>3, <2>4, <2>5 DEF Fetching
  <2>7. Quiet' = Quiet
    BY <2>1 DEF Quiet
  <2> QED BY <1>1, <1>2, <2>1, <2>2, <2>6, <2>7 DEF FreshInv
<1>4. CASE ReadContext \/ GetCount \/ GetPage
  <2>1. UNCHANGED <<rows, version, view, pages, counts, fence, editor>> /\ reader # Idle
    <3>1. ASSUME ReadContext PROVE UNCHANGED <<rows, version, view, pages, counts, fence, editor>>
      BY <3>1 DEF ReadContext
    <3>2. ASSUME GetCount PROVE UNCHANGED <<rows, version, view, pages, counts, fence, editor>>
      BY <3>2, Zenon DEF GetCount
    <3>3. ASSUME GetPage PROVE UNCHANGED <<rows, version, view, pages, counts, fence, editor>>
      BY <3>3 DEF GetPage
    <3>4. reader # Idle
      BY <1>4, ReadersAct
    <3> QED BY <1>4, <3>1, <3>2, <3>3, <3>4
  <2>2. reader' # Idle => Fetching(reader', rows, version)
    BY <1>4, <2>1, FetchingOn
  <2>3. Quiet' = Quiet
    BY <2>1 DEF Quiet
  <2> QED BY <1>1, <1>2, <2>1, <2>2, <2>3 DEF FreshInv
<1>5. CASE KeepCount
  <2>1. UNCHANGED <<rows, version, view, pages, fence, editor>> /\ reader # Idle
    BY <1>5, ReadersAct DEF KeepCount
  <2>2. reader' # Idle => Fetching(reader', rows, version)
    BY <1>5, <2>1, FetchingOn
  <2>3. \A k \in DOMAIN counts' : KeptCount(k, counts'[k], rows, version, fence)
    BY <1>5, CountKept
  <2>4. Quiet' = Quiet
    BY <2>1 DEF Quiet
  <2> QED BY <1>1, <1>2, <2>1, <2>2, <2>3, <2>4 DEF FreshInv
<1>6. CASE Answer
  <2>1. UNCHANGED <<rows, version, view, counts, fence, editor>> /\ reader' = Idle
    BY <1>6 DEF Answer
  <2>2. \A k \in DOMAIN pages' : KeptPage(k, pages'[k], rows, Quiet, view)
    BY <1>6, PageKept
  <2>3. Quiet' = Quiet
    BY <2>1 DEF Quiet
  <2> QED BY <1>1, <1>2, <2>1, <2>2, <2>3 DEF FreshInv
<1>7. CASE Expire
  <2>1. /\ UNCHANGED <<rows, version, view, fence, reader, editor>>
        /\ DOMAIN pages' = {} \/ UNCHANGED pages
        /\ DOMAIN counts' = {} \/ UNCHANGED counts
    BY <1>7 DEF Expire
  <2>2. \A k \in DOMAIN counts' : KeptCount(k, counts'[k], rows, version, fence)
    BY <1>2, <2>1
  <2>3. \A k \in DOMAIN pages' : KeptPage(k, pages'[k], rows, Quiet, view)
    BY <1>2, <2>1
  <2>4. Quiet' = Quiet
    BY <2>1 DEF Quiet
  <2> QED BY <1>1, <1>2, <2>1, <2>2, <2>3, <2>4 DEF FreshInv
<1>8. CASE SyncDone
  <2>1. UNCHANGED <<rows, version, view, reader>> /\ fence' = version /\ Invalidate
    BY <1>8 DEF SyncDone
  <2>2. version \in 0..version
    BY <1>2
  <2> QED BY <1>1, <1>2, <2>1, <2>2, ClearingFresh
<1>9. CASE EditDone
  <2>1. UNCHANGED <<rows, version, view, fence, reader>> /\ Invalidate
    BY <1>9 DEF EditDone
  <2> QED BY <1>1, <1>2, <2>1, ClearingFresh
<1>10. CASE EditFails
  <2>1. /\ UNCHANGED <<rows, version, view, fence, reader, counts>>
        /\ pages' = LeftOf(pages, DOMAIN pages)
    BY <1>10 DEF EditFails
  <2> QED BY <1>1, <1>2, <2>1, EditFresh
<1>11. CASE \/ \E q \in Queries, format \in {"csv", "pdf"} : StartExport(q, format)
            \/ StreamChunk \/ CloseExport \/ UNCHANGED vars
  <2>1. UNCHANGED <<rows, version, view, pages, counts, fence, reader, editor>>
    BY <1>11 DEF StartExport, StreamChunk, CloseExport, vars
  <2>2. Quiet' = Quiet
    BY <2>1 DEF Quiet
  <2> QED BY <1>1, <1>2, <2>1, <2>2, EditFresh
<1>12. CASE (\E new \in Edits : updateView(new)) \/ setColumns \/ setAccessRoles
  <2>1. editor' # Idle /\ UNCHANGED <<rows, version, pages, counts, fence, reader>>
    BY <1>12, EditorBusy
  <2>2. view'.limit \in Limits
    BY <1>12, LimitKept
  <2>3. ~Quiet'
    BY <2>1 DEF Quiet
  <2> QED BY <1>1, <2>1, <2>2, <2>3, EditFresh
<1>13. CASE \E c \in Toggled : upsertColumn(c) \/ deleteColumn(c)
  <2>1. /\ UNCHANGED <<rows, version, counts, fence, reader>>
        /\ pages' = LeftOf(pages, DOMAIN pages)
    BY <1>13 DEF upsertColumn, deleteColumn
  <2>2. view'.limit \in Limits
    BY <1>13, LimitKept
  <2> QED BY <1>1, <2>1, <2>2, EditFresh
<1> QED BY <1>3, <1>4, <1>5, <1>6, <1>7, <1>8, <1>9, <1>10, <1>11, <1>12, <1>13,
           WriteFresh DEF Next


-----------------------------------------------------------------------------
(* The theorems about what is shown and what is cached.                     *)

LEMMA InitFresh == Init => FreshInv
<1> SUFFICES ASSUME Init PROVE FreshInv
  OBVIOUS
<1>1. NarrowInv
  <2>1. ExportInv
    BY TableAssumption, AskedAssumption DEF Init, ExportInv, Tidy, Records, Editing
  <2> QED BY <2>1 DEF Init, NarrowInv
<1>2. version \in Nat /\ fence \in 0..version /\ view.limit \in Limits
  BY DEF Init, Limits
<1>3. reader = Idle /\ DOMAIN counts = {} /\ DOMAIN pages = {}
  BY DEF Init
<1> QED BY <1>1, <1>2, <1>3 DEF FreshInv

\* Page p of a view holds the p-th slice of the rows asked for, whatever is
\* written and edited between the requests, unless the page straddles the view's
\* last row (capPage, pageFindings).
THEOREM PagesAreSlices ==
  ASSUME globalSearch(Fields, Indexed) # {},
         \A v \in Views \cup Edits, q \in Queries : ~Straddles(v.limit, q)
  PROVE  Spec => []PagesTile
<1>1. Init => FreshInv
  BY InitFresh
<1>2. FreshInv /\ [Next]_vars => FreshInv'
  BY NextFresh
<1>3. FreshInv => PagesTile
  <2> SUFFICES ASSUME FreshInv, reader # Idle, reader.paged = version
               PROVE  reader.rows = Slice(reader.scope, reader.limit, reader.q)
    BY DEF PagesTile
  <2>1. ReaderIs(reader) /\ Fetching(reader, rows, version)
    BY ReaderShape DEF FreshInv, NarrowInv
  <2>2. /\ reader.q \in Queries /\ reader.q \in Question /\ reader.scope \in Filter
        /\ reader.limit \in Limits /\ reader.limit \in Limit
        /\ ~whereFor(reader.scope, reader.q).bad
    BY <2>1, QueriesAre, LimitsAre DEF ReaderIs
  <2>3. ~Straddles(reader.limit, reader.q)
    BY <2>2 DEF Limits
  <2>4. reader.rows = PageOf(rows, reader.scope, capPage(reader.q, reader.limit))
    BY <2>1 DEF Fetching
  <2>5. reader.rows = SliceOf(rows, reader.scope, reader.limit, reader.q)
    BY <2>2, <2>3, <2>4, PageIsSlice DEF FreshInv, NarrowInv, ExportInv
  <2> QED BY <2>5 DEF Slice, SliceOf, Ordered, OffsetOf
<1> QED BY <1>1, <1>2, <1>3, PTL DEF Spec

\* The rows of a kept key are those of the question it was kept for.
LEMMA CountedRows ==
  ASSUME globalSearch(Fields, Indexed) # {}, NEW S, Tidy(S), NEW scope \in Filter, NEW q \in Question,
         ~whereFor(scope, q).bad, NEW k,
         k.conds = q.conds, k.logic = q.logic, k.search = q.search, k.cols = q.cols
  PROVE  /\ {r \in S : Matches(scope, k, r)} = Selected(S, whereFor(scope, q))
         /\ whereFor(scope, k) = whereFor(scope, q)
<1>1. \A r \in S : r.record_id \in Nat
  BY TableAssumption DEF Tidy, Records
<1>2. Selected(S, whereFor(scope, q)) = {r \in S : Matches(scope, q, r)}
  BY <1>1, WhereMatches DEF Tidy
<1>3. \A r : Matches(scope, k, r) = Matches(scope, q, r)
  BY DEF Matches
<1>4. whereFor(scope, k) = whereFor(scope, q)
  BY SameWhere
<1> QED BY <1>2, <1>3, <1>4

\* Outside the moments between a change and the clearing that follows it, what is
\* cached is what would be read now: the rows, the columns, and a total that is
\* exact up to the cap or is said to be an estimate and is no further off than the
\* statistics.  Excepted is what is marked old: read before a clearing and stored
\* after it, left by a clearing that failed, or kept over a change of a column that
\* clears nothing.  (findingsData, countFindings, invalidate, upsertColumn.)
THEOREM CachesAreCoherent ==
  ASSUME globalSearch(Fields, Indexed) # {}
  PROVE  Spec => []CacheCoherent
<1>1. Init => FreshInv
  BY InitFresh
<1>2. FreshInv /\ [Next]_vars => FreshInv'
  BY NextFresh
<1>3. FreshInv => CacheCoherent
  <2> SUFFICES ASSUME FreshInv, Quiet PROVE CacheCoherent
    BY DEF CacheCoherent
  <2>1. fence = version /\ version \in Nat /\ Tidy(rows)
    BY DEF Quiet, FreshInv, NarrowInv, ExportInv
  <2>2. ASSUME NEW k \in DOMAIN pages, ~pages[k].old
        PROVE  LET n == Cardinality({r \in rows : Matches(k.scope, k.q, r)})
                   filtered == whereFor(k.scope, k.q).sql # <<>>
               IN /\ pages[k].rows = Slice(k.scope, view.limit, k.q)
                  /\ pages[k].columns = contextFor(view)
                  /\ Tells(pages[k], n, filtered, view.limit)
    <3>1. PICK q \in Queries, limit \in Limits :
            /\ k = PageKey(k.scope, limit, q) /\ ~whereFor(k.scope, q).bad
            /\ limit = view.limit /\ pages[k].columns = contextFor(view)
            /\ ShownBy(pages[k], rows, k.scope, q, limit)
      BY <2>2 DEF FreshInv, KeptPage
    <3>2. k.scope \in Filter /\ limit \in Limit /\ q \in Question
      BY LimitsAre, QueriesAre DEF FreshInv, KeptPage
    <3>3. k.q = capPage(q, limit)
      BY <3>1 DEF PageKey
    <3>4. /\ k.q.conds = q.conds /\ k.q.logic = q.logic
          /\ k.q.search = q.search /\ k.q.cols = q.cols
      BY <3>2, <3>3, CapIs
    <3>5. /\ {r \in rows : Matches(k.scope, k.q, r)} = Selected(rows, whereFor(k.scope, q))
          /\ whereFor(k.scope, k.q) = whereFor(k.scope, q)
      BY <2>1, <3>1, <3>2, <3>4, CountedRows
    <3>6. pages[k].rows = Slice(k.scope, view.limit, k.q)
      BY <3>1, <3>3 DEF ShownBy, Slice, SliceOf, Ordered, OffsetOf
    <3>7. Tells(pages[k], CountOf(rows, k.scope, q), whereFor(k.scope, q).sql # <<>>, limit)
      BY <3>1 DEF ShownBy, CountTells
    <3> QED BY <3>1, <3>5, <3>6, <3>7 DEF CountOf
  <2>3. ASSUME NEW k \in DOMAIN counts, ~counts[k].old
        PROVE  Tells(counts[k], Cardinality({r \in rows : Matches(k.scope, k, r)}),
                     whereFor(k.scope, k).sql # <<>>, None)
    <3>1. KeptCount(k, counts[k], rows, version, fence)
      BY DEF FreshInv
    <3>2. counts[k].at = version
      BY <2>1, <2>3, <3>1 DEF KeptCount
    <3>3. PICK q \in Queries :
            /\ k = CountKey(k.scope, q) /\ ~whereFor(k.scope, q).bad
            /\ CountTells(counts[k], rows, k.scope, q, None)
      BY <3>1, <3>2 DEF KeptCount
    <3>4. k.scope \in Filter /\ q \in Question
      BY <3>1, QueriesAre DEF KeptCount
    <3>5. k.conds = q.conds /\ k.logic = q.logic /\ k.search = q.search /\ k.cols = q.cols
      BY <3>3 DEF CountKey
    <3>6. /\ {r \in rows : Matches(k.scope, k, r)} = Selected(rows, whereFor(k.scope, q))
          /\ whereFor(k.scope, k) = whereFor(k.scope, q)
      BY <2>1, <3>3, <3>4, <3>5, CountedRows
    <3> QED BY <3>3, <3>6 DEF CountTells, CountOf
  <2> QED BY <2>2, <2>3 DEF CacheCoherent
<1> QED BY <1>1, <1>2, <1>3, PTL DEF Spec

=============================================================================
