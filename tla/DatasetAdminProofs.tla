------------------------ MODULE DatasetAdminProofs ------------------------
(***************************************************************************)
(* Proofs about the administration of datasets, for any datasets, fields,  *)
(* files and administrators, and however many operations, failures, syncs  *)
(* and charts interleave.                                                  *)
(***************************************************************************)
EXTENDS DatasetAdminInductive, SequenceTheorems, FiniteSetTheorems, TLAPS

-----------------------------------------------------------------------------
(* Sequences.  What a recursive function computes is proved by induction    *)
(* over the set of the numbers for which it does.                           *)

\* The smallest member of a set of numbers.
Below == {p \in Nat \X Nat : p[1] < p[2]}

LEMMA Smallest ==
  ASSUME NEW T, T \subseteq Nat, T # {}
  PROVE  \E m \in T : \A k \in T : m <= k
<1>1. IsWellFoundedOn(Below, Nat)
  BY NatLessThanWellFounded DEF Below, OpToRel
<1>2. PICK m \in T : \A k \in T : ~(<<k, m>> \in Below)
  BY <1>1, WFMin
<1>3. \A k \in T : ~(k < m)
  BY <1>2 DEF Below
<1> QED BY <1>3

LEMMA SetInduction ==
  ASSUME NEW S, 0 \in S, \A n \in Nat : n \in S => n + 1 \in S
  PROVE  Nat \subseteq S
<1> SUFFICES ASSUME Nat \ S # {} PROVE FALSE
  OBVIOUS
<1>1. PICK m \in Nat \ S : \A k \in Nat \ S : m <= k
  BY Smallest
<1>2. m # 0 /\ m - 1 \in Nat /\ m - 1 \in S
  BY <1>1
<1> QED BY <1>1, <1>2

\* The concatenation of the first i sequences, for each i.
Flat(f, seqs, n) == f = [i \in 1..n |-> IF i = 1 THEN seqs[i] ELSE f[i - 1] \o seqs[i]]

LEMMA FlatExists ==
  ASSUME NEW seqs, NEW n \in Nat
  PROVE  \E f : Flat(f, seqs, n)
<1> DEFINE G == {k \in Nat : \E f : Flat(f, seqs, k)}
<1>1. 0 \in G
  <2>1. Flat([i \in 1..0 |-> i], seqs, 0)
    BY DEF Flat
  <2> QED BY <2>1
<1>2. ASSUME NEW k \in Nat, k \in G PROVE k + 1 \in G
  <2>1. PICK f : Flat(f, seqs, k)
    BY <1>2
  <2> DEFINE g == [i \in 1..k+1 |-> IF i = 1 THEN seqs[i] ELSE f[i - 1] \o seqs[i]]
  <2>2. f = [i \in 1..k |-> IF i = 1 THEN seqs[i] ELSE f[i - 1] \o seqs[i]]
    BY <2>1 DEF Flat
  <2>3. ASSUME NEW i \in 1..k PROVE g[i] = f[i]
    <3>1. g[i] = IF i = 1 THEN seqs[i] ELSE f[i - 1] \o seqs[i]
      OBVIOUS
    <3>2. f[i] = IF i = 1 THEN seqs[i] ELSE f[i - 1] \o seqs[i]
      BY <2>2
    <3> QED BY <3>1, <3>2
  <2>4. g = [i \in 1..k+1 |-> IF i = 1 THEN seqs[i] ELSE g[i - 1] \o seqs[i]]
    <3>1. \A i \in 1..k+1 : i # 1 => i - 1 \in 1..k
      OBVIOUS
    <3>2. \A i \in 1..k+1 : i # 1 => g[i - 1] = f[i - 1]
      BY <2>3, <3>1
    <3> QED BY <3>2
  <2>5. Flat(g, seqs, k + 1)
    BY <2>4 DEF Flat
  <2> QED BY <2>5
<1> HIDE DEF G
<1>3. n \in G
  BY <1>1, <1>2, SetInduction
<1> QED BY <1>3 DEF G

LEMMA FlattenIs ==
  ASSUME NEW seqs, Len(seqs) \in Nat, Len(seqs) # 0
  PROVE  \E f : Flat(f, seqs, Len(seqs)) /\ FlattenSeq(seqs) = f[Len(seqs)]
<1> DEFINE c == CHOOSE f : Flat(f, seqs, Len(seqs))
<1>1. Flat(c, seqs, Len(seqs))
  BY FlatExists
<1>2. FlattenSeq(seqs) = c[Len(seqs)]
  BY DEF FlattenSeq, Flat
<1> QED BY <1>1, <1>2

LEMMA Concat ==
  ASSUME NEW p, NEW q, IsSeq(p), IsSeq(q)
  PROVE  /\ IsSeq(p \o q) /\ Len(p \o q) = Len(p) + Len(q)
         /\ \A i \in DOMAIN (p \o q) :
              (p \o q)[i] = IF i <= Len(p) THEN p[i] ELSE q[i - Len(p)]
<1>1. PICK S, T : p \in Seq(S) /\ q \in Seq(T)
  BY DEF IsSeq
<1>2. p \in Seq(S \cup T) /\ q \in Seq(S \cup T)
  BY <1>1
<1>3. p \o q \in Seq(S \cup T) /\ Len(p \o q) = Len(p) + Len(q)
  BY <1>2
<1> QED BY <1>2, <1>3 DEF IsSeq

LEMMA ConcatOf ==
  ASSUME NEW p, NEW q, IsSeq(p), IsSeq(q)
  PROVE  /\ IsSeq(p \o q)
         /\ \A x : Member(x, p \o q) => Member(x, p) \/ Member(x, q)
<1> DEFINE r == p \o q
<1>1. IsSeq(r) /\ Len(r) = Len(p) + Len(q)
  BY Concat
<1>2. \A i \in DOMAIN r : r[i] = IF i <= Len(p) THEN p[i] ELSE q[i - Len(p)]
  BY Concat
<1>3. DOMAIN r = 1..Len(r) /\ DOMAIN p = 1..Len(p) /\ DOMAIN q = 1..Len(q)
      /\ Len(p) \in Nat /\ Len(q) \in Nat
  BY <1>1 DEF IsSeq
<1> HIDE DEF r
<1>4. ASSUME NEW x, Member(x, r) PROVE Member(x, p) \/ Member(x, q)
  <2>1. PICK i \in DOMAIN r : r[i] = x
    BY <1>4 DEF Member
  <2>2. CASE i <= Len(p)
    BY <1>1, <1>2, <1>3, <2>1, <2>2 DEF Member
  <2>3. CASE ~(i <= Len(p))
    <3>1. i - Len(p) \in DOMAIN q
      BY <1>1, <1>3, <2>1, <2>3
    <3> QED BY <1>2, <2>1, <2>3, <3>1 DEF Member
  <2> QED BY <2>2, <2>3
<1> QED BY <1>1, <1>4 DEF r

LEMMA ConcatHas ==
  ASSUME NEW p, NEW q, IsSeq(p), IsSeq(q), NEW x, Member(x, p) \/ Member(x, q)
  PROVE  Member(x, p \o q)
<1> DEFINE r == p \o q
<1>1. IsSeq(r) /\ Len(r) = Len(p) + Len(q)
  BY Concat
<1>2. \A i \in DOMAIN r : r[i] = IF i <= Len(p) THEN p[i] ELSE q[i - Len(p)]
  BY Concat
<1>3. DOMAIN r = 1..Len(r) /\ DOMAIN p = 1..Len(p) /\ DOMAIN q = 1..Len(q)
      /\ Len(p) \in Nat /\ Len(q) \in Nat
  BY <1>1 DEF IsSeq
<1> HIDE DEF r
<1>4. CASE Member(x, p)
  <2>1. PICK i \in DOMAIN p : p[i] = x
    BY <1>4 DEF Member
  <2>2. i \in DOMAIN r /\ r[i] = x
    BY <1>1, <1>2, <1>3, <2>1
  <2> QED BY <2>2 DEF Member, r
<1>5. CASE Member(x, q)
  <2>1. PICK i \in DOMAIN q : q[i] = x
    BY <1>5 DEF Member
  <2>2. i + Len(p) \in DOMAIN r /\ ~(i + Len(p) <= Len(p)) /\ (i + Len(p)) - Len(p) = i
    BY <1>1, <1>3, <2>1
  <2>3. r[i + Len(p)] = x
    BY <1>2, <2>1, <2>2
  <2> QED BY <2>2, <2>3 DEF Member, r
<1> QED BY <1>4, <1>5

\* The elements of a flattened sequence are elements of its members.
LEMMA Flattened ==
  ASSUME NEW seqs, IsSeq(seqs), \A i \in DOMAIN seqs : IsSeq(seqs[i])
  PROVE  /\ IsSeq(FlattenSeq(seqs))
         /\ \A x : Member(x, FlattenSeq(seqs)) => \E j \in DOMAIN seqs : Member(x, seqs[j])
<1>0. Len(seqs) \in Nat /\ DOMAIN seqs = 1..Len(seqs)
  BY DEF IsSeq
<1>1. CASE Len(seqs) = 0
  <2>1. FlattenSeq(seqs) = seqs
    BY <1>1 DEF FlattenSeq
  <2>2. DOMAIN seqs = {}
    BY <1>0, <1>1
  <2> QED BY <2>1, <2>2 DEF Member
<1>2. CASE Len(seqs) # 0
  <2>1. PICK f : Flat(f, seqs, Len(seqs)) /\ FlattenSeq(seqs) = f[Len(seqs)]
    BY <1>0, <1>2, FlattenIs
  <2>2. f = [i \in 1..Len(seqs) |-> IF i = 1 THEN seqs[i] ELSE f[i - 1] \o seqs[i]]
    BY <2>1 DEF Flat
  <2> DEFINE Good(n) == /\ IsSeq(f[n])
                        /\ \A x : Member(x, f[n]) => \E j \in DOMAIN seqs : Member(x, seqs[j])
             G == {n \in Nat : n + 1 \in 1..Len(seqs) => Good(n + 1)}
  <2>3. 0 \in G
    <3>1. f[1] = seqs[1] /\ 1 \in DOMAIN seqs
      BY <1>0, <1>2, <2>2
    <3> QED BY <3>1
  <2>4. ASSUME NEW n \in Nat, n \in G PROVE n + 1 \in G
    <3> SUFFICES ASSUME n + 2 \in 1..Len(seqs) PROVE Good(n + 2)
      OBVIOUS
    <3>1. Good(n + 1)
      BY <2>4, <1>0
    <3>2. f[n + 2] = f[n + 1] \o seqs[n + 2]
      <4>1. n + 2 # 1 /\ (n + 2) - 1 = n + 1
        OBVIOUS
      <4> QED BY <2>2, <4>1
    <3>3. IsSeq(seqs[n + 2]) /\ n + 2 \in DOMAIN seqs
      BY <1>0
    <3>4. IsSeq(f[n + 1])
      BY <3>1
    <3>5. IsSeq(f[n + 2])
      BY <3>2, <3>3, <3>4, ConcatOf
    <3>6. \A x : Member(x, f[n + 2]) => Member(x, f[n + 1]) \/ Member(x, seqs[n + 2])
      BY <3>2, <3>3, <3>4, ConcatOf
    <3> QED BY <3>1, <3>3, <3>5, <3>6
  <2> HIDE DEF G
  <2>5. Len(seqs) - 1 \in G /\ Len(seqs) - 1 + 1 = Len(seqs) /\ Len(seqs) \in 1..Len(seqs)
    BY <1>0, <1>2, <2>3, <2>4, SetInduction
  <2>6. Good(Len(seqs))
    BY <2>5 DEF G
  <2> QED BY <2>1, <2>6
<1> QED BY <1>1, <1>2

LEMMA ImageIsFinite ==
  ASSUME NEW S, IsFiniteSet(S), NEW f
  PROVE  IsFiniteSet({f[x] : x \in S})
<1> DEFINE T == {f[x] : x \in S}
<1>1. PICK n \in Nat : ExistsSurjection(1..n, S)
  BY FS_NatSurjection
<1>2. PICK h : h \in Surjection(1..n, S)
  BY <1>1 DEF ExistsSurjection
<1> DEFINE g == [i \in 1..n |-> f[h[i]]]
<1>3. g \in Surjection(1..n, T)
  BY <1>2 DEF Surjection
<1>4. ExistsSurjection(1..n, T)
  BY <1>3 DEF ExistsSurjection
<1> QED BY <1>4, FS_NatSurjection

LEMMA SetIsListed ==
  ASSUME NEW S, IsFiniteSet(S)
  PROVE  SetToSeq(S) \in Seq(S)
<1>1. Cardinality(S) \in Nat /\ ExistsBijection(1..Cardinality(S), S)
  BY FS_CardinalityType
<1>2. \E f \in [1..Cardinality(S) -> S] : IsInjective(f)
  BY <1>1 DEF ExistsBijection, Bijection, Injection
<1>3. SetToSeq(S) \in [1..Cardinality(S) -> S]
  BY <1>2 DEF SetToSeq
<1> QED BY <1>1, <1>3

-----------------------------------------------------------------------------
(* The plans of the operations.                                             *)

PlanFits(kind, k, q) == IsSeq(q) /\ \A s : Member(s, q) => Fits(kind, k, s)

LEMMA TupleIsSeq ==
  /\ IsSeq(<<>>) /\ \A x : ~Member(x, <<>>)
  /\ \A a : IsSeq(<<a>>) /\ \A x : Member(x, <<a>>) => x = a
  /\ \A a, b : IsSeq(<<a, b>>) /\ \A x : Member(x, <<a, b>>) => x = a \/ x = b
  /\ \A a, b, c : IsSeq(<<a, b, c>>) /\ \A x : Member(x, <<a, b, c>>) => x = a \/ x = b \/ x = c
<1>1. IsSeq(<<>>) /\ \A x : ~Member(x, <<>>)
  BY DEF IsSeq, Member
<1>2. ASSUME NEW a PROVE IsSeq(<<a>>) /\ \A x : Member(x, <<a>>) => x = a
  <2>1. <<a>> \in Seq({a})
    OBVIOUS
  <2>2. IsSeq(<<a>>)
    BY <2>1 DEF IsSeq
  <2>3. DOMAIN <<a>> = {1}
    OBVIOUS
  <2>4. \A x : Member(x, <<a>>) => x = a
    BY <2>3 DEF Member
  <2> QED BY <2>2, <2>4
<1>3. ASSUME NEW a, NEW b PROVE IsSeq(<<a, b>>) /\ \A x : Member(x, <<a, b>>) => x = a \/ x = b
  <2>1. <<a, b>> \in Seq({a, b})
    OBVIOUS
  <2>2. IsSeq(<<a, b>>)
    BY <2>1 DEF IsSeq
  <2>3. DOMAIN <<a, b>> = {1, 2}
    OBVIOUS
  <2>4. \A x : Member(x, <<a, b>>) => x = a \/ x = b
    BY <2>3 DEF Member
  <2> QED BY <2>2, <2>4
<1>4. ASSUME NEW a, NEW b, NEW c
      PROVE  IsSeq(<<a, b, c>>) /\ \A x : Member(x, <<a, b, c>>) => x = a \/ x = b \/ x = c
  <2>1. <<a, b, c>> \in Seq({a, b, c})
    OBVIOUS
  <2>2. IsSeq(<<a, b, c>>)
    BY <2>1 DEF IsSeq
  <2>3. DOMAIN <<a, b, c>> = {1, 2, 3}
    OBVIOUS
  <2>4. \A x : Member(x, <<a, b, c>>) => x = a \/ x = b \/ x = c
    BY <2>3 DEF Member
  <2> QED BY <2>2, <2>4
<1> QED BY <1>1, <1>2, <1>3, <1>4

LEMMA JoinedPlans ==
  ASSUME NEW kind, NEW k, NEW p, NEW q, PlanFits(kind, k, p), PlanFits(kind, k, q)
  PROVE  PlanFits(kind, k, p \o q)
BY ConcatOf DEF PlanFits

\* What is left of a plan after its first statement, behind what that one found.
LEMMA NextPlan ==
  ASSUME NEW q, IsSeq(q), q # <<>>
  PROVE  /\ Member(Head(q), q) /\ IsSeq(Tail(q))
         /\ \A x : Member(x, Tail(q)) => Member(x, q)
         /\ \A x : Member(x, q) => x = Head(q) \/ Member(x, Tail(q))
<1>1. PICK S : q \in Seq(S)
  BY DEF IsSeq
<1>2. Len(q) \in Nat /\ DOMAIN q = 1..Len(q) /\ Len(q) # 0 /\ Tail(q) \in Seq(S)
      /\ Len(Tail(q)) = Len(q) - 1 /\ Head(q) = q[1]
  BY <1>1
<1>3. \A i \in 1..(Len(q) - 1) : Tail(q)[i] = q[i + 1]
  BY <1>1
<1>4. DOMAIN Tail(q) = 1..(Len(q) - 1)
  BY <1>2
<1>5. Member(Head(q), q)
  BY <1>2 DEF Member
<1>6. \A x : Member(x, Tail(q)) => Member(x, q)
  BY <1>2, <1>3, <1>4 DEF Member
<1>7. ASSUME NEW x, Member(x, q) PROVE x = Head(q) \/ Member(x, Tail(q))
  <2>1. PICK i \in DOMAIN q : q[i] = x
    BY <1>7 DEF Member
  <2>2. CASE i = 1
    BY <1>2, <2>1, <2>2
  <2>3. CASE i # 1
    <3>1. i - 1 \in DOMAIN Tail(q) /\ Tail(q)[i - 1] = x
      BY <1>2, <1>3, <1>4, <2>1, <2>3
    <3> QED BY <3>1 DEF Member
  <2> QED BY <2>2, <2>3
<1> QED BY <1>2, <1>5, <1>6, <1>7 DEF IsSeq

LEMMA ListIsSeq ==
  ASSUME NEW n \in Nat, NEW f, f = [i \in 1..n |-> f[i]]
  PROVE  IsSeq(f)
<1>1. f \in Seq({f[i] : i \in 1..n})
  OBVIOUS
<1> QED BY <1>1 DEF IsSeq

LEMMA FlattenFits ==
  ASSUME NEW seqs, IsSeq(seqs), NEW kind, NEW k,
         \A i \in DOMAIN seqs : PlanFits(kind, k, seqs[i])
  PROVE  PlanFits(kind, k, FlattenSeq(seqs))
<1>1. \A i \in DOMAIN seqs : IsSeq(seqs[i])
  BY DEF PlanFits
<1>2. IsSeq(FlattenSeq(seqs)) /\ \A x : Member(x, FlattenSeq(seqs)) => \E j \in DOMAIN seqs : Member(x, seqs[j])
  BY <1>1, Flattened
<1> QED BY <1>2 DEF PlanFits

LEMMA AlikeIsSeq ==
  ASSUME NEW q, IsSeq(q), NEW f, f = [i \in DOMAIN q |-> f[i]]
  PROVE  IsSeq(f)
<1>1. PICK S : q \in Seq(S)
  BY DEF IsSeq
<1>2. DOMAIN q = 1..Len(q) /\ Len(q) \in Nat
  BY <1>1
<1>3. f \in Seq({f[i] : i \in DOMAIN q})
  BY <1>2
<1> QED BY <1>3 DEF IsSeq

\* One more field of those an edit asks for, and the first n of them.
WithField(submitted, existing, n, done) ==
  LET f == submitted[n]
      key == IF f.key \in DOMAIN existing THEN f.key
             ELSE resolveColumnKey(nameOf(f), n, DOMAIN existing \cup KeysOf(done))
  IN Append(done, [key |-> key, label |-> f.label, type |-> f.type])
FirstFields(f, submitted, existing, n) ==
  f = [i \in 0..n |-> IF i = 0 THEN <<>> ELSE WithField(submitted, existing, i, f[i - 1])]

LEMMA FirstFieldsExist ==
  ASSUME NEW submitted, NEW existing, NEW n \in Nat
  PROVE  \E f : FirstFields(f, submitted, existing, n)
<1> DEFINE W(i, done) == WithField(submitted, existing, i, done)
           G == {k \in Nat : \E f : FirstFields(f, submitted, existing, k)}
<1>1. 0 \in G
  <2>1. FirstFields([i \in 0..0 |-> <<>>], submitted, existing, 0)
    BY DEF FirstFields
  <2> QED BY <2>1
<1>2. ASSUME NEW k \in Nat, k \in G PROVE k + 1 \in G
  <2>1. PICK f : FirstFields(f, submitted, existing, k)
    BY <1>2
  <2> DEFINE g == [i \in 0..k+1 |-> IF i = 0 THEN <<>> ELSE W(i, f[i - 1])]
  <2>2. f = [i \in 0..k |-> IF i = 0 THEN <<>> ELSE W(i, f[i - 1])]
    BY <2>1 DEF FirstFields
  <2> HIDE DEF W
  <2>3. \A i \in 0..k : g[i] = f[i]
    BY <2>2
  <2>4. \A i \in 0..k+1 : i # 0 => i - 1 \in 0..k
    OBVIOUS
  <2>5. g = [i \in 0..k+1 |-> IF i = 0 THEN <<>> ELSE W(i, g[i - 1])]
    <3>1. \A i \in 0..k+1 : i # 0 => g[i - 1] = f[i - 1]
      BY <2>3, <2>4
    <3> QED BY <3>1
  <2>6. FirstFields(g, submitted, existing, k + 1)
    BY <2>5 DEF FirstFields, W
  <2> QED BY <2>6
<1> HIDE DEF G
<1>3. n \in G
  BY <1>1, <1>2, SetInduction
<1> QED BY <1>3 DEF G

LEMMA AppendIsSeq ==
  ASSUME NEW q, IsSeq(q), NEW x
  PROVE  IsSeq(Append(q, x))
<1>1. PICK S : q \in Seq(S)
  BY DEF IsSeq
<1>2. q \in Seq(S \cup {x})
  BY <1>1
<1>3. Append(q, x) \in Seq(S \cup {x})
  BY <1>2
<1> QED BY <1>3 DEF IsSeq

LEMMA DesiredAreListed ==
  ASSUME NEW submitted, Len(submitted) \in Nat, NEW existing
  PROVE  IsSeq(desiredFields(submitted, existing))
<1> DEFINE N == Len(submitted)
           c == CHOOSE f : FirstFields(f, submitted, existing, N)
<1>1. FirstFields(c, submitted, existing, N)
  BY FirstFieldsExist
<1>2. desiredFields(submitted, existing) = c[N]
  BY DEF desiredFields, FirstFields, WithField
<1> HIDE DEF c
<1> DEFINE G == {n \in Nat : n \in 0..N => IsSeq(c[n])}
<1>3. c = [i \in 0..N |-> IF i = 0 THEN <<>> ELSE WithField(submitted, existing, i, c[i - 1])]
  BY <1>1 DEF FirstFields
<1>4. 0 \in G
  BY <1>3, TupleIsSeq
<1>5. ASSUME NEW n \in Nat, n \in G PROVE n + 1 \in G
  <2> SUFFICES ASSUME n + 1 \in 0..N PROVE IsSeq(c[n + 1])
    OBVIOUS
  <2>1. n \in 0..N /\ IsSeq(c[n])
    BY <1>5
  <2>2. c[n + 1] = WithField(submitted, existing, n + 1, c[n])
    <3>1. n + 1 # 0 /\ (n + 1) - 1 = n
      OBVIOUS
    <3> QED BY <1>3, <3>1
  <2> QED BY <2>1, <2>2, AppendIsSeq DEF WithField
<1> HIDE DEF G
<1>6. N \in G
  BY <1>4, <1>5, SetInduction
<1> QED BY <1>2, <1>6 DEF G

LEMMA CreatePlanFits ==
  ASSUME NEW c, Len(c.fields) \in Nat
  PROVE  PlanFits("create", c.key, createPlan(c))
<1> DEFINE fields == desiredFields(c.fields, <<>>)
           seqs == [i \in DOMAIN fields |-> <<SeedMapping(c.key, fields[i])>>]
           columns == [col \in KeysOf(fields) |-> (CHOOSE f \in ToSet(fields) : f.key = col).type]
           s1 == [do |-> "create table", key |-> c.key, columns |-> columns]
           s2 == [do |-> "register", key |-> c.key, source |-> c.source, keyColumn |-> c.keyColumn,
                  fields |-> fields]
           s3 == [do |-> "add view", key |-> c.key, view |-> RegisterKey(c.key)]
<1>1. IsSeq(fields)
  BY DesiredAreListed
<1>2. createPlan(c) = <<s1, s2>> \o FlattenSeq(seqs) \o <<s3>>
  BY DEF createPlan, resolveFields, Each
<1>3. Fits("create", c.key, s1) /\ Fits("create", c.key, s2) /\ Fits("create", c.key, s3)
  <2> HIDE DEF fields, columns
  <2> QED BY <1>1 DEF Fits, Duty
<1>4. \A i \in DOMAIN fields : Fits("create", c.key, SeedMapping(c.key, fields[i]))
  <2> HIDE DEF fields
  <2> QED BY DEF Fits, Duty, SeedMapping
<1> HIDE DEF s1, s2, s3, fields
<1>5. PlanFits("create", c.key, FlattenSeq(seqs))
  <2>1. IsSeq(seqs)
    BY <1>1, AlikeIsSeq
  <2>2. \A i \in DOMAIN seqs : PlanFits("create", c.key, seqs[i])
    BY <1>4, TupleIsSeq DEF PlanFits
  <2> HIDE DEF seqs
  <2> QED BY <2>1, <2>2, FlattenFits
<1>6. PlanFits("create", c.key, <<s1, s2>>) /\ PlanFits("create", c.key, <<s3>>)
  BY <1>3, TupleIsSeq DEF PlanFits
<1> HIDE DEF seqs
<1> QED BY <1>2, <1>5, <1>6, JoinedPlans

LEMMA AddFieldFits ==
  ASSUME NEW k, NEW id, NEW f, NEW kind \in {"create", "update"}
  PROVE  Fits(kind, k, AddField(k, id, f)) /\ Fits(kind, k, SeedMapping(k, f))
BY DEF Fits, Duty, AddField, SeedMapping

LEMMA DropFits ==
  ASSUME NEW k, NEW col, NEW id
  PROVE  PlanFits("update", k, dropField(k, col, id))
<1> DEFINE s1 == [do |-> "drop column", key |-> k, col |-> col]
           s2 == [do |-> "delete field", key |-> k, col |-> col, id |-> id]
           s3 == [do |-> "unmap column", key |-> k, col |-> col]
<1>1. Fits("update", k, s1) /\ Fits("update", k, s2) /\ Fits("update", k, s3)
  BY DEF Fits, Duty
<1>2. dropField(k, col, id) = <<s1, s2, s3>>
  BY DEF dropField
<1> HIDE DEF s1, s2, s3
<1> QED BY <1>1, <1>2, TupleIsSeq DEF PlanFits

LEMMA UpdatePlanFits ==
  ASSUME NEW u, Len(u.fields) \in Nat, NEW id, NEW fields, IsFiniteSet(DOMAIN fields)
  PROVE  PlanFits("update", u.key, updatePlan(u, id, fields))
<1> DEFINE P(q) == PlanFits("update", u.key, q)
           existing == Without(fields, Reserved)
           desired == desiredFields(u.fields, existing)
           structural(todo) == IF u.key \in Protected THEN <<[do |-> "refuse", key |-> u.key]>> ELSE todo
           keep(f) ==
             IF f.key \notin DOMAIN existing
             THEN structural(<<[AddField(u.key, id, f) EXCEPT !.do = "add column"],
                               AddField(u.key, id, f), SeedMapping(u.key, f)>>)
             ELSE (IF existing[f.key].type = f.type THEN <<>>
                   ELSE structural(<<[AddField(u.key, id, f) EXCEPT !.do = "alter column"]>>))
                  \o <<[AddField(u.key, existing[f.key].id, f) EXCEPT !.do = "set field"]>>
           drop(col) == structural(dropField(u.key, col, existing[col].id))
           gone == SetToSeq(DOMAIN existing \ KeysOf(desired))
           kept == [i \in DOMAIN desired |-> keep(desired[i])]
           dropped == [i \in DOMAIN gone |-> drop(gone[i])]
<1>1. IsSeq(desired)
  BY DesiredAreListed
<1>2. IsSeq(gone)
  <2>1. IsFiniteSet(DOMAIN existing \ KeysOf(desired))
    <3>1. DOMAIN existing \ KeysOf(desired) \subseteq DOMAIN fields
      BY DEF Without
    <3> QED BY <3>1, FS_Subset
  <2> QED BY <2>1, SetIsListed DEF IsSeq
<1>3. updatePlan(u, id, fields) = FlattenSeq(kept) \o FlattenSeq(dropped)
  BY DEF updatePlan, Each
<1>4. P(<<[do |-> "refuse", key |-> u.key]>>)
  <2> DEFINE s == [do |-> "refuse", key |-> u.key]
  <2>1. Fits("update", u.key, s)
    BY DEF Fits, Duty
  <2> HIDE DEF s
  <2>2. P(<<s>>)
    BY <2>1, TupleIsSeq DEF PlanFits
  <2> QED BY <2>2 DEF s
<1>5. \A todo : P(todo) => P(structural(todo))
  BY <1>4
<1> HIDE DEF structural
<1>6. ASSUME NEW f PROVE P(keep(f))
  <2> DEFINE s1 == [AddField(u.key, id, f) EXCEPT !.do = "add column"]
             s2 == AddField(u.key, id, f)
             s3 == SeedMapping(u.key, f)
             s4 == [AddField(u.key, id, f) EXCEPT !.do = "alter column"]
             s5 == [AddField(u.key, existing[f.key].id, f) EXCEPT !.do = "set field"]
  <2>1. Fits("update", u.key, s1) /\ Fits("update", u.key, s4) /\ Fits("update", u.key, s5)
    <3> HIDE DEF existing
    <3> QED BY DEF Fits, Duty, AddField
  <2>2. Fits("update", u.key, s2) /\ Fits("update", u.key, s3)
    BY AddFieldFits
  <2> HIDE DEF s1, s2, s3, s4, s5
  <2>3. P(<<s1, s2, s3>>) /\ P(<<s4>>) /\ P(<<s5>>) /\ P(<<>>)
    BY <2>1, <2>2, TupleIsSeq DEF PlanFits
  <2>4. P(structural(<<s1, s2, s3>>)) /\ P(structural(<<s4>>))
    BY <1>5, <2>3
  <2>5. keep(f) = IF f.key \notin DOMAIN existing THEN structural(<<s1, s2, s3>>)
                  ELSE (IF existing[f.key].type = f.type THEN <<>> ELSE structural(<<s4>>)) \o <<s5>>
    BY DEF s1, s2, s3, s4, s5
  <2> HIDE DEF existing, keep
  <2> QED BY <2>3, <2>4, <2>5, JoinedPlans
<1>7. \A col : P(drop(col))
  BY <1>5, DropFits
<1>8. P(FlattenSeq(kept))
  <2>1. IsSeq(kept)
    <3> HIDE DEF desired, keep
    <3> QED BY <1>1, AlikeIsSeq
  <2>2. \A i \in DOMAIN kept : P(kept[i])
    <3> HIDE DEF desired, keep
    <3> QED BY <1>6
  <2> HIDE DEF kept
  <2> QED BY <2>1, <2>2, FlattenFits
<1>9. P(FlattenSeq(dropped))
  <2>1. IsSeq(dropped)
    <3> HIDE DEF gone, drop
    <3> QED BY <1>2, AlikeIsSeq
  <2>2. \A i \in DOMAIN dropped : P(dropped[i])
    <3> HIDE DEF gone, drop
    <3> QED BY <1>7
  <2> HIDE DEF dropped
  <2> QED BY <2>1, <2>2, FlattenFits
<1> HIDE DEF kept, dropped
<1> QED BY <1>3, <1>8, <1>9, JoinedPlans

RemoveDuty ==
  {"find matviews", "find views", "drop table", "unmap", "delete views", "delete pipe", "unregister"}

LEMMA RemovePlanFits ==
  ASSUME NEW k, NEW id
  PROVE  /\ PlanFits("remove", k, removePlan(k, id))
         /\ \A s : Member(s, removePlan(k, id)) => s.do \in RemoveDuty
         /\ \A do \in RemoveDuty : \E s : Member(s, removePlan(k, id)) /\ s.do = do /\ s.id = id
         /\ ViewsBeforeDeleted(removePlan(k, id))
<1> DEFINE p == removePlan(k, id)
           duty == << "find matviews", "find views", "drop table", "unmap", "delete views",
                      "delete pipe", "unregister" >>
<1>1. p = [i \in 1..7 |-> [do |-> duty[i], key |-> k, id |-> id]]
  BY DEF removePlan
<1>2. /\ duty[1] = "find matviews" /\ duty[2] = "find views" /\ duty[3] = "drop table"
      /\ duty[4] = "unmap" /\ duty[5] = "delete views" /\ duty[6] = "delete pipe"
      /\ duty[7] = "unregister"
  OBVIOUS
<1>3. \A i \in 1..7 : i = 1 \/ i = 2 \/ i = 3 \/ i = 4 \/ i = 5 \/ i = 6 \/ i = 7
  OBVIOUS
<1> HIDE DEF duty, p
<1>4. \A i \in 1..7 : Duty("remove", duty[i]) /\ duty[i] \notin {"read fields", "register"}
  BY <1>2, <1>3 DEF Duty
<1>5. IsSeq(p)
  BY <1>1, ListIsSeq
<1>6. \A i \in DOMAIN p : Fits("remove", k, p[i])
  BY <1>1, <1>4 DEF Fits
<1>7. PlanFits("remove", k, p)
  BY <1>5, <1>6 DEF PlanFits, Member
<1>8. DOMAIN p = 1..7 /\ \A i \in 1..7 : p[i].id = id /\ p[i].do = duty[i]
  BY <1>1
<1>9. ASSUME NEW s, Member(s, p) PROVE s.do \in RemoveDuty
  <2>1. \A i \in 1..7 : duty[i] \in RemoveDuty
    BY <1>2, <1>3 DEF RemoveDuty
  <2> QED BY <1>8, <1>9, <2>1 DEF Member
<1>10. ASSUME NEW do \in RemoveDuty PROVE \E s : Member(s, p) /\ s.do = do /\ s.id = id
  <2>0. 1 \in 1..7 /\ 2 \in 1..7 /\ 3 \in 1..7 /\ 4 \in 1..7 /\ 5 \in 1..7 /\ 6 \in 1..7 /\ 7 \in 1..7
    OBVIOUS
  <2>1. \E i \in 1..7 : duty[i] = do
    BY <1>2, <2>0, Zenon DEF RemoveDuty
  <2> QED BY <1>8, <2>1 DEF Member
<1>11. ViewsBeforeDeleted(p)
  <2>1. \A i \in 1..7 : (duty[i] = "find views" => i = 2) /\ (duty[i] = "delete views" => i = 5)
    BY <1>2, <1>3
  <2>2. ASSUME NEW i \in DOMAIN p, NEW j \in DOMAIN p, p[i].do = "find views", p[j].do = "delete views"
        PROVE  i < j
    <3>1. i \in 1..7 /\ j \in 1..7
      BY <1>8, <2>2
    <3>2. duty[i] = "find views" /\ duty[j] = "delete views"
      BY <1>8, <2>2, <3>1
    <3>3. i = 2 /\ j = 5
      BY <2>1, <3>1, <3>2
    <3> QED BY <3>3
  <2> QED BY <2>2 DEF ViewsBeforeDeleted
<1> QED BY <1>7, <1>9, <1>10, <1>11 DEF p

DropMatviews(k, cs) ==
  LET list == SetToSeq(cs)
  IN FlattenSeq([i \in DOMAIN list |-> <<[do |-> "drop matview", key |-> k, chart |-> list[i]]>>])

LEMMA DropMatviewFits ==
  ASSUME NEW k, NEW cs, IsFiniteSet(cs), NEW kind \in {"remove", "unview"}
  PROVE  /\ PlanFits(kind, k, DropMatviews(k, cs))
         /\ \A s : Member(s, DropMatviews(k, cs)) => s.do = "drop matview" /\ s.chart \in cs
<1> DEFINE list == SetToSeq(cs)
           drop(c) == [do |-> "drop matview", key |-> k, chart |-> c]
           seqs == [i \in DOMAIN list |-> <<drop(list[i])>>]
           q == FlattenSeq(seqs)
<1>1. list \in Seq(cs)
  BY SetIsListed
<1>2. \A i \in DOMAIN list : list[i] \in cs
  BY <1>1
<1>3. IsSeq(list)
  BY <1>1 DEF IsSeq
<1> HIDE DEF list
<1>4. \A c : Fits(kind, k, drop(c)) /\ drop(c).do = "drop matview" /\ drop(c).chart = c
  BY DEF Fits, Duty
<1> HIDE DEF drop
<1>5. IsSeq(seqs)
  BY <1>3, AlikeIsSeq
<1>6. \A i \in DOMAIN seqs : /\ PlanFits(kind, k, seqs[i])
                             /\ \A s : Member(s, seqs[i]) => s.do = "drop matview" /\ s.chart \in cs
  BY <1>2, <1>4, TupleIsSeq DEF PlanFits
<1> HIDE DEF seqs
<1>7. PlanFits(kind, k, q)
  BY <1>5, <1>6, FlattenFits
<1>8. \A s : Member(s, q) => s.do = "drop matview" /\ s.chart \in cs
  <2>1. \A i \in DOMAIN seqs : IsSeq(seqs[i])
    BY <1>6 DEF PlanFits
  <2>2. \A s : Member(s, q) => \E j \in DOMAIN seqs : Member(s, seqs[j])
    BY <1>5, <2>1, Flattened
  <2> QED BY <1>6, <2>2
<1> QED BY <1>7, <1>8 DEF DropMatviews, seqs, drop, list

LEMMA DeleteChartsFits ==
  ASSUME NEW k, NEW cs, IsFiniteSet(cs), NEW kind \in {"remove", "unview"}
  PROVE  /\ PlanFits(kind, k, deleteCharts(k, cs))
         /\ \A s : Member(s, deleteCharts(k, cs)) =>
              \/ s.do = "drop matview" /\ s.chart \in cs
              \/ s.do = "delete charts" /\ s.charts = cs
         /\ cs # {} => \E s : Member(s, deleteCharts(k, cs)) /\ s.do = "delete charts" /\ s.charts = cs
<1> DEFINE q == DropMatviews(k, cs)
           s1 == [do |-> "delete charts", key |-> k, charts |-> cs]
           r == IF cs = {} THEN <<>> ELSE <<s1>>
<1>1. PlanFits(kind, k, q) /\ \A s : Member(s, q) => s.do = "drop matview" /\ s.chart \in cs
  BY DropMatviewFits
<1>2. deleteCharts(k, cs) = q \o r
  BY DEF deleteCharts, DropMatviews, Each
<1>3. Fits(kind, k, s1) /\ s1.do = "delete charts" /\ s1.charts = cs
  BY DEF Fits, Duty
<1> HIDE DEF q, s1
<1>4. PlanFits(kind, k, r) /\ \A s : Member(s, r) => s = s1
  BY <1>3, TupleIsSeq DEF PlanFits
<1>5. cs # {} => Member(s1, r)
  <2>1. <<s1>>[1] = s1 /\ 1 \in DOMAIN <<s1>>
    OBVIOUS
  <2> QED BY <2>1 DEF Member
<1> HIDE DEF r
<1>6. PlanFits(kind, k, q \o r)
  BY <1>1, <1>4, JoinedPlans
<1>7. \A s : Member(s, q \o r) => Member(s, q) \/ Member(s, r)
  BY <1>1, <1>4, ConcatOf DEF PlanFits
<1>8. Member(s1, r) => Member(s1, q \o r)
  BY <1>1, <1>4, ConcatHas DEF PlanFits
<1> QED BY <1>1, <1>2, <1>3, <1>4, <1>5, <1>6, <1>7, <1>8

LEMMA FilesAreFinite ==
  ASSUME NEW f \in Files
  PROVE  IsFiniteSet(DOMAIN f.rows)
<1>1. PICK n \in Nat : DOMAIN f.rows = 1..n
  BY SubmittedAssumption
<1> QED BY <1>1, FS_Interval

LEMMA RowsAreFinite ==
  ASSUME NEW file, IsFiniteSet(DOMAIN file.rows), NEW fields
  PROVE  IsFiniteSet(DOMAIN rowsById(file, fields))
<1> DEFINE id(i) == IF file.keyed /\ file.rows[i].id # Null THEN file.rows[i].id ELSE i
           usable == {i \in DOMAIN file.rows : id(i) > 0}
           image == {id(i) : i \in usable}
<1>1. DOMAIN rowsById(file, fields) = image
  BY DEF rowsById
<1>2. IsFiniteSet(usable)
  BY FS_Subset
<1>3. IsFiniteSet(image)
  <2> DEFINE g == [i \in usable |-> id(i)]
  <2> HIDE DEF usable, id
  <2>1. image = {g[i] : i \in usable}
    OBVIOUS
  <2> HIDE DEF g
  <2> QED BY <1>2, <2>1, ImageIsFinite
<1> QED BY <1>1, <1>3

LEMMA ImportPlanFits ==
  ASSUME NEW file, IsFiniteSet(DOMAIN file.rows), NEW fields
  PROVE  PlanFits("import", file.key, importPlan(file, fields))
<1> DEFINE byId == rowsById(file, fields)
           ids == SetToSeq(DOMAIN byId)
           batches == (Len(ids) + BatchSize - 1) \div BatchSize
           p == importPlan(file, fields)
<1>1. IsFiniteSet(DOMAIN byId)
  BY RowsAreFinite
<1>2. batches \in Nat
  <2>1. Len(ids) \in Nat
    <3> HIDE DEF byId
    <3>1. ids \in Seq(DOMAIN byId)
      BY <1>1, SetIsListed
    <3> QED BY <3>1
  <2>2. BatchSize \in Nat \ {0}
    BY ConstantsAssumption
  <2> HIDE DEF ids
  <2> QED BY <2>1, <2>2
<1>3. p = [b \in 1..batches |-> [do |-> "upsert", key |-> file.key, rows |-> p[b].rows]]
  <2> DEFINE R(b) ==
               LET in == {ids[i] : i \in ((b - 1) * BatchSize + 1)..Min({b * BatchSize, Len(ids)})}
               IN [n \in in |-> byId[n]]
  <2>1. p = [b \in 1..batches |-> [do |-> "upsert", key |-> file.key, rows |-> R(b)]]
    BY DEF importPlan
  <2> HIDE DEF R, p, batches
  <2>2. \A b \in 1..batches : p[b] = [do |-> "upsert", key |-> file.key, rows |-> p[b].rows]
    BY <2>1
  <2>3. p = [b \in 1..batches |-> p[b]]
    BY <2>1
  <2> QED BY <2>2, <2>3
<1> HIDE DEF p, batches
<1>4. IsSeq(p)
  BY <1>2, <1>3, ListIsSeq
<1>5. ASSUME NEW b \in DOMAIN p PROVE Fits("import", file.key, p[b])
  <2>1. p[b].do = "upsert" /\ p[b].key = file.key
    <3> DEFINE r == p[b].rows
    <3>1. p[b] = [do |-> "upsert", key |-> file.key, rows |-> r]
      BY <1>3
    <3> HIDE DEF r
    <3> QED BY <3>1
  <2> QED BY <2>1 DEF Fits, Duty
<1> QED BY <1>4, <1>5 DEF PlanFits, Member, p

LEMMA MappingPlanFits ==
  ASSUME NEW k, NEW set, IsFiniteSet(DOMAIN set)
  PROVE  PlanFits("mapping", k, MappingPlan(k, set))
<1> DEFINE labels == SetToSeq(DOMAIN set)
           p == [i \in DOMAIN labels |-> SetMapping(k, labels[i], set[labels[i]])]
<1>1. IsSeq(labels)
  BY SetIsListed DEF IsSeq
<1>2. \A label, col : Fits("mapping", k, SetMapping(k, label, col))
  BY DEF Fits, Duty, SetMapping
<1> HIDE DEF labels
<1>3. \A i \in DOMAIN p : Fits("mapping", k, p[i])
  BY <1>2
<1>4. IsSeq(p)
  BY <1>1, AlikeIsSeq
<1>5. MappingPlan(k, set) = p
  BY DEF MappingPlan, labels
<1> HIDE DEF p
<1> QED BY <1>3, <1>4, <1>5 DEF PlanFits, Member

-----------------------------------------------------------------------------
(* What a statement finds for the operation to do next.                     *)

LEMMA FoundFits ==
  ASSUME NEW d, NEW kind, NEW k, NEW s, Fits(kind, k, s),
         k \in DOMAIN d.registry => IsFiniteSet(DOMAIN d.registry[k].fields),
         IsFiniteSet(DOMAIN d.charts), IsFiniteSet(DOMAIN d.matviews)
  PROVE  PlanFits(kind, k, Found(d, s))
<1>1. CASE s.do = "register"
  <2> DEFINE fields == s.fields
             seqs == [i \in DOMAIN fields |-> <<AddField(s.key, d.deleted, fields[i])>>]
  <2>1. Found(d, s) = FlattenSeq(seqs)
    BY <1>1 DEF Found, Each
  <2>2. IsSeq(fields) /\ s.key = k /\ kind = "create"
    BY <1>1 DEF Fits, Duty
  <2> HIDE DEF fields
  <2>3. IsSeq(seqs)
    BY <2>2, AlikeIsSeq
  <2>4. \A i \in DOMAIN seqs : PlanFits(kind, k, seqs[i])
    BY <2>2, AddFieldFits, TupleIsSeq DEF PlanFits
  <2> HIDE DEF seqs
  <2> QED BY <2>1, <2>3, <2>4, FlattenFits
<1>2. CASE s.do = "read fields"
  <2> DEFINE fields == IF IsDataset(d, s) THEN fieldsOf(d, s.key) ELSE <<>>
  <2>1. Found(d, s) = updatePlan(s.request, s.id, fields)
    BY <1>2 DEF Found
  <2>2. s.request.key = k /\ Len(s.request.fields) \in Nat /\ kind = "update" /\ s.key = k
    BY <1>2 DEF Fits, Duty
  <2>3. IsFiniteSet(DOMAIN fields)
    <3>1. IsFiniteSet(DOMAIN <<>>)
      <4>1. DOMAIN <<>> = {}
        OBVIOUS
      <4> QED BY <4>1, FS_EmptySet
    <3>2. fields = <<>> \/ (k \in DOMAIN d.registry /\ fields = d.registry[k].fields)
      BY <2>2 DEF fieldsOf
    <3> HIDE DEF fields
    <3> QED BY <3>1, <3>2
  <2> HIDE DEF fields
  <2> QED BY <2>1, <2>2, <2>3, UpdatePlanFits
<1>3. CASE s.do = "find matviews"
  <2>1. Found(d, s) = DropMatviews(s.key, dependents(d, s.key))
    BY <1>3 DEF Found, Each, DropMatviews
  <2>2. IsFiniteSet(dependents(d, s.key))
    BY FS_Subset DEF dependents
  <2>3. kind = "remove" /\ s.key = k
    BY <1>3 DEF Fits, Duty
  <2> QED BY <2>1, <2>2, <2>3, DropMatviewFits
<1>4. CASE s.do = "find views"
  <2> DEFINE x == [do |-> "find charts", key |-> s.key, places |-> placesOf(d, s.key)]
  <2>1. Found(d, s) = <<x>>
    BY <1>4 DEF Found
  <2>2. Fits(kind, k, x)
    BY <1>4 DEF Fits, Duty
  <2> HIDE DEF x
  <2> QED BY <2>1, <2>2, TupleIsSeq DEF PlanFits
<1>5. CASE s.do = "find charts"
  <2>1. Found(d, s) = deleteCharts(s.key, chartsOn(d, s.places))
    BY <1>5 DEF Found
  <2>2. IsFiniteSet(chartsOn(d, s.places))
    BY FS_Subset DEF chartsOn
  <2>3. kind \in {"remove", "unview"} /\ s.key = k
    BY <1>5 DEF Fits, Duty
  <2>4. PlanFits(kind, s.key, deleteCharts(s.key, chartsOn(d, s.places)))
    <3> DEFINE cs == chartsOn(d, s.places)
    <3> HIDE DEF cs
    <3>1. IsFiniteSet(cs)
      BY <2>2 DEF cs
    <3>2. PlanFits(kind, s.key, deleteCharts(s.key, cs))
      BY <2>3, <3>1, DeleteChartsFits, ZenonT(60)
    <3> QED BY <3>2 DEF cs
  <2> QED BY <2>1, <2>3, <2>4
<1>6. CASE s.do \notin {"register", "read fields", "find matviews", "find views", "find charts"}
  <2>1. Found(d, s) = <<>>
    BY <1>6 DEF Found
  <2> QED BY <2>1, TupleIsSeq DEF PlanFits
<1> QED BY <1>1, <1>2, <1>3, <1>4, <1>5, <1>6

-----------------------------------------------------------------------------
(* What a statement changes, and what it leaves as it was.                  *)

\* The parts of a database other than P.
Kept(d, e, P) ==
  /\ DOMAIN e = DbParts
  /\ "tables" \notin P => e.tables = d.tables
  /\ "registry" \notin P => e.registry = d.registry
  /\ "mapping" \notin P => e.mapping = d.mapping
  /\ "views" \notin P => e.views = d.views
  /\ "charts" \notin P => e.charts = d.charts
  /\ "matviews" \notin P => e.matviews = d.matviews
  /\ "pipes" \notin P => e.pipes = d.pipes
  /\ "deleted" \notin P => e.deleted = d.deleted

SameAt(f, g, k) == (k \in DOMAIN f <=> k \in DOMAIN g) /\ (k \in DOMAIN f => f[k] = g[k])

LEMMA Dispatch ==
  ASSUME NEW d, NEW s
  PROVE  /\ s.do \in TableStatements =>
              Effect(d, s) = IF s.do = "drop table" /\ s.key \notin DOMAIN d.tables THEN d
                             ELSE EffectOnTable(d, s)
         /\ s.do \in RegistryStatements => Effect(d, s) = EffectOnRegistry(d, s)
         /\ s.do \in MappingStatements => Effect(d, s) = EffectOnMapping(d, s)
         /\ s.do \in ViewStatements => Effect(d, s) = EffectOnViews(d, s)
         /\ s.do = "drop matview" => Effect(d, s) = [d EXCEPT !.matviews = Without(@, {s.chart})]
         /\ s.do = "delete charts" => Effect(d, s) = [d EXCEPT !.charts = Without(@, s.charts)]
         /\ s.do = "delete pipe" => Effect(d, s) = [d EXCEPT !.pipes = @ \ {s.key}]
         /\ s.do \notin TableStatements \cup RegistryStatements \cup MappingStatements \cup ViewStatements
                          \cup {"drop matview", "delete charts", "delete pipe"} => Effect(d, s) = d
<1> DEFINE T == TableStatements
           R == RegistryStatements
           M == MappingStatements
           V == ViewStatements
<1>1. /\ T \cap R = {} /\ T \cap M = {} /\ T \cap V = {} /\ R \cap M = {} /\ R \cap V = {} /\ M \cap V = {}
      /\ \A x \in {"drop matview", "delete charts", "delete pipe"} : x \notin T \cup R \cup M \cup V
  BY DEF TableStatements, RegistryStatements, MappingStatements, ViewStatements
<1> QED BY <1>1 DEF Effect

LEMMA TableEffect ==
  ASSUME NEW d, DOMAIN d = DbParts, NEW s, s.do \in TableStatements
  PROVE  /\ Kept(d, Effect(d, s), {"tables"})
         /\ \A k : k # s.key => SameAt(Effect(d, s).tables, d.tables, k)
         /\ s.do # "drop table" => DOMAIN d.tables \subseteq DOMAIN Effect(d, s).tables
         /\ s.do = "drop table" => s.key \notin DOMAIN Effect(d, s).tables
<1> DEFINE e == Effect(d, s)
           t == d.tables[s.key]
<1>1. CASE s.do = "drop table" /\ s.key \notin DOMAIN d.tables
  <2>1. e = d
    BY <1>1, Dispatch
  <2> QED BY <1>1, <2>1 DEF Kept, SameAt
<1>2. CASE s.do = "drop table" /\ s.key \in DOMAIN d.tables
  <2>1. e = [d EXCEPT !.tables = Without(@, {s.key})]
    BY <1>2, Dispatch, ZenonT(60) DEF EffectOnTable
  <2> HIDE DEF e
  <2>2. Kept(d, e, {"tables"}) /\ e.tables = Without(d.tables, {s.key})
    BY <2>1 DEF Kept, DbParts
  <2> QED BY <1>2, <2>2 DEF SameAt, Without, e
<1>3. CASE s.do # "drop table"
  <2>1. e = EffectOnTable(d, s)
    BY <1>3, Dispatch
  <2>2. e = [d EXCEPT !.tables = Put(@, s.key, [columns |-> s.columns, rows |-> <<>>])]
        \/ e = d \/ \E new : e = [d EXCEPT !.tables[s.key] = new]
    BY <1>3, <2>1 DEF EffectOnTable, TableStatements
  <2> HIDE DEF e
  <2>3. CASE e = [d EXCEPT !.tables = Put(@, s.key, [columns |-> s.columns, rows |-> <<>>])]
    <3> DEFINE new == [columns |-> s.columns, rows |-> <<>>]
    <3> HIDE DEF new
    <3>1. Kept(d, e, {"tables"}) /\ e.tables = Put(d.tables, s.key, new)
      BY <2>3 DEF Kept, DbParts, new
    <3> QED BY <1>3, <3>1 DEF SameAt, Put, e
  <2>4. CASE e = d
    BY <1>3, <2>4 DEF Kept, SameAt, e
  <2>5. CASE \E new : e = [d EXCEPT !.tables[s.key] = new]
    <3>1. PICK new : e = [d EXCEPT !.tables[s.key] = new]
      BY <2>5
    <3>2. Kept(d, e, {"tables"}) /\ e.tables = [d.tables EXCEPT ![s.key] = new]
      BY <3>1 DEF Kept, DbParts
    <3> QED BY <1>3, <3>2 DEF SameAt, e
  <2> QED BY <2>2, <2>3, <2>4, <2>5
<1> QED BY <1>1, <1>2, <1>3

LEMMA PutWithoutFinite ==
  ASSUME NEW f, IsFiniteSet(DOMAIN f), NEW key, NEW value, NEW S
  PROVE  IsFiniteSet(DOMAIN Put(f, key, value)) /\ IsFiniteSet(DOMAIN Without(f, S))
<1>1. DOMAIN Put(f, key, value) = DOMAIN f \cup {key} /\ DOMAIN Without(f, S) = DOMAIN f \ S
  BY DEF Put, Without
<1>2. IsFiniteSet({key})
  BY FS_Singleton
<1>3. IsFiniteSet(DOMAIN f \cup {key})
  BY <1>2, FS_Union
<1>4. IsFiniteSet(DOMAIN f \ S)
  BY FS_Subset
<1> QED BY <1>1, <1>3, <1>4

LEMMA NoneFinite == IsFiniteSet(DOMAIN <<>>) /\ DOMAIN <<>> = {}
<1>1. DOMAIN <<>> = {}
  OBVIOUS
<1> QED BY <1>1, FS_EmptySet

LEMMA RegistryEffect ==
  ASSUME NEW d, DOMAIN d = DbParts, d.deleted \in Nat, RowsFinite(d),
         NEW s, s.do \in RegistryStatements
  PROVE  /\ Kept(d, Effect(d, s), {"registry", "deleted"})
         /\ Effect(d, s).deleted \in {d.deleted, d.deleted + 1}
         /\ \A k : k # s.key => SameAt(Effect(d, s).registry, d.registry, k)
         /\ RowsFinite(Effect(d, s))
         /\ s.do = "unregister" /\ IsDataset(d, s) => s.key \notin DOMAIN Effect(d, s).registry
         /\ s.do = "unregister" /\ ~IsDataset(d, s) => Effect(d, s) = d
<1> DEFINE e == Effect(d, s)
           r == d.registry
           old == fieldsOf(d, s.key)
<1>1. e = EffectOnRegistry(d, s)
  BY Dispatch
<1>0. RowsFinite(d)
  OBVIOUS
<1>2. CASE s.do = "register"
  <2> DEFINE new == [id |-> d.deleted, source |-> s.source, fields |-> <<>>]
  <2>1. e = [d EXCEPT !.registry = Put(@, s.key, new)]
    BY <1>1, <1>2 DEF EffectOnRegistry
  <2>2. new.fields = <<>> /\ DOMAIN new = {"id", "source", "fields"}
    OBVIOUS
  <2> HIDE DEF e, new
  <2>3. Kept(d, e, {"registry", "deleted"}) /\ e.registry = Put(r, s.key, new) /\ e.deleted = d.deleted
    BY <2>1 DEF Kept, DbParts
  <2>4. \A k : k # s.key => SameAt(e.registry, r, k)
    BY <2>3 DEF SameAt, Put
  <2>5. RowsFinite(e)
    BY <2>2, <2>3, NoneFinite DEF RowsFinite, Put
  <2> QED BY <1>2, <2>3, <2>4, <2>5 DEF e
<1>3. ASSUME NEW fields, s.key \in DOMAIN r,
             IsFiniteSet(DOMAIN fields),
             e.registry = [r EXCEPT ![s.key] = [r[s.key] EXCEPT !.fields = fields]]
      PROVE  /\ \A k : k # s.key => SameAt(e.registry, r, k)
             /\ RowsFinite(e)
  <2> HIDE DEF e
  <2>1. \A k : k # s.key => SameAt(e.registry, r, k)
    BY <1>3 DEF SameAt
  <2>2. DOMAIN e.registry[s.key] = {"id", "source", "fields"} /\ e.registry[s.key].fields = fields
    BY <1>3 DEF RowsFinite
  <2>3. ASSUME NEW k \in DOMAIN e.registry
        PROVE  DOMAIN e.registry[k] = {"id", "source", "fields"} /\ IsFiniteSet(DOMAIN e.registry[k].fields)
    <3>1. CASE k = s.key
      BY <1>3, <2>2, <3>1
    <3>2. CASE k # s.key
      BY <2>1, <2>3, <3>2 DEF RowsFinite, SameAt
    <3> QED BY <3>1, <3>2
  <2> QED BY <2>1, <2>3 DEF RowsFinite
<1>4. CASE s.do = "settings"
  <2>1. CASE IsDataset(d, s)
    <3>1. e = [d EXCEPT !.registry[s.key].source = s.source]
      BY <1>1, <1>4, <2>1 DEF EffectOnRegistry
    <3> HIDE DEF e
    <3>2. Kept(d, e, {"registry"}) /\ e.registry = [r EXCEPT ![s.key] = [r[s.key] EXCEPT !.source = s.source]]
      BY <3>1 DEF Kept, DbParts
    <3>3. \A k : k # s.key => SameAt(e.registry, r, k)
      BY <3>2 DEF SameAt
    <3>4. s.key \in DOMAIN r => e.registry[s.key].fields = r[s.key].fields
                                 /\ DOMAIN e.registry[s.key] = {"id", "source", "fields"}
      BY <3>2 DEF RowsFinite
    <3>5. RowsFinite(e)
      BY <3>2, <3>3, <3>4 DEF RowsFinite, SameAt
    <3> QED BY <1>4, <3>2, <3>3, <3>5 DEF Kept, e
  <2>2. CASE ~IsDataset(d, s)
    <3>1. e = d
      BY <1>1, <1>4, <2>2 DEF EffectOnRegistry
    <3> QED BY <1>4, <3>1 DEF Kept, SameAt
  <2> QED BY <2>1, <2>2
<1>5. ASSUME e = d PROVE /\ Kept(d, e, {"registry", "deleted"}) /\ e.deleted = d.deleted
                         /\ \A k : k # s.key => SameAt(e.registry, r, k)
                         /\ RowsFinite(e)
  BY <1>5 DEF Kept, SameAt
<1>6. IsField(d, s) => s.key \in DOMAIN r /\ old = r[s.key].fields
  BY NoneFinite DEF IsField, fieldsOf
<1>7. CASE s.do = "add field"
  <2> DEFINE fields == Put(old, s.col, [label |-> s.label, type |-> s.type, id |-> d.deleted])
  <2>2. e = [d EXCEPT !.registry[s.key].fields = fields]
    BY <1>1, <1>7 DEF EffectOnRegistry
  <2>0. CASE s.key \notin DOMAIN r
    <3> HIDE DEF fields
    <3>1. Kept(d, e, {"registry"}) /\ e.registry = [r EXCEPT ![s.key] = [r[s.key] EXCEPT !.fields = fields]]
      <4> HIDE DEF e
      <4> QED BY <2>2 DEF Kept, DbParts
    <3>2. DOMAIN e.registry = DOMAIN r /\ \A k \in DOMAIN r : e.registry[k] = r[k]
      <4> HIDE DEF e, r
      <4> QED BY <2>0, <3>1
    <3> QED BY <1>7, <3>1, <3>2 DEF Kept, SameAt, RowsFinite
  <2> SUFFICES ASSUME s.key \in DOMAIN r
               PROVE  /\ Kept(d, e, {"registry", "deleted"})
                      /\ e.deleted \in {d.deleted, d.deleted + 1}
                      /\ \A k : k # s.key => SameAt(e.registry, r, k)
                      /\ RowsFinite(e)
    BY <1>7, <2>0
  <2>1. s.key \in DOMAIN r /\ old = r[s.key].fields
    BY DEF fieldsOf
  <2>3. IsFiniteSet(DOMAIN fields)
    BY <2>1, PutWithoutFinite DEF RowsFinite
  <2> HIDE DEF fields
  <2>4. Kept(d, e, {"registry"}) /\ e.registry = [r EXCEPT ![s.key] = [r[s.key] EXCEPT !.fields = fields]]
    <3> HIDE DEF e
    <3> QED BY <2>2 DEF Kept, DbParts
  <2> QED BY <1>3, <1>7, <2>1, <2>3, <2>4 DEF Kept
<1>8. CASE s.do = "set field"
  <2>1. CASE IsField(d, s)
    <3> DEFINE fields == Put(old, s.col, [label |-> s.label, type |-> s.type, id |-> s.id])
    <3>1. e = [d EXCEPT !.registry[s.key].fields = fields]
      BY <1>1, <1>8, <2>1 DEF EffectOnRegistry
    <3>2. IsFiniteSet(DOMAIN fields)
      BY <1>6, <2>1, PutWithoutFinite DEF RowsFinite
    <3> HIDE DEF fields
    <3>3. Kept(d, e, {"registry"}) /\ e.registry = [r EXCEPT ![s.key] = [r[s.key] EXCEPT !.fields = fields]]
      <4> HIDE DEF e
      <4> QED BY <3>1 DEF Kept, DbParts
    <3> QED BY <1>3, <1>6, <1>8, <2>1, <3>2, <3>3 DEF Kept
  <2>2. CASE ~IsField(d, s)
    <3>1. e = d
      BY <1>1, <1>8, <2>2 DEF EffectOnRegistry
    <3> QED BY <1>5, <1>8, <3>1
  <2> QED BY <2>1, <2>2
<1>9. CASE s.do = "delete field"
  <2>1. CASE IsField(d, s)
    <3> DEFINE fields == Without(old, {s.col})
    <3>1. e = Deleting([d EXCEPT !.registry[s.key].fields = fields])
      BY <1>1, <1>9, <2>1 DEF EffectOnRegistry
    <3>2. IsFiniteSet(DOMAIN fields)
      BY <1>6, <2>1, PutWithoutFinite DEF RowsFinite
    <3> HIDE DEF fields
    <3>3. Kept(d, e, {"registry", "deleted"}) /\ e.deleted = d.deleted + 1
          /\ e.registry = [r EXCEPT ![s.key] = [r[s.key] EXCEPT !.fields = fields]]
      <4> HIDE DEF e
      <4> QED BY <3>1 DEF Kept, DbParts, Deleting
    <3> QED BY <1>3, <1>6, <1>9, <2>1, <3>2, <3>3
  <2>2. CASE ~IsField(d, s)
    <3>1. e = d
      BY <1>1, <1>9, <2>2 DEF EffectOnRegistry
    <3> QED BY <1>5, <1>9, <3>1
  <2> QED BY <2>1, <2>2
<1>10. CASE s.do = "unregister"
  <2>1. CASE IsDataset(d, s)
    <3>1. e = Deleting([d EXCEPT !.registry = Without(@, {s.key})])
      BY <1>1, <1>10, <2>1 DEF EffectOnRegistry
    <3> HIDE DEF e
    <3>2. Kept(d, e, {"registry", "deleted"}) /\ e.deleted = d.deleted + 1
          /\ e.registry = Without(r, {s.key})
      BY <3>1 DEF Kept, DbParts, Deleting
    <3>3. \A k : k # s.key => SameAt(e.registry, r, k)
      BY <3>2 DEF SameAt, Without
    <3>4. RowsFinite(e)
      BY <3>2 DEF RowsFinite, Without
    <3>5. s.key \notin DOMAIN e.registry
      BY <3>2 DEF Without
    <3> QED BY <2>1, <3>2, <3>3, <3>4, <3>5 DEF e
  <2>2. CASE ~IsDataset(d, s)
    <3>1. e = d
      BY <1>1, <1>10, <2>2 DEF EffectOnRegistry
    <3> QED BY <1>5, <2>2, <3>1
  <2> QED BY <2>1, <2>2
<1> QED BY <1>2, <1>4, <1>7, <1>8, <1>9, <1>10 DEF RegistryStatements

LEMMA MappingEffect ==
  ASSUME NEW d, DOMAIN d = DbParts, d.deleted \in Nat, NEW s, s.do \in MappingStatements
  PROVE  /\ Kept(d, Effect(d, s), {"mapping", "deleted"})
         /\ Effect(d, s).deleted \in {d.deleted, d.deleted + 1}
         /\ DOMAIN Effect(d, s).mapping = DOMAIN d.mapping
         /\ \A k : k # s.key => Effect(d, s).mapping[k] = d.mapping[k]
         /\ s.key \in DOMAIN d.mapping /\ IsFiniteSet(DOMAIN d.mapping[s.key]) =>
              IsFiniteSet(DOMAIN Effect(d, s).mapping[s.key])
         /\ s.do = "unmap" /\ s.key \in DOMAIN d.mapping => Effect(d, s).mapping[s.key] = <<>>
<1> DEFINE e == Effect(d, s)
           m == d.mapping[s.key]
<1>1. e = EffectOnMapping(d, s)
  BY Dispatch
<1>2. \/ e = d
      \/ \E new : /\ e = [d EXCEPT !.mapping[s.key] = new] \/ e = Deleting([d EXCEPT !.mapping[s.key] = new])
                  /\ IsFiniteSet(DOMAIN m) => IsFiniteSet(DOMAIN new)
                  /\ s.do = "unmap" => new = <<>>
  <2>1. CASE s.do = "seed mapping"
    <3> DEFINE new == Put(m, s.label, [col |-> s.col, id |-> d.deleted])
    <3>1. e = d \/ e = [d EXCEPT !.mapping[s.key] = new]
      BY <1>1, <2>1 DEF EffectOnMapping
    <3>2. IsFiniteSet(DOMAIN m) => IsFiniteSet(DOMAIN new)
      BY PutWithoutFinite
    <3> HIDE DEF new, e
    <3> QED BY <2>1, <3>1, <3>2
  <2>2. CASE s.do = "set mapping"
    <3> DEFINE new == Put(m, s.label, [col |-> s.col, id |-> s.id])
    <3>1. e = d \/ e = [d EXCEPT !.mapping[s.key] = new]
      BY <1>1, <2>2 DEF EffectOnMapping
    <3>2. IsFiniteSet(DOMAIN m) => IsFiniteSet(DOMAIN new)
      BY PutWithoutFinite
    <3> HIDE DEF new, e
    <3> QED BY <2>2, <3>1, <3>2
  <2>3. CASE s.do = "unmap column"
    <3> DEFINE of == {l \in DOMAIN m : m[l].col = s.col}
               new == Without(m, of)
    <3>1. e = d \/ e = Deleting([d EXCEPT !.mapping[s.key] = new])
      BY <1>1, <2>3 DEF EffectOnMapping
    <3> HIDE DEF of
    <3>2. IsFiniteSet(DOMAIN m) => IsFiniteSet(DOMAIN new)
      BY PutWithoutFinite
    <3> HIDE DEF new, e
    <3> QED BY <2>3, <3>1, <3>2
  <2>4. CASE s.do = "unmap"
    <3>1. e = (IF m = <<>> THEN d ELSE Deleting([d EXCEPT !.mapping[s.key] = <<>>]))
      BY <1>1, <2>4 DEF EffectOnMapping
    <3>2. IsFiniteSet(DOMAIN <<>>)
      BY NoneFinite
    <3> HIDE DEF e
    <3> QED BY <2>4, <3>1, <3>2
  <2> QED BY <2>1, <2>2, <2>3, <2>4 DEF MappingStatements
<1>3. s.do = "unmap" /\ m = <<>> => e = d
  BY <1>1 DEF EffectOnMapping
<1>4. s.do = "unmap" /\ m # <<>> => e = Deleting([d EXCEPT !.mapping[s.key] = <<>>])
  BY <1>1 DEF EffectOnMapping
<1> HIDE DEF e
<1>5. s.do = "unmap" /\ s.key \in DOMAIN d.mapping => e.mapping[s.key] = <<>>
  BY <1>3, <1>4, ZenonT(60) DEF Deleting, DbParts
<1>6. CASE e = d
  BY <1>5, <1>6 DEF Kept, e
<1>7. CASE \E new : /\ e = [d EXCEPT !.mapping[s.key] = new] \/ e = Deleting([d EXCEPT !.mapping[s.key] = new])
                    /\ IsFiniteSet(DOMAIN m) => IsFiniteSet(DOMAIN new)
  <2>1. PICK new : /\ e = [d EXCEPT !.mapping[s.key] = new] \/ e = Deleting([d EXCEPT !.mapping[s.key] = new])
                   /\ IsFiniteSet(DOMAIN m) => IsFiniteSet(DOMAIN new)
    BY <1>7
  <2>2. Kept(d, e, {"mapping", "deleted"}) /\ e.mapping = [d.mapping EXCEPT ![s.key] = new]
        /\ e.deleted \in {d.deleted, d.deleted + 1}
    <3>1. CASE e = [d EXCEPT !.mapping[s.key] = new]
      BY <3>1 DEF Kept, DbParts
    <3>2. CASE e = Deleting([d EXCEPT !.mapping[s.key] = new])
      BY <3>2 DEF Kept, DbParts, Deleting
    <3> QED BY <2>1, <3>1, <3>2
  <2>3. \A k : k # s.key => e.mapping[k] = d.mapping[k]
    BY <2>2
  <2> QED BY <1>5, <2>1, <2>2, <2>3 DEF e
<1> QED BY <1>2, <1>6, <1>7

\* The views deleted are the dataset's, when the id of a view is that of a view of it.
LEMMA ViewEffect ==
  ASSUME NEW d, DOMAIN d = DbParts, d.deleted \in Nat, NEW s, s.do \in ViewStatements
  PROVE  /\ Kept(d, Effect(d, s), {"views", "deleted"})
         /\ \/ Effect(d, s) = d
            \/ /\ s.do = "add view" /\ s.view \notin DOMAIN d.views
               /\ Effect(d, s).views = Put(d.views, s.view, [of |-> s.key, id |-> d.deleted])
               /\ Effect(d, s).deleted = d.deleted
            \/ /\ s.do = "delete view" /\ s.view \in DOMAIN d.views /\ d.views[s.view].id = s.id
               /\ Effect(d, s).views = Without(d.views, {s.view})
               /\ Effect(d, s).deleted = d.deleted + 1
            \/ /\ s.do = "delete views"
               /\ Effect(d, s).views = Without(d.views, viewsOf(d, s.key))
               /\ Effect(d, s).deleted = d.deleted + 1
         /\ s.do = "delete views" => viewsOf(Effect(d, s), s.key) = {}
<1> DEFINE e == Effect(d, s)
<1>1. e = EffectOnViews(d, s)
  BY Dispatch
<1>2. ASSUME e = d PROVE Kept(d, e, {"views", "deleted"})
  BY <1>2 DEF Kept
<1>3. CASE s.do = "add view"
  <2>1. CASE s.view \in DOMAIN d.views
    <3>1. e = d
      BY <1>1, <1>3, <2>1 DEF EffectOnViews
    <3> QED BY <1>2, <1>3, <3>1
  <2>2. CASE s.view \notin DOMAIN d.views
    <3> DEFINE new == [of |-> s.key, id |-> d.deleted]
    <3>1. e = [d EXCEPT !.views = Put(@, s.view, new)]
      BY <1>1, <1>3, <2>2 DEF EffectOnViews
    <3> HIDE DEF e, new
    <3>2. Kept(d, e, {"views", "deleted"}) /\ e.views = Put(d.views, s.view, new) /\ e.deleted = d.deleted
      BY <3>1 DEF Kept, DbParts
    <3> QED BY <1>3, <2>2, <3>2 DEF e, new
  <2> QED BY <2>1, <2>2
<1>4. CASE s.do = "delete view"
  <2>1. CASE s.view \in DOMAIN d.views /\ d.views[s.view].id = s.id
    <3>1. e = Deleting([d EXCEPT !.views = Without(@, {s.view})])
      BY <1>1, <1>4, <2>1 DEF EffectOnViews
    <3> HIDE DEF e
    <3>2. Kept(d, e, {"views", "deleted"}) /\ e.views = Without(d.views, {s.view}) /\ e.deleted = d.deleted + 1
      BY <3>1 DEF Kept, DbParts, Deleting
    <3> QED BY <1>4, <2>1, <3>2 DEF e
  <2>2. CASE ~(s.view \in DOMAIN d.views /\ d.views[s.view].id = s.id)
    <3>1. e = d
      BY <1>1, <1>4, <2>2 DEF EffectOnViews
    <3> QED BY <1>2, <1>4, <3>1
  <2> QED BY <2>1, <2>2
<1>5. CASE s.do = "delete views"
  <2>1. CASE viewsOf(d, s.key) = {}
    <3>1. e = d
      BY <1>1, <1>5, <2>1 DEF EffectOnViews
    <3> QED BY <1>2, <2>1, <3>1
  <2>2. CASE viewsOf(d, s.key) # {}
    <3> DEFINE gone == viewsOf(d, s.key)
    <3>1. e = Deleting([d EXCEPT !.views = Without(@, gone)])
      BY <1>1, <1>5, <2>2 DEF EffectOnViews
    <3> HIDE DEF e, gone
    <3>2. Kept(d, e, {"views", "deleted"}) /\ e.views = Without(d.views, gone) /\ e.deleted = d.deleted + 1
      BY <3>1 DEF Kept, DbParts, Deleting
    <3>3. viewsOf(e, s.key) = {}
      BY <3>2 DEF viewsOf, Without, gone
    <3> QED BY <1>5, <3>2, <3>3 DEF e, gone
  <2> QED BY <2>1, <2>2
<1> QED BY <1>3, <1>4, <1>5 DEF ViewStatements

LEMMA OtherEffect ==
  ASSUME NEW d, DOMAIN d = DbParts, NEW s,
         s.do \notin TableStatements \cup RegistryStatements \cup MappingStatements \cup ViewStatements
  PROVE  /\ Kept(d, Effect(d, s), {"charts", "matviews", "pipes"})
         /\ s.do = "drop matview" => Effect(d, s).matviews = Without(d.matviews, {s.chart})
         /\ s.do # "drop matview" => Effect(d, s).matviews = d.matviews
         /\ s.do = "delete charts" => Effect(d, s).charts = Without(d.charts, s.charts)
         /\ s.do # "delete charts" => Effect(d, s).charts = d.charts
         /\ s.do = "delete pipe" => Effect(d, s).pipes = d.pipes \ {s.key}
         /\ s.do # "delete pipe" => Effect(d, s).pipes = d.pipes
<1> DEFINE e == Effect(d, s)
<1>1. CASE s.do = "drop matview"
  <2>1. e = [d EXCEPT !.matviews = Without(@, {s.chart})]
    BY <1>1, Dispatch
  <2> HIDE DEF e
  <2>2. Kept(d, e, {"matviews"}) /\ e.matviews = Without(d.matviews, {s.chart})
    BY <2>1 DEF Kept, DbParts
  <2> QED BY <1>1, <2>2 DEF Kept, e
<1>2. CASE s.do = "delete charts"
  <2>1. e = [d EXCEPT !.charts = Without(@, s.charts)]
    BY <1>2, Dispatch
  <2> HIDE DEF e
  <2>2. Kept(d, e, {"charts"}) /\ e.charts = Without(d.charts, s.charts)
    BY <2>1 DEF Kept, DbParts
  <2> QED BY <1>2, <2>2 DEF Kept, e
<1>3. CASE s.do = "delete pipe"
  <2>1. e = [d EXCEPT !.pipes = @ \ {s.key}]
    BY <1>3, Dispatch
  <2> HIDE DEF e
  <2>2. Kept(d, e, {"pipes"}) /\ e.pipes = d.pipes \ {s.key}
    BY <2>1 DEF Kept, DbParts
  <2> QED BY <1>3, <2>2 DEF Kept, e
<1>4. CASE s.do \notin {"drop matview", "delete charts", "delete pipe"}
  <2>1. e = d
    BY <1>4, Dispatch
  <2> QED BY <1>4, <2>1 DEF Kept
<1> QED BY <1>1, <1>2, <1>3, <1>4

\* What each class of statement is alone in changing, and what those of a removal do.
Parts(d, s, e) ==
  /\ s.do \notin TableStatements => e.tables = d.tables
  /\ s.do \notin RegistryStatements => e.registry = d.registry
  /\ s.do \notin MappingStatements => e.mapping = d.mapping
  /\ s.do \notin ViewStatements => e.views = d.views
  /\ s.do # "drop matview" => e.matviews = d.matviews
  /\ s.do # "delete charts" => e.charts = d.charts
  /\ s.do # "drop table" => DOMAIN d.tables \subseteq DOMAIN e.tables
  /\ s.do = "drop table" => s.key \notin DOMAIN e.tables
  /\ s.do = "unregister" /\ IsDataset(d, s) => s.key \notin DOMAIN e.registry
  /\ s.do = "unregister" /\ ~IsDataset(d, s) => e.registry = d.registry
  /\ s.do = "unmap" /\ s.key \in DOMAIN d.mapping => e.mapping[s.key] = <<>>
  /\ s.do = "delete views" => viewsOf(e, s.key) = {}
  /\ s.do = "delete pipe" => s.key \notin e.pipes
  /\ s.do = "drop matview" => e.matviews = Without(d.matviews, {s.chart})
  /\ s.do = "delete charts" => e.charts = Without(d.charts, s.charts)

LEMMA EffectParts ==
  ASSUME NEW d, DOMAIN d = DbParts, d.deleted \in Nat, RowsFinite(d), NEW s
  PROVE  Parts(d, s, Effect(d, s))
<1> DEFINE e == Effect(d, s)
<1>1. CASE s.do \in TableStatements
  <2>1. /\ Kept(d, e, {"tables"})
        /\ s.do # "drop table" => DOMAIN d.tables \subseteq DOMAIN e.tables
        /\ s.do = "drop table" => s.key \notin DOMAIN e.tables
    BY <1>1, TableEffect
  <2> HIDE DEF e
  <2>2. Parts(d, s, e)
    BY <1>1, <2>1 DEF Kept, Parts, TableStatements, RegistryStatements, MappingStatements, ViewStatements
  <2> QED BY <2>2 DEF e
<1>2. CASE s.do \in RegistryStatements
  <2>1. /\ Kept(d, e, {"registry", "deleted"})
        /\ s.do = "unregister" /\ IsDataset(d, s) => s.key \notin DOMAIN e.registry
        /\ s.do = "unregister" /\ ~IsDataset(d, s) => e = d
    BY <1>2, RegistryEffect
  <2> HIDE DEF e
  <2>2. Parts(d, s, e)
    BY <1>2, <2>1 DEF Kept, Parts, TableStatements, RegistryStatements, MappingStatements, ViewStatements
  <2> QED BY <2>2 DEF e
<1>3. CASE s.do \in MappingStatements
  <2>1. /\ Kept(d, e, {"mapping", "deleted"})
        /\ s.do = "unmap" /\ s.key \in DOMAIN d.mapping => e.mapping[s.key] = <<>>
    BY <1>3, MappingEffect
  <2> HIDE DEF e
  <2>2. Parts(d, s, e)
    BY <1>3, <2>1 DEF Kept, Parts, TableStatements, RegistryStatements, MappingStatements, ViewStatements
  <2> QED BY <2>2 DEF e
<1>4. CASE s.do \in ViewStatements
  <2>1. /\ Kept(d, e, {"views", "deleted"})
        /\ s.do = "delete views" => viewsOf(e, s.key) = {}
    BY <1>4, ViewEffect
  <2> HIDE DEF e
  <2>2. Parts(d, s, e)
    BY <1>4, <2>1 DEF Kept, Parts, TableStatements, RegistryStatements, MappingStatements, ViewStatements
  <2> QED BY <2>2 DEF e
<1>5. CASE s.do \notin TableStatements \cup RegistryStatements \cup MappingStatements \cup ViewStatements
  <2>1. /\ Kept(d, e, {"charts", "matviews", "pipes"})
        /\ s.do = "drop matview" => e.matviews = Without(d.matviews, {s.chart})
        /\ s.do # "drop matview" => e.matviews = d.matviews
        /\ s.do = "delete charts" => e.charts = Without(d.charts, s.charts)
        /\ s.do # "delete charts" => e.charts = d.charts
        /\ s.do = "delete pipe" => e.pipes = d.pipes \ {s.key}
    BY <1>5, OtherEffect, ZenonT(90)
  <2> HIDE DEF e
  <2>2. Parts(d, s, e)
    BY <1>5, <2>1 DEF Kept, Parts, TableStatements, RegistryStatements, MappingStatements, ViewStatements
  <2> QED BY <2>2 DEF e
<1> QED BY <1>1, <1>2, <1>3, <1>4, <1>5

LEMMA EffectTabled ==
  ASSUME NEW d, DOMAIN d = DbParts, d.deleted \in Nat, RowsFinite(d), Tabled(d), NEW s
  PROVE  Tabled(Effect(d, s))
<1> DEFINE e == Effect(d, s)
           t == d.tables[s.key]
<1>1. CASE s.do \notin TableStatements
  <2>1. e.tables = d.tables
    BY <1>1, EffectParts DEF Parts
  <2> QED BY <2>1 DEF Tabled
<1>2. CASE s.do = "drop table"
  <2>1. e = d \/ e = [d EXCEPT !.tables = Without(@, {s.key})]
    BY <1>2, Dispatch DEF EffectOnTable, TableStatements
  <2> HIDE DEF e
  <2>2. e.tables = d.tables \/ e.tables = Without(d.tables, {s.key})
    BY <2>1 DEF DbParts
  <2> QED BY <2>2 DEF Tabled, Without, e
<1>3. CASE s.do = "create table"
  <2> DEFINE new == [columns |-> s.columns, rows |-> <<>>]
  <2>1. e = [d EXCEPT !.tables = Put(@, s.key, new)]
    BY <1>3, Dispatch DEF EffectOnTable, TableStatements
  <2> HIDE DEF e
  <2>2. DOMAIN new = {"columns", "rows"}
    OBVIOUS
  <2> HIDE DEF new
  <2>3. e.tables = Put(d.tables, s.key, new)
    BY <2>1 DEF DbParts
  <2> QED BY <2>2, <2>3 DEF Tabled, Put, e
<1>4. CASE s.do \in TableStatements \ {"drop table", "create table"}
  <2> DEFINE Shaped(new) == s.key \in DOMAIN d.tables => DOMAIN new = {"columns", "rows"}
  <2>1. \A columns : Shaped(WithColumns(t, columns))
    BY DEF WithColumns
  <2>2. Shaped(Upserted(t, s.rows))
    BY DEF Upserted, Tabled
  <2>3. e = EffectOnTable(d, s)
    BY <1>4, Dispatch
  <2> DEFINE w(columns) == WithColumns(t, columns)
             u == Upserted(t, s.rows)
             putc == Put(t.columns, s.col, s.type)
             outc == Without(t.columns, {s.col})
  <2>4. \/ e = d
        \/ e = [d EXCEPT !.tables[s.key] = w(putc)]
        \/ e = [d EXCEPT !.tables[s.key] = w(outc)]
        \/ e = [d EXCEPT !.tables[s.key] = u]
    BY <1>4, <2>3 DEF EffectOnTable, TableStatements
  <2> HIDE DEF e, u, w
  <2>5. e = d \/ \E new : Shaped(new) /\ e = [d EXCEPT !.tables[s.key] = new]
    BY <2>1, <2>2, <2>4 DEF u, w
  <2>6. e.tables = d.tables \/ \E new : Shaped(new) /\ e.tables = [d.tables EXCEPT ![s.key] = new]
    BY <2>5 DEF DbParts
  <2> QED BY <2>6 DEF Tabled, e
<1> QED BY <1>1, <1>2, <1>3, <1>4

-----------------------------------------------------------------------------
(* An operation that begins.                                                *)

\* An operation another one or a run joins: the same, but that it knows.
Carried(o, p) ==
  IF o = Idle THEN p = Idle
  ELSE /\ p # Idle /\ DOMAIN p = OpParts /\ p.kind # "idle"
       /\ p.kind = o.kind /\ p.key = o.key /\ p.request = o.request /\ p.todo = o.todo
       /\ o.shared => p.shared
       /\ o.synced => p.synced

LEMMA IdleKind == \A o : o.kind # "idle" => o # Idle
BY DEF Idle

LEMMA JoinedCarries ==
  ASSUME Shape, NEW k, NEW by \in {"shared", "synced"}
  PROVE  /\ DOMAIN Joined(k, ops, by) = Admins
         /\ \A b \in Admins : /\ Carried(ops[b], Joined(k, ops, by)[b])
                              /\ ops[b] # Idle /\ ops[b].key = k => Joined(k, ops, by)[b][by]
                              /\ ~(ops[b] # Idle /\ ops[b].key = k) => Joined(k, ops, by)[b] = ops[b]
<1>1. DOMAIN Joined(k, ops, by) = Admins
  BY DEF Joined
<1>2. ASSUME NEW b \in Admins
      PROVE  /\ Carried(ops[b], Joined(k, ops, by)[b])
             /\ ops[b] # Idle /\ ops[b].key = k => Joined(k, ops, by)[b][by]
             /\ ~(ops[b] # Idle /\ ops[b].key = k) => Joined(k, ops, by)[b] = ops[b]
  <2> DEFINE o == ops[b]
             p == Joined(k, ops, by)[b]
  <2>1. p = IF o # Idle /\ o.key = k THEN [o EXCEPT ![by] = TRUE] ELSE o
    BY DEF Joined
  <2>2. o = Idle \/ (DOMAIN o = OpParts /\ o.kind # "idle")
    BY DEF Shape
  <2> HIDE DEF o, p
  <2>3. CASE o # Idle /\ o.key = k
    <3>1. p = [o EXCEPT ![by] = TRUE] /\ DOMAIN o = OpParts /\ o.kind # "idle"
      BY <2>1, <2>2, <2>3
    <3>2. /\ DOMAIN p = OpParts /\ p.kind = o.kind /\ p.key = o.key /\ p.request = o.request
          /\ p.todo = o.todo /\ (o.shared => p.shared) /\ (o.synced => p.synced) /\ p[by]
      BY <3>1 DEF OpParts
    <3> QED BY <2>3, <3>1, <3>2, IdleKind DEF Carried, o, p
  <2>4. CASE ~(o # Idle /\ o.key = k)
    <3>1. p = o
      BY <2>1, <2>4
    <3> QED BY <2>2, <2>4, <3>1 DEF Carried, o, p
  <2> QED BY <2>3, <2>4
<1> QED BY <1>1, <1>2

\* What an operation that begins has to be.
Begun(a, kind, k, request, todo) ==
  /\ Begin(a, kind, k, request, todo) /\ ops[a] = Idle /\ kind # "idle"
  /\ PlanFits(kind, k, todo)
  /\ \A s : Member(s, todo) => OnlyOwn(s)
  /\ kind = "remove" =>
       /\ k \in Keys /\ request = chartsOn(db, placesOf(db, k))
       /\ todo = removePlan(k, db.registry[k].id)

LEMMA NothingOwn ==
  ASSUME NEW kind \in {"create", "update", "import", "view", "mapping"}, NEW k, NEW q, PlanFits(kind, k, q)
  PROVE  \A s : Member(s, q) => OnlyOwn(s)
BY DEF PlanFits, Fits, Duty, OnlyOwn

LEMMA PlaceOfOwn ==
  ASSUME NEW k, NEW on \in placesOf(db, k)
  PROVE  OwnPlace(on, k)
BY DEF placesOf, OwnPlace

LEMMA Requested ==
  ASSUME Shape, Finite, Owned, NEW a \in Admins, Request(a)
  PROVE  \E kind, k, request, todo : Begun(a, kind, k, request, todo)
<1>0. ops[a] = Idle
  BY DEF Request
<1>1. CASE \E c \in Creates : create(a, c)
  <2>1. PICK c \in Creates : create(a, c)
    BY <1>1
  <2>2. Begin(a, "create", c.key, c, createPlan(c))
    BY <2>1 DEF create
  <2>3. PlanFits("create", c.key, createPlan(c))
    BY CreatePlanFits, SubmittedAssumption
  <2>4. Begun(a, "create", c.key, c, createPlan(c))
    BY <1>0, <2>2, <2>3, NothingOwn DEF Begun
  <2> QED BY <2>4
<1>2. CASE \E u \in Updates : update(a, u)
  <2>1. PICK u \in Updates : update(a, u)
    BY <1>2
  <2> DEFINE id == db.registry[u.key].id
             s1 == [do |-> "settings", key |-> u.key, id |-> id, source |-> u.source]
             s2 == [do |-> "read fields", key |-> u.key, id |-> id, request |-> u]
  <2>2. Begin(a, "update", u.key, u, <<s1, s2>>)
    BY <2>1 DEF update
  <2>3. Fits("update", u.key, s1) /\ Fits("update", u.key, s2)
    BY SubmittedAssumption DEF Fits, Duty
  <2> HIDE DEF s1, s2
  <2>4. PlanFits("update", u.key, <<s1, s2>>)
    BY <2>3, TupleIsSeq DEF PlanFits
  <2>5. Begun(a, "update", u.key, u, <<s1, s2>>)
    BY <1>0, <2>2, <2>4, NothingOwn DEF Begun
  <2> QED BY <2>5
<1>3. CASE \E f \in Files : importRows(a, f)
  <2>1. PICK f \in Files : importRows(a, f)
    BY <1>3
  <2> DEFINE fields == fieldsOf(db, f.key)
             request == [file |-> f, fields |-> fields]
             todo == importPlan(f, fields)
  <2>2. Begin(a, "import", f.key, request, todo)
    BY <2>1 DEF importRows
  <2>3. PlanFits("import", f.key, todo)
    <3>1. IsFiniteSet(DOMAIN f.rows)
      BY FilesAreFinite
    <3> QED BY <3>1, ImportPlanFits
  <2> HIDE DEF request, todo
  <2>4. Begun(a, "import", f.key, request, todo)
    BY <1>0, <2>2, <2>3, NothingOwn DEF Begun
  <2> QED BY <2>4
<1>4. CASE \E k \in Keys : remove(a, k)
  <2>1. PICK k \in Keys : remove(a, k)
    BY <1>4
  <2> DEFINE request == chartsOn(db, placesOf(db, k))
             todo == removePlan(k, db.registry[k].id)
  <2>2. Begin(a, "remove", k, request, todo)
    BY <2>1 DEF remove
  <2>3. PlanFits("remove", k, todo)
    BY RemovePlanFits
  <2>4. ASSUME NEW s, Member(s, todo) PROVE OnlyOwn(s)
    BY <2>4, RemovePlanFits, ZenonT(60) DEF RemoveDuty, OnlyOwn
  <2> HIDE DEF request, todo
  <2>5. Begun(a, "remove", k, request, todo)
    BY <1>0, <2>2, <2>3, <2>4 DEF Begun, request, todo
  <2> QED BY <2>5
<1>5. CASE \E k \in Keys : autoMap(a, k)
  <2>1. PICK k \in Keys : autoMap(a, k)
    BY <1>5
  <2> DEFINE set == autoMapped(k)
             todo == MappingPlan(k, set)
  <2>2. Begin(a, "mapping", k, Null, todo)
    BY <2>1 DEF autoMap
  <2>3. IsFiniteSet(DOMAIN set)
    <3>1. DOMAIN set \subseteq DOMAIN db.mapping[k]
      BY DEF autoMapped
    <3> HIDE DEF set
    <3> QED BY <3>1, FS_Subset DEF Finite
  <2> HIDE DEF set
  <2>4. PlanFits("mapping", k, todo)
    BY <2>3, MappingPlanFits
  <2> HIDE DEF todo
  <2>5. Begun(a, "mapping", k, Null, todo)
    BY <1>0, <2>2, <2>4, NothingOwn DEF Begun
  <2> QED BY <2>5
<1>6. CASE \E m \in Mappings : saveMapping(a, m.key, m.set)
  <2>1. PICK m \in Mappings : saveMapping(a, m.key, m.set)
    BY <1>6
  <2> DEFINE todo == MappingPlan(m.key, m.set)
  <2>2. Begin(a, "mapping", m.key, Null, todo)
    BY <2>1 DEF saveMapping
  <2>3. PlanFits("mapping", m.key, todo)
    BY MappingPlanFits, SubmittedAssumption
  <2> HIDE DEF todo
  <2>4. Begun(a, "mapping", m.key, Null, todo)
    BY <1>0, <2>2, <2>3, NothingOwn DEF Begun
  <2> QED BY <2>4
<1>7. CASE \E k \in Keys, name \in Names : createView(a, k, name)
  <2>1. PICK k \in Keys, name \in Names : createView(a, k, name)
    BY <1>7
  <2>2. PICK v : Begin(a, "view", k, Null, <<[do |-> "add view", key |-> k, view |-> v]>>)
    BY <2>1 DEF createView
  <2> DEFINE s1 == [do |-> "add view", key |-> k, view |-> v]
  <2>3. Fits("view", k, s1)
    BY DEF Fits, Duty
  <2> HIDE DEF s1
  <2>4. PlanFits("view", k, <<s1>>)
    BY <2>3, TupleIsSeq DEF PlanFits
  <2>5. Begun(a, "view", k, Null, <<s1>>)
    BY <1>0, <2>2, <2>4, NothingOwn DEF Begun, s1
  <2> QED BY <2>5
<1>8. CASE \E v \in DOMAIN db.views : deleteView(a, v)
  <2>1. PICK v \in DOMAIN db.views : deleteView(a, v)
    BY <1>8
  <2> DEFINE k == db.views[v].of
             s1 == [do |-> "find charts", key |-> k, places |-> {<<"view", v>>}]
             s2 == [do |-> "delete view", key |-> k, view |-> v, id |-> db.views[v].id]
  <2>2. Begin(a, "unview", k, Null, <<s1, s2>>)
    BY <2>1 DEF deleteView
  <2>3. Fits("unview", k, s1) /\ Fits("unview", k, s2)
    BY DEF Fits, Duty
  <2>4. OnlyOwn(s1)
    BY DEF OnlyOwn, OwnPlace, viewsOf
  <2>5. OnlyOwn(s2)
    <3>1. db.views[v].id \in Nat /\ db.views[v].id <= db.deleted
      BY DEF Owned
    <3> QED BY <3>1 DEF OnlyOwn
  <2> HIDE DEF s1, s2, k
  <2>6. PlanFits("unview", k, <<s1, s2>>)
    BY <2>3, TupleIsSeq DEF PlanFits
  <2>7. Begun(a, "unview", k, Null, <<s1, s2>>)
    BY <1>0, <2>2, <2>4, <2>5, <2>6, TupleIsSeq DEF Begun
  <2> QED BY <2>7
<1> QED BY <1>1, <1>2, <1>3, <1>4, <1>5, <1>6, <1>7, <1>8 DEF Request

LEMMA BegunOps ==
  ASSUME Shape, NEW a \in Admins, NEW kind, NEW k, NEW request, NEW todo,
         Begun(a, kind, k, request, todo)
  PROVE  /\ DOMAIN ops' = Admins
         /\ \A b \in Admins \ {a} : /\ Carried(ops[b], ops'[b])
                                    /\ ops[b] # Idle /\ ops[b].key = k => ops'[b].shared
         /\ ops'[a] # Idle /\ DOMAIN ops'[a] = OpParts
         /\ ops'[a].kind = kind /\ ops'[a].key = k /\ ops'[a].request = request /\ ops'[a].todo = todo
         /\ ops'[a].shared = Shared(k) /\ ops'[a].synced = (k \in syncing)
<1> DEFINE j == Joined(k, ops, "shared")
           new == [kind |-> kind, key |-> k, request |-> request, todo |-> todo,
                   shared |-> Shared(k), synced |-> k \in syncing]
<1>1. ops' = [j EXCEPT ![a] = new]
  BY DEF Begun, Begin
<1>2. /\ DOMAIN new = OpParts /\ new.kind = kind /\ new.key = k /\ new.request = request
      /\ new.todo = todo /\ new.shared = Shared(k) /\ new.synced = (k \in syncing)
  BY DEF OpParts
<1>3. DOMAIN j = Admins /\ \A b \in Admins : /\ Carried(ops[b], j[b])
                                             /\ ops[b] # Idle /\ ops[b].key = k => j[b].shared
  BY JoinedCarries
<1>4. new # Idle
  BY <1>2, IdleKind DEF Begun
<1> HIDE DEF j, new
<1>5. DOMAIN ops' = Admins /\ ops'[a] = new /\ \A b \in Admins \ {a} : ops'[b] = j[b]
  BY <1>1, <1>3
<1> QED BY <1>2, <1>3, <1>4, <1>5

LEMMA CarriedFacts ==
  ASSUME NEW o, NEW p, Carried(o, p)
  PROVE  /\ p = Idle <=> o = Idle
         /\ o # Idle => /\ DOMAIN p = OpParts /\ p.kind # "idle" /\ p.kind = o.kind /\ p.key = o.key
                        /\ p.request = o.request /\ p.todo = o.todo
                        /\ o.shared => p.shared
                        /\ o.synced => p.synced
BY DEF Carried

\* The database as it was, for what depends on it alone.
Untouched == db' = db /\ hist'.born = hist.born /\ hist'.freed = hist.freed

LEMMA UntouchedOwn ==
  ASSUME Untouched
  PROVE  /\ \A s : OnlyOwn(s) => OnlyOwn(s)'
         /\ \A c, k : OwnChart(c, k) => OwnChart(c, k)'
         /\ \A on : Placed(on) => Placed(on)'
         /\ \A o, p : Remainder(o) /\ p.key = o.key /\ p.request = o.request /\ p.todo = o.todo => Remainder(p)'
<1>1. \A on, k : OwnPlace(on, k) => OwnPlace(on, k)'
  BY DEF Untouched, OwnPlace
<1>2. \A c, k : OwnChart(c, k) => OwnChart(c, k)'
  BY <1>1 DEF Untouched, OwnChart
<1>3. ASSUME NEW s, OnlyOwn(s) PROVE OnlyOwn(s)'
  BY <1>1, <1>2, <1>3 DEF Untouched, OnlyOwn
<1>4. \A on : Placed(on) => Placed(on)'
  BY DEF Untouched, Placed
<1>5. ASSUME NEW o, NEW p, Remainder(o), p.key = o.key, p.request = o.request, p.todo = o.todo
      PROVE  Remainder(p)'
  <2>1. Remainder(p)
    BY <1>5 DEF Remainder, Awaits
  <2>2. \A s, c : Reaches(s, c) => Reaches(s, c)'
    BY DEF Untouched, Reaches
  <2>3. \A do : Awaits(p, do) <=> Awaits(p, do)'
    BY DEF Awaits
  <2> QED BY <2>1, <2>2, <2>3 DEF Untouched, Remainder
<1> QED BY <1>2, <1>3, <1>4, <1>5

LEMMA BegunInv ==
  ASSUME AdminInv, NEW a \in Admins, NEW kind, NEW k, NEW request, NEW todo,
         Begun(a, kind, k, request, todo)
  PROVE  AdminInv'
<1>0. /\ UNCHANGED <<db, syncing, catalog, reader, failed, hist>> /\ ops[a] = Idle
      /\ kind # "idle" /\ PlanFits(kind, k, todo)
  BY DEF Begun, Begin
<1>1. /\ DOMAIN ops' = Admins
      /\ \A b \in Admins \ {a} : /\ Carried(ops[b], ops'[b])
                                 /\ ops[b] # Idle /\ ops[b].key = k => ops'[b].shared
      /\ ops'[a] # Idle /\ DOMAIN ops'[a] = OpParts
      /\ ops'[a].kind = kind /\ ops'[a].key = k /\ ops'[a].request = request /\ ops'[a].todo = todo
      /\ ops'[a].shared = Shared(k) /\ ops'[a].synced = (k \in syncing)
  BY BegunOps DEF AdminInv
<1>2. Untouched
  BY <1>0 DEF Untouched
<1>3. Shape'
  <2>1. ASSUME NEW b \in Admins PROVE ops'[b] = Idle \/ (DOMAIN ops'[b] = OpParts /\ ops'[b].kind # "idle")
    <3>1. CASE b = a
      BY <1>0, <1>1, <3>1
    <3>2. CASE b # a
      BY <1>1, <3>2, CarriedFacts
    <3> QED BY <3>1, <3>2
  <2> QED BY <1>0, <1>1, <2>1 DEF AdminInv, Shape
<1>4. Finite'
  BY <1>0 DEF AdminInv, Finite, RowsFinite
<1>5. Planned'
  <2>1. ASSUME NEW b \in Admins, ops'[b] # Idle
        PROVE  IsSeq(ops'[b].todo) /\ \A s : Member(s, ops'[b].todo) => Fits(ops'[b].kind, ops'[b].key, s)
    <3>1. CASE b = a
      BY <1>0, <1>1, <3>1 DEF PlanFits
    <3>2. CASE b # a
      BY <1>1, <2>1, <3>2, CarriedFacts DEF AdminInv, Planned
    <3> QED BY <3>1, <3>2
  <2> QED BY <2>1 DEF Planned
<1>6. Cached'
  <2>1. ASSUME NEW j, Clearing(j) PROVE Clearing(j)'
    <3>1. PICK b \in Admins : ops[b] # Idle /\ ops[b].key = j /\ ops[b].kind \in clearing
      BY <2>1 DEF Clearing
    <3>2. ops'[b] # Idle /\ ops'[b].key = j /\ ops'[b].kind \in clearing
      BY <1>0, <1>1, <3>1, CarriedFacts
    <3> QED BY <3>2 DEF Clearing
  <2>2. \A j, fields, late : Agrees(j, fields, late) => Agrees(j, fields, late)'
    BY <1>0, <2>1 DEF Agrees
  <2> QED BY <1>0, <2>2 DEF AdminInv, Cached
<1>7. Owned'
  <2>1. ASSUME NEW b \in Admins, ops'[b] # Idle, NEW s, Member(s, ops'[b].todo)
        PROVE  OnlyOwn(s)'
    <3>1. CASE b = a
      BY <1>1, <1>2, <2>1, <3>1, UntouchedOwn DEF Begun
    <3>2. CASE b # a
      BY <1>1, <1>2, <2>1, <3>2, CarriedFacts, UntouchedOwn DEF AdminInv, Owned
    <3> QED BY <3>1, <3>2
  <2>2. ASSUME NEW c \in DOMAIN db'.matviews
        PROVE  OwnChart(c, db.matviews[c].key)' /\ db'.matviews[c].key \in DOMAIN db'.tables
    BY <1>0, <1>2, UntouchedOwn DEF AdminInv, Owned
  <2>3. ASSUME NEW c \in DOMAIN db'.charts PROVE Placed(db.charts[c].on)'
    BY <1>0, <1>2, UntouchedOwn DEF AdminInv, Owned
  <2>4. \A v \in DOMAIN db'.views : db'.views[v].id \in Nat /\ db'.views[v].id <= db'.deleted
    BY <1>0 DEF AdminInv, Owned
  <2> QED BY <2>1, <2>2, <2>3, <2>4 DEF Owned
<1>8. Noticed'
  <2>1. ASSUME NEW b \in Admins, NEW c \in Admins, b # c, ops'[b] # Idle, ops'[c] # Idle,
               ops'[b].key = ops'[c].key
        PROVE  ops'[b].shared
    <3>1. CASE b = a
      <4>1. ops[c] # Idle /\ ops[c].key = k
        BY <1>1, <2>1, <3>1, CarriedFacts
      <4>2. Shared(k)
        BY <4>1 DEF Shared
      <4> QED BY <1>1, <3>1, <4>2
    <3>2. CASE b # a /\ c = a
      BY <1>1, <2>1, <3>2, CarriedFacts
    <3>3. CASE b # a /\ c # a
      BY <1>1, <2>1, <3>3, CarriedFacts DEF AdminInv, Noticed
    <3> QED BY <3>1, <3>2, <3>3
  <2>2. ASSUME NEW b \in Admins, ops'[b] # Idle, ~ops'[b].synced
        PROVE  ops'[b].key \notin syncing'
    <3>1. CASE b = a
      BY <1>0, <1>1, <2>2, <3>1
    <3>2. CASE b # a
      BY <1>0, <1>1, <2>2, <3>2, CarriedFacts DEF AdminInv, Noticed
    <3> QED BY <3>1, <3>2
  <2> QED BY <2>1, <2>2 DEF Noticed
<1>9. Removals'
  <2>1. ASSUME NEW b \in Admins, ops'[b] # Idle, ops'[b].kind = "remove", ~ops'[b].shared, ~ops'[b].synced
        PROVE  Remainder(ops[b])'
    <3>1. CASE b # a
      <4>1. ops[b] # Idle /\ ops[b].kind = "remove" /\ Alone(b)
        BY <1>1, <2>1, <3>1, CarriedFacts DEF Alone
      <4>2. Remainder(ops[b])
        BY <4>1 DEF AdminInv, Removals
      <4>3. ops'[b].key = ops[b].key /\ ops'[b].request = ops[b].request /\ ops'[b].todo = ops[b].todo
        BY <1>1, <3>1, <4>1, CarriedFacts
      <4> QED BY <1>2, <4>2, <4>3, UntouchedOwn
    <3>2. CASE b = a
      <4>1. kind = "remove" /\ k \in Keys /\ request = chartsOn(db, placesOf(db, k))
            /\ todo = removePlan(k, db.registry[k].id)
        BY <1>1, <2>1, <3>2 DEF Begun
      <4>2. /\ \A do \in RemoveDuty : \E s : Member(s, todo) /\ s.do = do /\ s.id = db.registry[k].id
            /\ ViewsBeforeDeleted(todo)
        BY <4>1, RemovePlanFits
      <4>3. \A do \in RemoveDuty : Awaits(ops'[a], do)
        BY <1>1, <4>2 DEF Awaits
      <4>4. \E s : Member(s, todo) /\ s.do = "find views" /\ s.key = k
        BY <1>0, <4>2 DEF RemoveDuty, PlanFits, Fits
      <4>5. \A c \in request : \E s : Member(s, todo) /\ Reaches(s, c)
        BY <4>1, <4>4 DEF Reaches, chartsOn
      <4>6. request \subseteq hist.born
        BY <4>1 DEF AdminInv, Finite, chartsOn
      <4>7. \E s : Member(s, todo) /\ s.do = "unregister" /\ s.id = db.registry[k].id
        BY <4>2 DEF RemoveDuty
      <4>8. Remainder(ops'[a])
        BY <1>1, <4>1, <4>2, <4>3, <4>5, <4>6, <4>7, ZenonT(60) DEF Remainder, RemoveDuty
      <4> QED BY <1>2, <3>2, <4>8, UntouchedOwn
    <3> QED BY <3>1, <3>2
  <2> QED BY <2>1 DEF Removals, Alone
<1> QED BY <1>3, <1>4, <1>5, <1>6, <1>7, <1>8, <1>9 DEF AdminInv

-----------------------------------------------------------------------------
(* A statement.                                                             *)

\* What one leaves alone, and which views come and go.
Frame(d, e, k) ==
  /\ DOMAIN e = DbParts /\ e.deleted \in {d.deleted, d.deleted + 1} /\ DOMAIN e.mapping = DOMAIN d.mapping
  /\ \A j : j # k => /\ SameAt(e.tables, d.tables, j) /\ SameAt(e.registry, d.registry, j)
                     /\ e.mapping[j] = d.mapping[j]
  /\ \A v \in DOMAIN d.views \cap DOMAIN e.views : e.views[v] = d.views[v]
  /\ \A v \in DOMAIN e.views \ DOMAIN d.views :
       e.views[v] = [of |-> k, id |-> d.deleted] /\ e.deleted = d.deleted
  /\ \A v \in DOMAIN d.views \ DOMAIN e.views : d.views[v].of = k /\ e.deleted = d.deleted + 1
  /\ DOMAIN e.charts \subseteq DOMAIN d.charts /\ \A c \in DOMAIN e.charts : e.charts[c] = d.charts[c]
  /\ DOMAIN e.matviews \subseteq DOMAIN d.matviews
  /\ \A c \in DOMAIN e.matviews : e.matviews[c] = d.matviews[c]
  /\ e.pipes \subseteq d.pipes

LEMMA EffectFrame ==
  ASSUME NEW s, Shape, Finite, OnlyOwn(s)
  PROVE  Frame(db, Effect(db, s), s.key) /\ RowsFinite(Effect(db, s))
         /\ \A k \in Keys : IsFiniteSet(DOMAIN Effect(db, s).mapping[k])
<1> DEFINE e == Effect(db, s)
<1>0. DOMAIN db = DbParts /\ db.deleted \in Nat /\ RowsFinite(db) /\ DOMAIN db.mapping = Keys
      /\ \A k \in Keys : IsFiniteSet(DOMAIN db.mapping[k])
  BY DEF Shape, Finite
<1>1. CASE s.do \in TableStatements
  <2>1. Kept(db, e, {"tables"}) /\ \A k : k # s.key => SameAt(e.tables, db.tables, k)
    BY <1>0, <1>1, TableEffect
  <2> HIDE DEF e
  <2> QED BY <1>0, <2>1 DEF Kept, Frame, SameAt, RowsFinite, e
<1>2. CASE s.do \in RegistryStatements
  <2>1. /\ Kept(db, e, {"registry", "deleted"}) /\ \A k : k # s.key => SameAt(e.registry, db.registry, k)
        /\ e.deleted \in {db.deleted, db.deleted + 1} /\ RowsFinite(e)
    BY <1>0, <1>2, RegistryEffect
  <2> HIDE DEF e
  <2> QED BY <1>0, <2>1 DEF Kept, Frame, SameAt, e
<1>3. CASE s.do \in MappingStatements
  <2>1. /\ Kept(db, e, {"mapping", "deleted"}) /\ \A k : k # s.key => e.mapping[k] = db.mapping[k]
        /\ e.deleted \in {db.deleted, db.deleted + 1} /\ DOMAIN e.mapping = Keys
        /\ s.key \in Keys => IsFiniteSet(DOMAIN e.mapping[s.key])
    BY <1>0, <1>3, MappingEffect
  <2> HIDE DEF e
  <2>2. \A k \in Keys : IsFiniteSet(DOMAIN e.mapping[k])
    BY <1>0, <2>1
  <2> QED BY <1>0, <2>1, <2>2 DEF Kept, Frame, SameAt, RowsFinite, e
<1>4. CASE s.do \in ViewStatements
  <2>1. /\ Kept(db, e, {"views", "deleted"})
        /\ \/ e = db
           \/ /\ s.do = "add view" /\ s.view \notin DOMAIN db.views
              /\ e.views = Put(db.views, s.view, [of |-> s.key, id |-> db.deleted])
              /\ e.deleted = db.deleted
           \/ /\ s.do = "delete view" /\ s.view \in DOMAIN db.views /\ db.views[s.view].id = s.id
              /\ e.views = Without(db.views, {s.view})
              /\ e.deleted = db.deleted + 1
           \/ /\ s.do = "delete views"
              /\ e.views = Without(db.views, viewsOf(db, s.key))
              /\ e.deleted = db.deleted + 1
    BY <1>0, <1>4, ViewEffect
  <2> HIDE DEF e
  <2>2. /\ \A v \in DOMAIN db.views \cap DOMAIN e.views : e.views[v] = db.views[v]
        /\ \A v \in DOMAIN e.views \ DOMAIN db.views :
             e.views[v] = [of |-> s.key, id |-> db.deleted] /\ e.deleted = db.deleted
        /\ \A v \in DOMAIN db.views \ DOMAIN e.views :
             db.views[v].of = s.key /\ e.deleted = db.deleted + 1
        /\ e.deleted \in {db.deleted, db.deleted + 1}
    <3>1. CASE e = db
      BY <3>1
    <3>2. CASE /\ s.do = "add view" /\ s.view \notin DOMAIN db.views
               /\ e.views = Put(db.views, s.view, [of |-> s.key, id |-> db.deleted])
               /\ e.deleted = db.deleted
      BY <3>2 DEF Put
    <3>3. CASE /\ s.do = "delete view" /\ s.view \in DOMAIN db.views /\ db.views[s.view].id = s.id
               /\ e.views = Without(db.views, {s.view})
               /\ e.deleted = db.deleted + 1
      BY <3>3 DEF Without, OnlyOwn
    <3>4. CASE /\ s.do = "delete views"
               /\ e.views = Without(db.views, viewsOf(db, s.key))
               /\ e.deleted = db.deleted + 1
      BY <3>4 DEF Without, viewsOf
    <3> QED BY <2>1, <3>1, <3>2, <3>3, <3>4
  <2>3. RowsFinite(e)
    BY <1>0, <2>1 DEF Kept, RowsFinite
  <2> QED BY <1>0, <2>1, <2>2, <2>3 DEF Kept, Frame, SameAt, e
<1>5. CASE s.do \notin TableStatements \cup RegistryStatements \cup MappingStatements \cup ViewStatements
  <2>1. /\ Kept(db, e, {"charts", "matviews", "pipes"})
        /\ s.do = "drop matview" => e.matviews = Without(db.matviews, {s.chart})
        /\ s.do # "drop matview" => e.matviews = db.matviews
        /\ s.do = "delete charts" => e.charts = Without(db.charts, s.charts)
        /\ s.do # "delete charts" => e.charts = db.charts
        /\ s.do = "delete pipe" => e.pipes = db.pipes \ {s.key}
        /\ s.do # "delete pipe" => e.pipes = db.pipes
    BY <1>0, <1>5, OtherEffect
  <2> HIDE DEF e
  <2>2. DOMAIN e.charts \subseteq DOMAIN db.charts /\ \A c \in DOMAIN e.charts : e.charts[c] = db.charts[c]
    BY <2>1 DEF Without
  <2>3. DOMAIN e.matviews \subseteq DOMAIN db.matviews
        /\ \A c \in DOMAIN e.matviews : e.matviews[c] = db.matviews[c]
    BY <2>1 DEF Without
  <2>4. e.pipes \subseteq db.pipes
    BY <2>1
  <2> QED BY <1>0, <2>1, <2>2, <2>3, <2>4 DEF Kept, Frame, SameAt, RowsFinite, e
<1> QED BY <1>1, <1>2, <1>3, <1>4, <1>5

LEMMA FoundOwn ==
  ASSUME Finite, Owned, NEW kind, NEW s, Fits(kind, s.key, s), OnlyOwn(s)
  PROVE  \A x : Member(x, Found(db, s)) => OnlyOwn(x)
<1>0. /\ PlanFits(kind, s.key, Found(db, s))
      /\ IsFiniteSet(DOMAIN db.charts) /\ IsFiniteSet(DOMAIN db.matviews)
  <2>1. IsFiniteSet(DOMAIN db.charts) /\ IsFiniteSet(DOMAIN db.matviews)
    BY FS_Subset DEF Finite
  <2>2. s.key \in DOMAIN db.registry => IsFiniteSet(DOMAIN db.registry[s.key].fields)
    BY DEF Finite, RowsFinite
  <2> QED BY <2>1, <2>2, FoundFits
<1>1. CASE kind \in {"create", "update", "import", "view", "mapping"}
  BY <1>0, <1>1, NothingOwn
<1>2. CASE s.do = "find matviews"
  <2>1. Found(db, s) = DropMatviews(s.key, dependents(db, s.key)) /\ kind = "remove"
    BY <1>2 DEF Found, Each, DropMatviews, Fits, Duty
  <2>2. IsFiniteSet(dependents(db, s.key))
    BY <1>0, FS_Subset DEF dependents
  <2>3. \A x : Member(x, Found(db, s)) => x.do = "drop matview" /\ x.chart \in dependents(db, s.key)
    BY <2>1, <2>2, DropMatviewFits
  <2>4. \A x : Member(x, Found(db, s)) => x.key = s.key
    BY <1>0 DEF PlanFits, Fits
  <2>5. \A c \in dependents(db, s.key) : c \in hist.born /\ OwnChart(c, s.key)
    BY DEF dependents, Owned, Finite
  <2> QED BY <2>3, <2>4, <2>5 DEF OnlyOwn
<1>3. CASE s.do = "find views"
  <2> DEFINE x == [do |-> "find charts", key |-> s.key, places |-> placesOf(db, s.key)]
  <2>1. Found(db, s) = <<x>>
    BY <1>3 DEF Found
  <2>2. OnlyOwn(x)
    BY PlaceOfOwn DEF OnlyOwn
  <2> HIDE DEF x
  <2> QED BY <2>1, <2>2, TupleIsSeq
<1>4. CASE s.do = "find charts"
  <2> DEFINE cs == chartsOn(db, s.places)
  <2>1. Found(db, s) = deleteCharts(s.key, cs) /\ kind \in {"remove", "unview"}
    BY <1>4 DEF Found, Fits, Duty
  <2>2. IsFiniteSet(cs) /\ cs \subseteq hist.born /\ \A c \in cs : OwnChart(c, s.key)
    <3>1. cs \subseteq DOMAIN db.charts
      BY DEF chartsOn
    <3>2. \A c \in cs : OwnChart(c, s.key)
      BY <1>4 DEF chartsOn, OnlyOwn, OwnChart
    <3> QED BY <1>0, <3>1, <3>2, FS_Subset DEF Finite
  <2> HIDE DEF cs
  <2>3. \A x : Member(x, deleteCharts(s.key, cs)) =>
          \/ x.do = "drop matview" /\ x.chart \in cs
          \/ x.do = "delete charts" /\ x.charts = cs
    BY <2>1, <2>2, DeleteChartsFits
  <2>4. \A x : Member(x, Found(db, s)) => x.key = s.key
    BY <1>0 DEF PlanFits, Fits
  <2> QED BY <2>1, <2>2, <2>3, <2>4 DEF OnlyOwn
<1>5. CASE /\ kind \notin {"create", "update", "import", "view", "mapping"}
           /\ s.do \notin {"find matviews", "find views", "find charts"}
  <2>1. Found(db, s) = <<>>
    BY <1>5 DEF Found, Fits, Duty
  <2> QED BY <2>1, TupleIsSeq
<1> QED BY <1>1, <1>2, <1>3, <1>4, <1>5

LEMMA FrameOwn ==
  ASSUME NEW k, Frame(db, db', k), db.deleted \in Nat, hist'.born = hist.born,
         hist'.freed = hist.freed \cup (DOMAIN db.views \ DOMAIN db'.views), Owned
  PROVE  /\ \A s : OnlyOwn(s) => OnlyOwn(s)'
         /\ \A c, j : OwnChart(c, j) => OwnChart(c, j)'
         /\ \A on : Placed(on) => Placed(on)'
<1>1. ASSUME NEW on, NEW j, OwnPlace(on, j) PROVE OwnPlace(on, j)'
  <2>1. \A v \in viewsOf(db, j) : v \in viewsOf(db', j) \/ v \in hist'.freed
    BY DEF Frame, viewsOf
  <2>2. on = <<"dataset", j>> \/ \E v \in hist.freed \cup viewsOf(db, j) : on = <<"view", v>>
    BY <1>1 DEF OwnPlace
  <2>3. on = <<"dataset", j>> \/ \E v \in hist'.freed \cup viewsOf(db', j) : on = <<"view", v>>
    BY <2>1, <2>2
  <2> QED BY <2>3 DEF OwnPlace
<1>2. \A c, j : OwnChart(c, j) => OwnChart(c, j)'
  BY <1>1 DEF Frame, OwnChart
<1>3. \A on : Placed(on) => Placed(on)'
  <2>1. hist.freed \cup DOMAIN db.views \subseteq hist'.freed \cup DOMAIN db'.views
    OBVIOUS
  <2> QED BY <2>1 DEF Placed
<1>4. ASSUME NEW s, OnlyOwn(s), s.do = "delete view"
      PROVE  /\ s.id \in Nat /\ s.id <= db'.deleted
             /\ s.view \in DOMAIN db'.views /\ db'.views[s.view].id = s.id =>
                  db'.views[s.view].of = s.key
             /\ s.view \notin DOMAIN db'.views => s.id < db'.deleted
  <2>1. /\ s.id \in Nat /\ s.id <= db.deleted
        /\ s.view \in DOMAIN db.views /\ db.views[s.view].id = s.id =>
             db.views[s.view].of = s.key
        /\ s.view \notin DOMAIN db.views => s.id < db.deleted
    BY <1>4 DEF OnlyOwn
  <2>2. db'.deleted \in Nat /\ db.deleted <= db'.deleted
    BY DEF Frame
  <2>3. CASE s.view \in DOMAIN db.views /\ s.view \in DOMAIN db'.views
    BY <2>1, <2>2, <2>3 DEF Frame
  <2>4. CASE s.view \in DOMAIN db.views /\ s.view \notin DOMAIN db'.views
    <3>1. db'.deleted = db.deleted + 1
      BY <2>4 DEF Frame
    <3> QED BY <2>1, <2>2, <2>4, <3>1
  <2>5. CASE s.view \notin DOMAIN db.views /\ s.view \in DOMAIN db'.views
    <3>1. db'.views[s.view].id = db.deleted
      BY <2>5 DEF Frame
    <3> QED BY <2>1, <2>2, <2>5, <3>1
  <2>6. CASE s.view \notin DOMAIN db.views /\ s.view \notin DOMAIN db'.views
    BY <2>1, <2>2, <2>6
  <2> QED BY <2>3, <2>4, <2>5, <2>6
<1>5. ASSUME NEW s, OnlyOwn(s) PROVE OnlyOwn(s)'
  <2>1. s.do = "find charts" => \A on \in s.places : OwnPlace(on, s.key)'
    BY <1>1, <1>5 DEF OnlyOwn
  <2>2. s.do = "drop matview" => s.chart \in hist'.born /\ OwnChart(s.chart, s.key)'
    BY <1>2, <1>5 DEF OnlyOwn
  <2>3. s.do = "delete charts" => s.charts \subseteq hist'.born /\ \A c \in s.charts : OwnChart(c, s.key)'
    BY <1>2, <1>5 DEF OnlyOwn
  <2>4. s.do = "delete view" =>
             /\ s.id \in Nat /\ s.id <= db'.deleted
             /\ s.view \in DOMAIN db'.views /\ db'.views[s.view].id = s.id =>
                  db'.views[s.view].of = s.key
             /\ s.view \notin DOMAIN db'.views => s.id < db'.deleted
    BY <1>4, <1>5, ZenonT(60)
  <2> QED BY <2>1, <2>2, <2>3, <2>4 DEF OnlyOwn
<1> QED BY <1>2, <1>3, <1>5

\* What a statement s of the operation op of a is, and what is left of the operation.
Stepped(a, op, s) ==
  /\ op # Idle /\ op.kind # "idle" /\ Fits(op.kind, op.key, s) /\ OnlyOwn(s) /\ Works(db, s)
  /\ s.key = op.key /\ Parts(db, s, db')
  /\ db' = Effect(db, s) /\ Frame(db, db', op.key) /\ RowsFinite(db')
  /\ \A k \in Keys : IsFiniteSet(DOMAIN db'.mapping[k])
  /\ DOMAIN hist' = HistParts /\ hist'.born = hist.born /\ hist'.stale = hist.stale
  /\ hist'.freed = hist.freed \cup (DOMAIN db.views \ DOMAIN db'.views)
  /\ UNCHANGED <<syncing, catalog, reader, begun, failed>>
  /\ DOMAIN ops' = Admins /\ \A b \in Admins \ {a} : ops'[b] = ops[b]
  /\ ops'[a] # Idle /\ DOMAIN ops'[a] = OpParts /\ ops'[a].kind = op.kind /\ ops'[a].key = op.key
  /\ ops'[a].request = op.request /\ ops'[a].shared = op.shared /\ ops'[a].synced = op.synced
  /\ ops'[a].todo = Found(db, s) \o Tail(op.todo)

LEMMA StatementFacts ==
  ASSUME AdminInv, NEW a \in Admins, Statement(a), NEW op, op = ops[a], NEW s, s = Head(op.todo)
  PROVE  Stepped(a, op, s)
<1>1. op # Idle /\ op.todo # <<>> /\ Works(db, s) /\ db' = Effect(db, s)
      /\ UNCHANGED <<syncing, catalog, reader, begun, failed>>
      /\ hist' = [hist EXCEPT !.freed = @ \cup (DOMAIN db.views \ DOMAIN db'.views)]
      /\ ops' = [ops EXCEPT ![a].todo = Found(db, s) \o Tail(op.todo)]
  BY DEF Statement
<1>2. DOMAIN op = OpParts /\ op.kind # "idle" /\ DOMAIN ops = Admins /\ DOMAIN hist = HistParts
  BY <1>1 DEF AdminInv, Shape
<1>3. IsSeq(op.todo) /\ \A x : Member(x, op.todo) => Fits(op.kind, op.key, x) /\ OnlyOwn(x)
  BY <1>1 DEF AdminInv, Planned, Owned
<1>4. Fits(op.kind, op.key, s) /\ OnlyOwn(s)
  BY <1>1, <1>3, NextPlan
<1>5. s.key = op.key
  BY <1>4 DEF Fits
<1>6. Frame(db, db', op.key) /\ RowsFinite(db') /\ \A k \in Keys : IsFiniteSet(DOMAIN db'.mapping[k])
  <2>1. Frame(db, Effect(db, s), s.key) /\ RowsFinite(Effect(db, s))
        /\ \A k \in Keys : IsFiniteSet(DOMAIN Effect(db, s).mapping[k])
    BY <1>1, <1>4, EffectFrame DEF AdminInv
  <2> QED BY <1>1, <1>5, <2>1
<1>7. DOMAIN hist' = HistParts /\ hist'.born = hist.born /\ hist'.stale = hist.stale
      /\ hist'.freed = hist.freed \cup (DOMAIN db.views \ DOMAIN db'.views)
  BY <1>1, <1>2 DEF HistParts
<1>8. DOMAIN ops' = Admins /\ \A b \in Admins \ {a} : ops'[b] = ops[b]
  BY <1>1, <1>2
<1>9. ops'[a] = [op EXCEPT !.todo = Found(db, s) \o Tail(op.todo)]
  BY <1>1, <1>2
<1>10. DOMAIN ops'[a] = OpParts /\ ops'[a].kind = op.kind /\ ops'[a].key = op.key
       /\ ops'[a].request = op.request /\ ops'[a].shared = op.shared /\ ops'[a].synced = op.synced
       /\ ops'[a].todo = Found(db, s) \o Tail(op.todo)
  BY <1>2, <1>9 DEF OpParts
<1>11. ops'[a] # Idle
  BY <1>2, <1>10, IdleKind
<1>12. Parts(db, s, db')
  <2>1. DOMAIN db = DbParts /\ db.deleted \in Nat /\ RowsFinite(db)
    BY DEF AdminInv, Shape, Finite
  <2>2. Parts(db, s, Effect(db, s))
    BY <1>1, <2>1, EffectParts, Zenon
  <2> QED BY <1>1, <2>2
<1> QED BY <1>1, <1>2, <1>4, <1>5, <1>6, <1>7, <1>8, <1>10, <1>11, <1>12 DEF Stepped

\* What there is to do after it: what it found, and what there was but for itself.
Continues(op, s, new) ==
  /\ IsSeq(new) /\ Member(s, op.todo) /\ PlanFits(op.kind, op.key, Found(db, s))
  /\ \A x : Member(x, new) => Member(x, Found(db, s)) \/ Member(x, op.todo)
  /\ \A x : Member(x, op.todo) => x = s \/ Member(x, new)
  /\ \A x : Member(x, Found(db, s)) => Member(x, new)

LEMMA StatementTodo ==
  ASSUME AdminInv, NEW a \in Admins, Statement(a), NEW op, op = ops[a], NEW s, s = Head(op.todo),
         NEW new, new = Found(db, s) \o Tail(op.todo)
  PROVE  Continues(op, s, new)
<1>1. op # Idle /\ op.todo # <<>> /\ IsSeq(op.todo)
  BY DEF Statement, AdminInv, Planned
<1>2. Fits(op.kind, op.key, s) /\ s.key = op.key
  <2>1. Fits(op.kind, op.key, s)
    BY <1>1, NextPlan DEF AdminInv, Planned
  <2> QED BY <2>1 DEF Fits
<1>3. PlanFits(op.kind, op.key, Found(db, s))
  <2>1. IsFiniteSet(DOMAIN db.charts) /\ IsFiniteSet(DOMAIN db.matviews)
    BY FS_Subset DEF AdminInv, Finite
  <2>2. op.key \in DOMAIN db.registry => IsFiniteSet(DOMAIN db.registry[op.key].fields)
    BY DEF AdminInv, Finite, RowsFinite
  <2> QED BY <1>2, <2>1, <2>2, FoundFits
<1>4. /\ Member(s, op.todo) /\ IsSeq(Tail(op.todo))
      /\ \A x : Member(x, Tail(op.todo)) => Member(x, op.todo)
      /\ \A x : Member(x, op.todo) => x = s \/ Member(x, Tail(op.todo))
  BY <1>1, NextPlan
<1> DEFINE f == Found(db, s)
           t == Tail(op.todo)
<1>5. IsSeq(f) /\ IsSeq(t)
  BY <1>3, <1>4 DEF PlanFits
<1> HIDE DEF f, t
<1>6. IsSeq(f \o t) /\ (\A x : Member(x, f \o t) => Member(x, f) \/ Member(x, t))
      /\ (\A x : Member(x, f) \/ Member(x, t) => Member(x, f \o t))
  BY <1>5, ConcatOf, ConcatHas
<1> QED BY <1>3, <1>4, <1>6 DEF f, t, Continues

\* Where the elements of a plan are once its first is done.
LEMMA TailPlaces ==
  ASSUME NEW p, NEW q, IsSeq(p), IsSeq(q), q # <<>>, NEW r, r = p \o Tail(q), NEW i \in DOMAIN r
  PROVE  /\ i \in Int /\ Len(p) \in Nat
         /\ Member(r[i], p) \/ (i - Len(p) + 1 \in DOMAIN q /\ r[i] = q[i - Len(p) + 1])
<1> DEFINE t == Tail(q)
<1>1. PICK S : q \in Seq(S)
  BY DEF IsSeq
<1>2. Len(q) \in Nat /\ DOMAIN q = 1..Len(q) /\ Len(q) # 0 /\ t \in Seq(S) /\ Len(t) = Len(q) - 1
  BY <1>1
<1>3. \A j \in 1..(Len(q) - 1) : t[j] = q[j + 1]
  BY <1>1
<1>4. IsSeq(t) /\ DOMAIN t = 1..(Len(q) - 1)
  BY <1>2 DEF IsSeq
<1>5. r = p \o t
  OBVIOUS
<1> HIDE DEF t
<1>6. /\ IsSeq(p \o t) /\ Len(p \o t) = Len(p) + Len(t)
      /\ \A j \in DOMAIN (p \o t) : (p \o t)[j] = IF j <= Len(p) THEN p[j] ELSE t[j - Len(p)]
  BY <1>4, Concat
<1>7. /\ IsSeq(r) /\ Len(r) = Len(p) + Len(t)
      /\ r[i] = IF i <= Len(p) THEN p[i] ELSE t[i - Len(p)]
  BY <1>5, <1>6
<1>8. DOMAIN r = 1..Len(r) /\ DOMAIN p = 1..Len(p) /\ Len(p) \in Nat
  BY <1>7 DEF IsSeq
<1>9. i \in 1..Len(r) /\ Len(r) = Len(p) + Len(q) - 1 /\ i \in Int
  BY <1>2, <1>7, <1>8
<1>10. CASE i <= Len(p)
  <2>1. i \in DOMAIN p /\ r[i] = p[i]
    BY <1>7, <1>8, <1>9, <1>10
  <2> QED BY <1>8, <1>9, <2>1 DEF Member
<1>11. CASE ~(i <= Len(p))
  <2>1. i - Len(p) \in 1..(Len(q) - 1) /\ r[i] = t[i - Len(p)]
    BY <1>2, <1>7, <1>8, <1>9, <1>11
  <2>2. r[i] = q[(i - Len(p)) + 1] /\ (i - Len(p)) + 1 \in DOMAIN q
    BY <1>2, <1>3, <2>1
  <2> QED BY <1>8, <1>9, <2>2
<1> QED BY <1>10, <1>11

LEMMA Shifted ==
  ASSUME NEW i \in Int, NEW j \in Int, NEW n \in Nat, i - n + 1 < j - n + 1
  PROVE  i < j
OBVIOUS

\* What comes before a plan is not what lists or deletes views.
LEMMA OrderKept ==
  ASSUME NEW p, NEW q, IsSeq(p), IsSeq(q), q # <<>>, ViewsBeforeDeleted(q),
         \A x : Member(x, p) => x.do \notin {"find views", "delete views"}
  PROVE  ViewsBeforeDeleted(p \o Tail(q))
<1> DEFINE r == p \o Tail(q)
<1>1. \A i \in DOMAIN r : /\ i \in Int /\ Len(p) \in Nat
                          /\ Member(r[i], p) \/ (i - Len(p) + 1 \in DOMAIN q /\ r[i] = q[i - Len(p) + 1])
  BY TailPlaces, ZenonT(60)
<1> HIDE DEF r
<1>2. ASSUME NEW i \in DOMAIN r, NEW j \in DOMAIN r, r[i].do = "find views", r[j].do = "delete views"
      PROVE  i < j
  <2>1. ~Member(r[i], p) /\ ~Member(r[j], p)
    BY <1>2
  <2> DEFINE x == i - Len(p) + 1
             y == j - Len(p) + 1
  <2>2. x \in DOMAIN q /\ y \in DOMAIN q /\ q[x].do = "find views" /\ q[y].do = "delete views"
    BY <1>1, <1>2, <2>1, Zenon
  <2>3. x < y
    BY <2>2, Zenon DEF ViewsBeforeDeleted
  <2>4. i \in Int /\ j \in Int /\ Len(p) \in Nat
    BY <1>1
  <2> QED BY <2>3, <2>4, Shifted, Zenon
<1> QED BY <1>2, Zenon DEF ViewsBeforeDeleted, r

\* The views of another dataset, and the charts' places on them, stay.
LEMMA FrameReaches ==
  ASSUME NEW k, Frame(db, db', k), NEW j, j # k
  PROVE  /\ viewsOf(db', j) = viewsOf(db, j) /\ placesOf(db', j) = placesOf(db, j)
         /\ \A s, c : s.key = j /\ c \in DOMAIN db'.charts /\ Reaches(s, c) => Reaches(s, c)'
<1>1. viewsOf(db', j) = viewsOf(db, j)
  <2>1. ASSUME NEW v \in viewsOf(db, j) PROVE v \in viewsOf(db', j)
    BY <2>1 DEF viewsOf, Frame
  <2>2. ASSUME NEW v \in viewsOf(db', j) PROVE v \in viewsOf(db, j)
    <3>1. v \in DOMAIN db'.views /\ db'.views[v].of = j
      BY <2>2 DEF viewsOf
    <3>2. v \in DOMAIN db.views
      <4> SUFFICES ASSUME v \notin DOMAIN db.views PROVE FALSE
        OBVIOUS
      <4>1. db'.views[v] = [of |-> k, id |-> db.deleted]
        BY <3>1 DEF Frame
      <4> QED BY <3>1, <4>1
    <3> QED BY <3>1, <3>2 DEF viewsOf, Frame
  <2> QED BY <2>1, <2>2
<1>2. placesOf(db', j) = placesOf(db, j)
  BY <1>1 DEF placesOf
<1>3. ASSUME NEW s, NEW c, s.key = j, c \in DOMAIN db'.charts, Reaches(s, c) PROVE Reaches(s, c)'
  BY <1>2, <1>3 DEF Reaches, Frame
<1> QED BY <1>1, <1>2, <1>3

\* A removal of another dataset has still to do what it had.
LEMMA FrameRemainder ==
  ASSUME NEW k, Frame(db, db', k), hist'.born = hist.born, NEW op, op.key # k, Remainder(op),
         \A s : Member(s, op.todo) => s.key = op.key
  PROVE  Remainder(op)'
<1> DEFINE j == op.key
<1>1. /\ viewsOf(db', j) = viewsOf(db, j)
      /\ \A s, c : s.key = j /\ c \in DOMAIN db'.charts /\ Reaches(s, c) => Reaches(s, c)'
  BY FrameReaches
<1>2. /\ j \in Keys /\ op.request \subseteq hist'.born
      /\ j \in DOMAIN db'.tables => Awaits(op, "drop table")
      /\ db'.mapping[j] # <<>> => Awaits(op, "unmap")
      /\ viewsOf(db', j) # {} => Awaits(op, "delete views")
      /\ j \in db'.pipes => Awaits(op, "delete pipe")
      /\ ViewsBeforeDeleted(op.todo)
  BY <1>1 DEF Frame, SameAt, Remainder
<1>3. j \in DOMAIN db'.registry =>
        \E s : Member(s, op.todo) /\ s.do = "unregister" /\ s.id = db'.registry[j].id
  BY DEF Frame, SameAt, Remainder
<1>4. \A c \in op.request \cap DOMAIN db'.charts : \E s : Member(s, op.todo) /\ Reaches(s, c)'
  <2>1. ASSUME NEW c \in op.request \cap DOMAIN db'.charts PROVE \E s : Member(s, op.todo) /\ Reaches(s, c)'
    <3>1. PICK s : Member(s, op.todo) /\ Reaches(s, c)
      BY DEF Frame, Remainder
    <3> QED BY <1>1, <3>1
  <2> QED BY <2>1
<1> QED BY <1>2, <1>3, <1>4 DEF Remainder, Awaits

LEMMA FirstPlace ==
  ASSUME NEW q, IsSeq(q), q # <<>>
  PROVE  1 \in DOMAIN q /\ q[1] = Head(q) /\ \A i \in DOMAIN q : ~(i < 1)
<1>1. PICK S : q \in Seq(S)
  BY DEF IsSeq
<1> QED BY <1>1

LEMMA OneMember ==
  ASSUME NEW x
  PROVE  Member(x, <<x>>)
<1>1. 1 \in DOMAIN <<x>> /\ <<x>>[1] = x
  OBVIOUS
<1> QED BY <1>1 DEF Member

\* What a statement of a removal leaves to do of what it was to do.
LEMMA RemovalStep ==
  ASSUME Shape, Finite, NEW op, op.kind = "remove", Remainder(op), NEW s, NEW p,
         p.key = op.key, p.request = op.request,
         Fits("remove", op.key, s), Works(db, s), db' = Effect(db, s),
         Frame(db, db', op.key), hist'.born = hist.born,
         \A x : Member(x, op.todo) => Fits("remove", op.key, x),
         \A x : Member(x, op.todo) => x = s \/ Member(x, p.todo),
         \A x : Member(x, Found(db, s)) => Member(x, p.todo),
         s.do = "delete views" => \A x : Member(x, op.todo) => x.do # "find views",
         ViewsBeforeDeleted(p.todo)
  PROVE  Remainder(p)'
<1> DEFINE k == op.key
<1>1. /\ Works(db, s) /\ db' = Effect(db, s) /\ Frame(db, db', op.key) /\ hist'.born = hist.born
  OBVIOUS
<1>2. s.key = k /\ s.do \in {"find matviews", "find views", "find charts", "drop matview",
                             "delete charts", "drop table", "unmap", "delete views",
                             "delete pipe", "unregister"}
  BY DEF Fits, Duty
<1>3. /\ \A x : Member(x, op.todo) => x = s \/ Member(x, p.todo)
      /\ \A x : Member(x, Found(db, s)) => Member(x, p.todo)
  OBVIOUS
<1>4. \A x : Member(x, op.todo) => Fits("remove", op.key, x)
  OBVIOUS
<1>5. k \in Keys /\ op.request \subseteq hist'.born
  BY <1>1 DEF Remainder
<1>6. /\ s.do \notin TableStatements => db'.tables = db.tables
      /\ s.do \notin RegistryStatements => db'.registry = db.registry
      /\ s.do \notin MappingStatements => db'.mapping = db.mapping
      /\ s.do \notin ViewStatements => db'.views = db.views
      /\ s.do = "drop table" => k \notin DOMAIN db'.tables
      /\ s.do = "unregister" /\ IsDataset(db, s) => k \notin DOMAIN db'.registry
      /\ s.do = "unregister" /\ ~IsDataset(db, s) => db'.registry = db.registry
      /\ s.do = "unmap" => db'.mapping[k] = <<>>
      /\ s.do = "delete views" => viewsOf(db', k) = {}
      /\ s.do = "delete pipe" => k \notin db'.pipes
      /\ s.do = "delete charts" => db'.charts = Without(db.charts, s.charts)
  <2>1. DOMAIN db = DbParts /\ db.deleted \in Nat /\ RowsFinite(db) /\ DOMAIN db.mapping = Keys
    BY DEF Shape, Finite
  <2>2. Parts(db, s, db')
    <3>1. Parts(db, s, Effect(db, s))
      BY <1>1, <2>1, EffectParts, Zenon
    <3> QED BY <1>1, <3>1
  <2> QED BY <1>2, <1>5, <2>1, <2>2 DEF Parts
<1>7. \A do : Awaits(op, do) /\ s.do # do => Awaits(p, do)
  BY <1>3 DEF Awaits
<1>8. k \in DOMAIN db'.tables => Awaits(p, "drop table")
  <2>1. CASE s.do = "drop table"
    BY <1>6, <2>1
  <2>2. CASE s.do # "drop table"
    <3>1. s.do \notin TableStatements
      BY <1>2, <2>2 DEF TableStatements
    <3>2. db'.tables = db.tables
      BY <1>6, <3>1
    <3> QED BY <1>7, <2>2, <3>2 DEF Remainder
  <2> QED BY <2>1, <2>2
<1>9. db'.mapping[k] # <<>> => Awaits(p, "unmap")
  <2>1. CASE s.do = "unmap"
    BY <1>6, <2>1
  <2>2. CASE s.do # "unmap"
    <3>1. s.do \notin MappingStatements
      BY <1>2, <2>2 DEF MappingStatements
    <3>2. db'.mapping = db.mapping
      BY <1>6, <3>1
    <3> QED BY <1>7, <2>2, <3>2 DEF Remainder
  <2> QED BY <2>1, <2>2
<1>10. s.do # "delete views" => db'.views = db.views
  <2>1. ASSUME s.do # "delete views" PROVE s.do \notin ViewStatements
    BY <1>2, <2>1 DEF ViewStatements
  <2> QED BY <1>6, <2>1
<1>11. viewsOf(db', k) # {} => Awaits(p, "delete views")
  <2>1. CASE s.do = "delete views"
    BY <1>6, <2>1
  <2>2. CASE s.do # "delete views"
    <3>1. viewsOf(db', k) = viewsOf(db, k)
      BY <1>10, <2>2 DEF viewsOf
    <3> QED BY <1>7, <2>2, <3>1 DEF Remainder
  <2> QED BY <2>1, <2>2
<1>12. k \in db'.pipes => Awaits(p, "delete pipe")
  <2>1. CASE s.do = "delete pipe"
    BY <1>6, <2>1
  <2>2. CASE s.do # "delete pipe"
    <3>1. k \in db'.pipes => k \in db.pipes
      BY <1>1 DEF Frame
    <3> QED BY <1>7, <2>2, <3>1 DEF Remainder
  <2> QED BY <2>1, <2>2
<1>13. k \in DOMAIN db'.registry =>
         \E x : Member(x, p.todo) /\ x.do = "unregister" /\ x.id = db'.registry[k].id
  <2>1. CASE k \notin DOMAIN db.registry
    <3>1. db'.registry = db.registry
      <4>1. CASE s.do \in RegistryStatements
        <5>1. s.do = "unregister" /\ ~IsDataset(db, s)
          BY <1>2, <2>1, <4>1 DEF RegistryStatements, IsDataset
        <5> QED BY <1>6, <5>1
      <4>2. CASE s.do \notin RegistryStatements
        BY <1>6, <4>2
      <4> QED BY <4>1, <4>2
    <3> QED BY <2>1, <3>1
  <2>2. CASE k \in DOMAIN db.registry
    <3>1. PICK x : Member(x, op.todo) /\ x.do = "unregister" /\ x.id = db.registry[k].id
      BY <2>2 DEF Remainder
    <3>2. x.key = k
      BY <1>4, <3>1 DEF Fits
    <3>3. CASE x = s
      <4>1. IsDataset(db, s)
        BY <1>2, <2>2, <3>1, <3>3 DEF IsDataset
      <4> QED BY <1>6, <3>1, <3>3, <4>1
    <3>4. CASE x # s
      <4>1. CASE s.do \in RegistryStatements
        <5>1. s.do = "unregister"
          BY <1>2, <4>1 DEF RegistryStatements
        <5>2. CASE IsDataset(db, s)
          BY <1>6, <5>1, <5>2
        <5>3. CASE ~IsDataset(db, s)
          <6>1. db'.registry = db.registry
            BY <1>6, <5>1, <5>3
          <6> QED BY <1>3, <3>1, <3>4, <6>1
        <5> QED BY <5>2, <5>3
      <4>2. CASE s.do \notin RegistryStatements
        <5>1. db'.registry = db.registry
          BY <1>6, <4>2
        <5> QED BY <1>3, <3>1, <3>4, <5>1
      <4> QED BY <4>1, <4>2
    <3> QED BY <3>3, <3>4
  <2> QED BY <2>1, <2>2
<1>14. \A c \in op.request \cap DOMAIN db'.charts : \E x : Member(x, p.todo) /\ Reaches(x, c)'
  <2> SUFFICES ASSUME NEW c \in op.request \cap DOMAIN db'.charts
               PROVE  \E x : Member(x, p.todo) /\ Reaches(x, c)'
    OBVIOUS
  <2>1. c \in DOMAIN db.charts /\ db'.charts[c] = db.charts[c]
    BY <1>1 DEF Frame
  <2>2. PICK x : Member(x, op.todo) /\ Reaches(x, c)
    BY <2>1 DEF Remainder
  <2>3. x.key = k
    BY <1>4, <2>2 DEF Fits
  <2>4. CASE x # s
    <3>1. Member(x, p.todo)
      BY <1>3, <2>2, <2>4
    <3>2. CASE x.do = "find views"
      <4>1. s.do # "delete views"
        <5> SUFFICES ASSUME s.do = "delete views" PROVE FALSE
          OBVIOUS
        <5> QED BY <2>2, <3>2
      <4>2. placesOf(db', k) = placesOf(db, k)
        BY <1>10, <4>1 DEF placesOf, viewsOf
      <4>3. Reaches(x, c)'
        BY <2>1, <2>2, <2>3, <3>2, <4>2 DEF Reaches
      <4> QED BY <3>1, <4>3
    <3>3. CASE x.do # "find views"
      <4>1. Reaches(x, c)'
        BY <2>1, <2>2, <3>3 DEF Reaches
      <4> QED BY <3>1, <4>1
    <3> QED BY <3>2, <3>3
  <2>5. CASE x = s
    <3>1. CASE s.do = "find views" /\ db.charts[c].on \in placesOf(db, k)
      <4>3. PICK y : Member(y, Found(db, s)) /\ y.do = "find charts" /\ y.places = placesOf(db, k)
        <5> DEFINE y == [do |-> "find charts", key |-> s.key, places |-> placesOf(db, s.key)]
        <5>1. Found(db, s) = <<y>>
          BY <3>1 DEF Found
        <5>2. y.do = "find charts" /\ y.places = placesOf(db, k)
          BY <1>2
        <5> HIDE DEF y
        <5>3. Member(y, <<y>>)
          BY OneMember
        <5> QED BY <5>1, <5>2, <5>3
      <4>4. Member(y, p.todo)
        BY <1>3, <4>3
      <4>5. Reaches(y, c)'
        BY <2>1, <3>1, <4>3 DEF Reaches
      <4> QED BY <4>4, <4>5
    <3>2. CASE s.do = "find charts" /\ db.charts[c].on \in s.places
      <4> DEFINE cs == chartsOn(db, s.places)
      <4>1. Found(db, s) = deleteCharts(s.key, cs)
        BY <3>2 DEF Found
      <4>2. c \in cs /\ cs \subseteq DOMAIN db.charts
        BY <2>1, <3>2 DEF chartsOn
      <4>3. IsFiniteSet(cs)
        BY <4>2, FS_Subset DEF Finite
      <4> HIDE DEF cs
      <4>4. PICK y : Member(y, deleteCharts(s.key, cs)) /\ y.do = "delete charts" /\ y.charts = cs
        <5>1. "remove" \in {"remove", "unview"} /\ cs # {}
          BY <4>2
        <5> QED BY <4>3, <5>1, DeleteChartsFits, ZenonT(60)
      <4>5. Member(y, p.todo)
        BY <1>3, <4>1, <4>4
      <4>6. Reaches(y, c)'
        BY <4>2, <4>4 DEF Reaches
      <4> QED BY <4>5, <4>6
    <3>3. CASE s.do = "delete charts" /\ c \in s.charts
      <4>2. c \notin DOMAIN db'.charts
        BY <1>6, <3>3 DEF Without
      <4> QED BY <4>2
    <3> QED BY <2>2, <2>3, <2>5, <3>1, <3>2, <3>3 DEF Reaches
  <2> QED BY <2>4, <2>5
<1> QED BY <1>5, <1>8, <1>9, <1>11, <1>12, <1>13, <1>14, ZenonT(90) DEF Remainder, Awaits

\* What a removal finds to do never lists its views again, nor deletes them.
LEMMA RemovalFinds ==
  ASSUME Finite, NEW k, NEW s, Fits("remove", k, s)
  PROVE  \A x : Member(x, Found(db, s)) => x.do \notin {"find views", "delete views"}
<1>0. "remove" \in {"remove", "unview"} /\ IsFiniteSet(dependents(db, s.key))
      /\ IsFiniteSet(chartsOn(db, s.places))
  <2>1. IsFiniteSet(DOMAIN db.matviews) /\ IsFiniteSet(DOMAIN db.charts)
    BY FS_Subset DEF Finite
  <2> QED BY <2>1, FS_Subset DEF dependents, chartsOn
<1>1. CASE s.do = "find matviews"
  <2>1. Found(db, s) = DropMatviews(s.key, dependents(db, s.key))
    BY <1>1 DEF Found, Each, DropMatviews
  <2>2. \A x : Member(x, DropMatviews(s.key, dependents(db, s.key))) => x.do = "drop matview"
    BY <1>0, DropMatviewFits
  <2> QED BY <2>1, <2>2
<1>2. CASE s.do = "find charts"
  <2> DEFINE cs == chartsOn(db, s.places)
  <2>1. Found(db, s) = deleteCharts(s.key, cs) /\ IsFiniteSet(cs)
    BY <1>0, <1>2 DEF Found
  <2> HIDE DEF cs
  <2>2. \A x : Member(x, deleteCharts(s.key, cs)) =>
          \/ x.do = "drop matview" /\ x.chart \in cs
          \/ x.do = "delete charts" /\ x.charts = cs
    BY <1>0, <2>1, DeleteChartsFits
  <2> QED BY <2>1, <2>2
<1>3. CASE s.do = "find views"
  <2> DEFINE y == [do |-> "find charts", key |-> s.key, places |-> placesOf(db, s.key)]
  <2>1. Found(db, s) = <<y>> /\ y.do = "find charts"
    BY <1>3 DEF Found
  <2> HIDE DEF y
  <2> QED BY <2>1, TupleIsSeq
<1>4. CASE s.do \notin {"find matviews", "find charts", "find views"}
  <2>1. Found(db, s) = <<>>
    BY <1>4 DEF Found, Fits, Duty
  <2> QED BY <2>1, TupleIsSeq
<1> QED BY <1>1, <1>2, <1>3, <1>4

LEMMA DeletedFirst ==
  ASSUME NEW q, IsSeq(q), q # <<>>, ViewsBeforeDeleted(q), Head(q).do = "delete views"
  PROVE  \A x : Member(x, q) => x.do # "find views"
<1>1. 1 \in DOMAIN q /\ q[1] = Head(q) /\ \A i \in DOMAIN q : ~(i < 1)
  BY FirstPlace, Zenon
<1> SUFFICES ASSUME NEW i \in DOMAIN q, q[i].do = "find views" PROVE FALSE
  BY Zenon DEF Member
<1> QED BY <1>1, Zenon DEF ViewsBeforeDeleted

LEMMA RemovalKept ==
  ASSUME AdminInv, NEW a \in Admins, Statement(a), NEW op, op = ops[a], NEW s, s = Head(op.todo),
         Stepped(a, op, s), op.kind = "remove", ~op.shared, ~op.synced, NEW p, p = ops'[a]
  PROVE  Remainder(p)'
<1> DEFINE new == Found(db, s) \o Tail(op.todo)
<1>1. /\ p.key = op.key /\ p.request = op.request /\ p.todo = new
      /\ Fits("remove", op.key, s) /\ Works(db, s) /\ db' = Effect(db, s)
      /\ Frame(db, db', op.key) /\ hist'.born = hist.born
  BY DEF Stepped
<1>2. /\ PlanFits(op.kind, op.key, Found(db, s))
      /\ \A x : Member(x, op.todo) => x = s \/ Member(x, new)
      /\ \A x : Member(x, Found(db, s)) => Member(x, new)
  <2>1. new = Found(db, s) \o Tail(op.todo)
    OBVIOUS
  <2> HIDE DEF new
  <2>2. Continues(op, s, new)
    BY <2>1, StatementTodo, Zenon
  <2> QED BY <2>2 DEF Continues
<1> HIDE DEF new
<1>3. /\ Remainder(op) /\ op.todo # <<>> /\ IsSeq(op.todo)
      /\ \A x : Member(x, op.todo) => Fits("remove", op.key, x)
  <2>1. op # Idle /\ op.todo # <<>>
    BY DEF Statement
  <2> QED BY <2>1 DEF AdminInv, Removals, Alone, Planned
<1>4. ViewsBeforeDeleted(op.todo)
  BY <1>3 DEF Remainder
<1>5. s.do = "delete views" => \A x : Member(x, op.todo) => x.do # "find views"
  BY <1>3, <1>4, DeletedFirst
<1>6. ViewsBeforeDeleted(new)
  <2>1. \A x : Member(x, Found(db, s)) => x.do \notin {"find views", "delete views"}
    BY <1>1, RemovalFinds DEF AdminInv
  <2>2. IsSeq(Found(db, s))
    BY <1>2 DEF PlanFits
  <2> QED BY <1>3, <1>4, <2>1, <2>2, OrderKept DEF new
<1> QED BY <1>1, <1>2, <1>3, <1>5, <1>6, RemovalStep, ZenonT(60) DEF AdminInv

LEMMA StatementShape ==
  ASSUME Shape, Finite, NEW a \in Admins, NEW op, NEW s, Stepped(a, op, s)
  PROVE  Shape' /\ Finite'
<1>1. Shape'
  <2>1. DOMAIN db' = DbParts /\ db'.deleted \in Nat /\ DOMAIN db'.mapping = Keys
    BY DEF Stepped, Frame, Shape
  <2>2. DOMAIN hist' = HistParts /\ DOMAIN ops' = Admins /\ reader' = reader
    BY DEF Stepped
  <2>3. ASSUME NEW b \in Admins PROVE ops'[b] = Idle \/ (DOMAIN ops'[b] = OpParts /\ ops'[b].kind # "idle")
    <3>1. CASE b = a
      <4>1. DOMAIN ops'[a] = OpParts /\ ops'[a].kind = op.kind /\ op.kind # "idle"
        BY DEF Stepped
      <4> QED BY <3>1, <4>1
    <3>2. CASE b # a
      <4>1. ops'[b] = ops[b]
        BY <3>2 DEF Stepped
      <4> QED BY <4>1 DEF Shape
    <3> QED BY <3>1, <3>2
  <2>4. Tabled(db')
    <3>1. DOMAIN db = DbParts /\ db.deleted \in Nat /\ RowsFinite(db) /\ Tabled(db)
      BY DEF Shape, Finite
    <3>2. Tabled(Effect(db, s))
      BY <3>1, EffectTabled
    <3> QED BY <3>2 DEF Stepped
  <2> QED BY <2>1, <2>2, <2>3, <2>4 DEF Shape, Tabled
<1>2. Finite'
  <2>1. Frame(db, db', op.key) /\ RowsFinite(db') /\ hist'.born = hist.born
        /\ \A k \in Keys : IsFiniteSet(DOMAIN db'.mapping[k])
    BY DEF Stepped
  <2>2. DOMAIN db'.charts \subseteq hist'.born /\ DOMAIN db'.matviews \subseteq hist'.born
    BY <2>1 DEF Frame, Finite
  <2> QED BY <2>1, <2>2 DEF Finite, RowsFinite
<1> QED BY <1>1, <1>2

\* The plan of the one, and those of the others.
LEMMA StatementPlanned ==
  ASSUME Planned, Finite, Owned, NEW a \in Admins, NEW op, op = ops[a], NEW s,
         Stepped(a, op, s), Continues(op, s, ops'[a].todo)
  PROVE  /\ Planned'
         /\ \A b \in Admins : ops'[b] # Idle => \A x : Member(x, ops'[b].todo) => OnlyOwn(x)
<1>1. ASSUME NEW b \in Admins, ops'[b] # Idle
      PROVE  /\ IsSeq(ops'[b].todo)
             /\ \A x : Member(x, ops'[b].todo) => Fits(ops'[b].kind, ops'[b].key, x) /\ OnlyOwn(x)
  <2>1. CASE b # a
    <3>1. ops'[b] = ops[b]
      BY <2>1 DEF Stepped
    <3> QED BY <1>1, <3>1 DEF Planned, Owned
  <2>2. CASE b = a
    <3>1. /\ op # Idle /\ ops'[a].kind = op.kind /\ ops'[a].key = op.key /\ s.key = op.key
          /\ Fits(op.kind, s.key, s) /\ OnlyOwn(s)
      BY DEF Stepped
    <3> DEFINE new == ops'[a].todo
    <3>2. /\ IsSeq(new) /\ PlanFits(op.kind, op.key, Found(db, s))
          /\ \A x : Member(x, new) => Member(x, Found(db, s)) \/ Member(x, op.todo)
      BY DEF Continues
    <3>3. \A x : Member(x, op.todo) => Fits(op.kind, op.key, x) /\ OnlyOwn(x)
      BY <3>1 DEF Planned, Owned
    <3>4. \A x : Member(x, Found(db, s)) => Fits(op.kind, op.key, x)
      BY <3>2 DEF PlanFits
    <3>5. \A x : Member(x, Found(db, s)) => OnlyOwn(x)
      BY <3>1, FoundOwn
    <3> HIDE DEF new
    <3>6. \A x : Member(x, new) => Fits(op.kind, op.key, x) /\ OnlyOwn(x)
      BY <3>2, <3>3, <3>4, <3>5
    <3> QED BY <2>2, <3>1, <3>2, <3>6 DEF new
  <2> QED BY <2>1, <2>2
<1>2. Planned'
  BY <1>1 DEF Planned
<1> QED BY <1>1, <1>2

\* A statement that changes the fields is of an operation that clears the catalogue.
LEMMA StatementCached ==
  ASSUME Cached, NEW a \in Admins, NEW op, op = ops[a], NEW s, Stepped(a, op, s)
  PROVE  Cached'
<1>1. op # Idle /\ ops'[a] # Idle /\ ops'[a].kind = op.kind /\ ops'[a].key = op.key
      /\ (\A b \in Admins \ {a} : ops'[b] = ops[b]) /\ hist'.stale = hist.stale
      /\ catalog' = catalog /\ reader' = reader
  BY DEF Stepped
<1>2. ASSUME NEW k, Clearing(k) PROVE Clearing(k)'
  <2>1. PICK b \in Admins : ops[b] # Idle /\ ops[b].key = k /\ ops[b].kind \in clearing
    BY <1>2 DEF Clearing
  <2>2. ops'[b] # Idle /\ ops'[b].key = k /\ ops'[b].kind \in clearing
    BY <1>1, <2>1
  <2> QED BY <2>2 DEF Clearing
<1>3. s.do \in RegistryStatements => Clearing(op.key)'
  <2>1. Duty(op.kind, s.do)
    BY DEF Stepped, Fits
  <2>2. s.do \in RegistryStatements => op.kind \in clearing
    BY <2>1 DEF Duty, RegistryStatements, clearing
  <2>3. s.do \in RegistryStatements =>
          ops'[a] # Idle /\ ops'[a].key = op.key /\ ops'[a].kind \in clearing
    BY <1>1, <2>2
  <2> QED BY <2>3 DEF Clearing
<1>4. ASSUME NEW k, NEW fields, NEW late, Agrees(k, fields, late) PROVE Agrees(k, fields, late)'
  <2>1. CASE late \/ Clearing(k) \/ k \in hist.stale
    BY <1>1, <1>2, <2>1 DEF Agrees
  <2>2. CASE k \in DOMAIN db.registry /\ fields = db.registry[k].fields
    <3>1. CASE k # op.key
      <4>1. SameAt(db'.registry, db.registry, k)
        BY <3>1 DEF Stepped, Frame
      <4> QED BY <2>2, <4>1 DEF SameAt, Agrees
    <3>2. CASE s.do \notin RegistryStatements
      <4>1. db'.registry = db.registry
        BY <3>2 DEF Stepped, Parts
      <4> QED BY <2>2, <4>1 DEF Agrees
    <3>3. CASE k = op.key /\ s.do \in RegistryStatements
      BY <1>3, <3>3 DEF Agrees
    <3> QED BY <3>1, <3>2, <3>3
  <2> QED BY <1>4, <2>1, <2>2 DEF Agrees
<1> QED BY <1>1, <1>4 DEF Cached

LEMMA StatementOwned ==
  ASSUME Shape, Owned, NEW a \in Admins, NEW op, NEW s, Stepped(a, op, s),
         \A b \in Admins : ops'[b] # Idle => \A x : Member(x, ops'[b].todo) => OnlyOwn(x)
  PROVE  Owned'
<1> DEFINE k == op.key
<1>1. /\ Frame(db, db', k) /\ db.deleted \in Nat /\ hist'.born = hist.born
      /\ hist'.freed = hist.freed \cup (DOMAIN db.views \ DOMAIN db'.views)
  BY DEF Stepped, Shape
<1>2. /\ \A x : OnlyOwn(x) => OnlyOwn(x)'
      /\ \A c, j : OwnChart(c, j) => OwnChart(c, j)'
      /\ \A on : Placed(on) => Placed(on)'
  BY <1>1, FrameOwn
<1>3. ASSUME NEW b \in Admins, ops'[b] # Idle, NEW x, Member(x, ops'[b].todo) PROVE OnlyOwn(x)'
  BY <1>2, <1>3
<1>4. ASSUME NEW c \in DOMAIN db'.matviews
      PROVE  OwnChart(c, db.matviews[c].key)' /\ db'.matviews[c].key \in DOMAIN db'.tables
  <2>1. c \in DOMAIN db.matviews /\ db'.matviews[c] = db.matviews[c]
    BY <1>1, <1>4 DEF Frame
  <2>2. OwnChart(c, db.matviews[c].key) /\ db.matviews[c].key \in DOMAIN db.tables
    BY <2>1 DEF Owned
  <2>3. OwnChart(c, db.matviews[c].key)'
    <3> DEFINE j == db.matviews[c].key
    <3>1. PICK i : i = db.matviews[c].key
      OBVIOUS
    <3>2. OwnChart(c, i)'
      BY <1>2, <2>2, <3>1
    <3>3. i = db'.matviews[c].key
      BY <2>1, <3>1
    <3> QED BY <3>2, <3>3 DEF OwnChart
  <2>4. db.matviews[c].key \in DOMAIN db'.tables
    <3>1. CASE db.matviews[c].key # k
      BY <1>1, <2>2, <3>1 DEF Frame, SameAt
    <3>2. CASE db.matviews[c].key = k
      <4>1. s.do # "drop table"
        <5> SUFFICES ASSUME s.do = "drop table" PROVE FALSE
          OBVIOUS
        <5>1. dependents(db, s.key) = {} /\ s.key = k
          BY DEF Stepped, Works
        <5> QED BY <2>1, <3>2, <5>1 DEF dependents
      <4>2. DOMAIN db.tables \subseteq DOMAIN db'.tables
        BY <4>1 DEF Stepped, Parts
      <4> QED BY <2>2, <4>2
    <3> QED BY <3>1, <3>2
  <2> QED BY <2>1, <2>3, <2>4
<1>5. ASSUME NEW c \in DOMAIN db'.charts PROVE Placed(db.charts[c].on)'
  <2>1. c \in DOMAIN db.charts /\ db'.charts[c] = db.charts[c]
    BY <1>1, <1>5 DEF Frame
  <2>2. Placed(db.charts[c].on)
    BY <2>1 DEF Owned
  <2>3. PICK on : on = db.charts[c].on
    OBVIOUS
  <2>4. Placed(on)' /\ on = db'.charts[c].on
    BY <1>2, <2>1, <2>2, <2>3
  <2> QED BY <2>4 DEF Placed
<1>6. ASSUME NEW v \in DOMAIN db'.views PROVE db'.views[v].id \in Nat /\ db'.views[v].id <= db'.deleted
  <2>1. db'.deleted \in {db.deleted, db.deleted + 1}
    BY <1>1 DEF Frame
  <2>2. CASE v \in DOMAIN db.views
    <3>1. db'.views[v] = db.views[v] /\ db.views[v].id \in Nat /\ db.views[v].id <= db.deleted
      BY <1>1, <1>6, <2>2 DEF Frame, Owned
    <3> QED BY <1>1, <2>1, <3>1
  <2>3. CASE v \notin DOMAIN db.views
    <3>1. db'.views[v].id = db.deleted
      BY <1>1, <1>6, <2>3 DEF Frame
    <3> QED BY <1>1, <2>1, <3>1
  <2> QED BY <2>2, <2>3
<1> QED BY <1>3, <1>4, <1>5, <1>6 DEF Owned

LEMMA StatementInv ==
  ASSUME AdminInv, NEW a \in Admins, Statement(a)
  PROVE  AdminInv'
<1>0. PICK op, s, new : op = ops[a] /\ s = Head(op.todo) /\ new = Found(db, s) \o Tail(op.todo)
  OBVIOUS
<1>1. Stepped(a, op, s)
  BY <1>0, StatementFacts
<1>2. Continues(op, s, new)
  BY <1>0, StatementTodo
<1>3. ops'[a].todo = new
  BY <1>0, <1>1 DEF Stepped
<1>4. Continues(op, s, ops'[a].todo)
  BY <1>2, <1>3
<1>5. Shape' /\ Finite'
  BY <1>1, StatementShape DEF AdminInv
<1>6. /\ Planned'
      /\ \A b \in Admins : ops'[b] # Idle => \A x : Member(x, ops'[b].todo) => OnlyOwn(x)
  BY <1>0, <1>1, <1>4, StatementPlanned DEF AdminInv
<1>7. Cached'
  BY <1>0, <1>1, StatementCached DEF AdminInv
<1>8. Owned'
  BY <1>1, <1>6, StatementOwned DEF AdminInv
<1>9. \A b \in Admins \ {a} : ops'[b] = ops[b]
  BY <1>1 DEF Stepped
<1>10. /\ op # Idle /\ ops'[a] # Idle /\ ops'[a].kind = op.kind /\ ops'[a].key = op.key
       /\ ops'[a].shared = op.shared /\ ops'[a].synced = op.synced /\ syncing' = syncing
  BY <1>1 DEF Stepped
<1>11. Noticed'
  BY <1>0, <1>9, <1>10 DEF AdminInv, Noticed
<1>12. Removals'
  <2>1. ASSUME NEW b \in Admins, ops'[b] # Idle, ops'[b].kind = "remove", ~ops'[b].shared, ~ops'[b].synced
        PROVE  Remainder(ops[b])'
    <3>1. PICK p : p = ops'[b]
      OBVIOUS
    <3>2. CASE b = a
      <4>1. op.kind = "remove" /\ ~op.shared /\ ~op.synced /\ p = ops'[a]
        BY <1>10, <2>1, <3>1, <3>2
      <4>2. Remainder(p)'
        BY <1>0, <1>1, <4>1, RemovalKept
      <4> QED BY <3>1, <4>2 DEF Remainder, Awaits
    <3>3. CASE b # a
      <4>1. p = ops[b]
        BY <1>9, <3>1, <3>3
      <4>2. Remainder(p) /\ p # Idle /\ p.kind = "remove" /\ ~p.shared
        BY <2>1, <3>1, <4>1 DEF AdminInv, Removals, Alone
      <4>3. p.key # op.key
        BY <1>0, <1>10, <3>3, <4>1, <4>2 DEF AdminInv, Noticed
      <4>4. \A x : Member(x, p.todo) => x.key = p.key
        BY <4>1, <4>2 DEF AdminInv, Planned, Fits
      <4>5. Frame(db, db', op.key) /\ hist'.born = hist.born
        BY <1>1 DEF Stepped
      <4>6. Remainder(p)'
        BY <4>2, <4>3, <4>4, <4>5, FrameRemainder
      <4> QED BY <3>1, <4>6 DEF Remainder, Awaits
    <3> QED BY <3>2, <3>3
  <2> QED BY <2>1 DEF Removals, Alone
<1> QED BY <1>5, <1>6, <1>7, <1>8, <1>11, <1>12 DEF AdminInv

-----------------------------------------------------------------------------
(* The other steps: an operation ends, a run, a reading, a chart.           *)

\* An operation goes on, or has ended.
Follows(o, p) == p = Idle \/ Carried(o, p)

\* The database but for pipes, matviews and new charts.
Grown ==
  /\ DOMAIN db' = DbParts /\ DOMAIN hist' = HistParts
  /\ db'.tables = db.tables /\ db'.registry = db.registry /\ db'.mapping = db.mapping
  /\ db'.views = db.views /\ db'.deleted = db.deleted /\ hist'.freed = hist.freed
  /\ hist.born \subseteq hist'.born /\ IsFiniteSet(hist'.born)
  /\ \A c \in hist.born : SameAt(db'.charts, db.charts, c)
  /\ DOMAIN db'.charts \subseteq hist'.born /\ DOMAIN db'.matviews \subseteq hist'.born
  /\ \A c \in DOMAIN db'.charts : c \in DOMAIN db.charts \/ Placed(db'.charts[c].on)
  /\ \A c \in DOMAIN db'.matviews :
       \/ c \in DOMAIN db.matviews /\ db'.matviews[c] = db.matviews[c]
       \/ /\ c \in hist.born /\ OwnChart(c, db'.matviews[c].key)
          /\ db'.matviews[c].key \in DOMAIN db.tables

\* An operation that knows of no run of the pipe.
Unsynced(p) ==
  p # Idle /\ ~p.synced => p.key \notin syncing' /\ (p.key \in db'.pipes => p.key \in db.pipes)

LEMMA GrownOwn ==
  ASSUME Grown
  PROVE  /\ \A s : OnlyOwn(s) => OnlyOwn(s)'
         /\ \A c \in hist.born : \A k : OwnChart(c, k) => OwnChart(c, k)'
         /\ \A on : Placed(on) => Placed(on)'
         /\ \A p : Remainder(p) /\ (p.key \in db'.pipes => p.key \in db.pipes) => Remainder(p)'
<1>1. /\ db'.views = db.views /\ db'.deleted = db.deleted /\ hist'.freed = hist.freed
      /\ hist.born \subseteq hist'.born
      /\ \A c \in hist.born : SameAt(db'.charts, db.charts, c)
      /\ db'.tables = db.tables /\ db'.registry = db.registry /\ db'.mapping = db.mapping
  BY DEF Grown
<1>2. \A k : viewsOf(db', k) = viewsOf(db, k) /\ placesOf(db', k) = placesOf(db, k)
  BY <1>1 DEF viewsOf, placesOf
<1>3. \A on, k : OwnPlace(on, k) => OwnPlace(on, k)'
  BY <1>1, <1>2 DEF OwnPlace
<1>4. \A c \in hist.born : \A k : OwnChart(c, k) => OwnChart(c, k)'
  BY <1>1, <1>3 DEF OwnChart, SameAt
<1>5. ASSUME NEW s, OnlyOwn(s) PROVE OnlyOwn(s)'
  <2>1. s.do = "find charts" => \A on \in s.places : OwnPlace(on, s.key)'
    BY <1>3, <1>5 DEF OnlyOwn
  <2>2. s.do = "drop matview" => s.chart \in hist'.born /\ OwnChart(s.chart, s.key)'
    BY <1>1, <1>4, <1>5 DEF OnlyOwn
  <2>3. s.do = "delete charts" => s.charts \subseteq hist'.born /\ \A c \in s.charts : OwnChart(c, s.key)'
    BY <1>1, <1>4, <1>5 DEF OnlyOwn
  <2>4. s.do = "delete view" =>
             /\ s.id \in Nat /\ s.id <= db'.deleted
             /\ s.view \in DOMAIN db'.views /\ db'.views[s.view].id = s.id =>
                  db'.views[s.view].of = s.key
             /\ s.view \notin DOMAIN db'.views => s.id < db'.deleted
    BY <1>1, <1>5 DEF OnlyOwn
  <2> QED BY <2>1, <2>2, <2>3, <2>4 DEF OnlyOwn
<1>6. \A on : Placed(on) => Placed(on)'
  BY <1>1 DEF Placed
<1>7. ASSUME NEW p, Remainder(p), p.key \in db'.pipes => p.key \in db.pipes PROVE Remainder(p)'
  <2>1. /\ p.key \in Keys /\ p.request \subseteq hist'.born
        /\ p.key \in DOMAIN db'.tables => Awaits(p, "drop table")
        /\ db'.mapping[p.key] # <<>> => Awaits(p, "unmap")
        /\ viewsOf(db', p.key) # {} => Awaits(p, "delete views")
        /\ p.key \in db'.pipes => Awaits(p, "delete pipe")
        /\ p.key \in DOMAIN db'.registry =>
             \E s : Member(s, p.todo) /\ s.do = "unregister" /\ s.id = db'.registry[p.key].id
        /\ ViewsBeforeDeleted(p.todo)
    BY <1>1, <1>2, <1>7 DEF Remainder
  <2>2. ASSUME NEW c \in p.request \cap DOMAIN db'.charts
        PROVE  \E s : Member(s, p.todo) /\ Reaches(s, c)'
    <3>1. c \in hist.born
      BY <1>7 DEF Remainder
    <3>2. c \in DOMAIN db.charts /\ db'.charts[c] = db.charts[c]
      BY <1>1, <2>2, <3>1 DEF SameAt
    <3>3. PICK s : Member(s, p.todo) /\ Reaches(s, c)
      BY <1>7, <3>2 DEF Remainder
    <3>4. Reaches(s, c)'
      BY <1>2, <3>2, <3>3 DEF Reaches
    <3> QED BY <3>3, <3>4
  <2> QED BY <2>1, <2>2 DEF Remainder, Awaits
<1> QED BY <1>4, <1>5, <1>6, <1>7

LEMMA GrownInv ==
  ASSUME AdminInv, Grown, DOMAIN ops' = Admins,
         \A b \in Admins : Follows(ops[b], ops'[b]) /\ Unsynced(ops'[b]),
         reader' = Idle \/ (DOMAIN reader' = {"kind", "key", "fields", "late"} /\ reader'.kind = "reading")
  PROVE  Shape' /\ Finite' /\ Planned' /\ Owned' /\ Noticed' /\ Removals'
<1>1. \A b \in Admins : ops'[b] # Idle =>
        /\ ops[b] # Idle /\ DOMAIN ops'[b] = OpParts /\ ops'[b].kind # "idle"
        /\ ops'[b].kind = ops[b].kind /\ ops'[b].key = ops[b].key
        /\ ops'[b].request = ops[b].request /\ ops'[b].todo = ops[b].todo
        /\ ops[b].shared => ops'[b].shared
        /\ ops[b].synced => ops'[b].synced
  BY CarriedFacts DEF Follows
<1>2. Shape'
  BY <1>1 DEF AdminInv, Shape, Tabled, Grown
<1>3. Finite'
  BY DEF AdminInv, Finite, Grown, RowsFinite
<1>4. Planned'
  BY <1>1 DEF AdminInv, Planned
<1>5. /\ \A s : OnlyOwn(s) => OnlyOwn(s)'
      /\ \A c \in hist.born : \A k : OwnChart(c, k) => OwnChart(c, k)'
      /\ \A on : Placed(on) => Placed(on)'
      /\ \A p : Remainder(p) /\ (p.key \in db'.pipes => p.key \in db.pipes) => Remainder(p)'
  BY GrownOwn
<1>6. Owned'
  <2>1. ASSUME NEW b \in Admins, ops'[b] # Idle, NEW s, Member(s, ops'[b].todo) PROVE OnlyOwn(s)'
    BY <1>1, <1>5, <2>1 DEF AdminInv, Owned
  <2>2. ASSUME NEW c \in DOMAIN db'.matviews
        PROVE  OwnChart(c, db.matviews[c].key)' /\ db'.matviews[c].key \in DOMAIN db'.tables
    <3>1. PICK k : k = db'.matviews[c].key
      OBVIOUS
    <3>2. c \in hist.born /\ OwnChart(c, k) /\ k \in DOMAIN db.tables
      <4>1. CASE c \in DOMAIN db.matviews /\ db'.matviews[c] = db.matviews[c]
        BY <3>1, <4>1 DEF AdminInv, Owned, Finite
      <4>2. CASE c \in hist.born /\ OwnChart(c, db'.matviews[c].key) /\ db'.matviews[c].key \in DOMAIN db.tables
        BY <3>1, <4>2
      <4> QED BY <4>1, <4>2 DEF Grown
    <3>3. OwnChart(c, k)' /\ k \in DOMAIN db'.tables
      BY <1>5, <3>2 DEF Grown
    <3> QED BY <3>1, <3>3 DEF OwnChart
  <2>3. ASSUME NEW c \in DOMAIN db'.charts PROVE Placed(db.charts[c].on)'
    <3>1. PICK on : on = db'.charts[c].on
      OBVIOUS
    <3>2. Placed(on)
      <4>1. CASE c \in DOMAIN db.charts
        <5>1. db'.charts[c] = db.charts[c]
          BY <4>1 DEF AdminInv, Finite, Grown, SameAt
        <5> QED BY <3>1, <4>1, <5>1 DEF AdminInv, Owned
      <4>2. CASE c \notin DOMAIN db.charts
        BY <2>3, <3>1, <4>2 DEF Grown
      <4> QED BY <4>1, <4>2
    <3>3. Placed(on)'
      BY <1>5, <3>2
    <3> QED BY <3>1, <3>3 DEF Placed
  <2>4. \A v \in DOMAIN db'.views : db'.views[v].id \in Nat /\ db'.views[v].id <= db'.deleted
    BY DEF AdminInv, Owned, Grown
  <2> QED BY <2>1, <2>2, <2>3, <2>4 DEF Owned
<1>7. Noticed'
  <2>1. ASSUME NEW b \in Admins, ops'[b] # Idle, ~ops'[b].synced PROVE ops'[b].key \notin syncing'
    BY <2>1 DEF Unsynced
  <2>2. ASSUME NEW b \in Admins, NEW c \in Admins, b # c, ops'[b] # Idle, ops'[c] # Idle,
               ops'[b].key = ops'[c].key
        PROVE  ops'[b].shared
    BY <1>1, <2>2 DEF AdminInv, Noticed
  <2> QED BY <2>1, <2>2 DEF Noticed
<1>8. Removals'
  <2>1. ASSUME NEW b \in Admins, ops'[b] # Idle, ops'[b].kind = "remove", ~ops'[b].shared, ~ops'[b].synced
        PROVE  Remainder(ops[b])'
    <3>1. Remainder(ops[b])
      BY <1>1, <2>1 DEF AdminInv, Removals, Alone
    <3>2. PICK p : p = ops'[b]
      OBVIOUS
    <3>3. Remainder(p)
      BY <1>1, <2>1, <3>1, <3>2, ZenonT(90) DEF Remainder, Awaits
    <3>4. p.key \in db'.pipes => p.key \in db.pipes
      BY <2>1, <3>2 DEF Unsynced
    <3>5. Remainder(p)'
      BY <1>5, <3>3, <3>4
    <3> QED BY <3>2, <3>5 DEF Remainder, Awaits
  <2> QED BY <2>1 DEF Removals, Alone
<1> QED BY <1>2, <1>3, <1>4, <1>6, <1>7, <1>8

LEMMA CachedKept ==
  ASSUME Cached, db'.registry = db.registry, catalog' = catalog, reader' = reader,
         \A k : (Clearing(k) \/ k \in hist.stale) => (Clearing(k)' \/ k \in hist'.stale)
  PROVE  Cached'
<1>1. \A k, fields, late : Agrees(k, fields, late) => Agrees(k, fields, late)'
  BY DEF Agrees
<1> QED BY <1>1 DEF Cached

LEMMA InvalidatedCached ==
  ASSUME Shape, Cached, db'.registry = db.registry, NEW key, invalidate(key),
         \A k : k # key /\ (Clearing(k) \/ k \in hist.stale) => (Clearing(k)' \/ k \in hist'.stale)
  PROVE  /\ Cached'
         /\ reader' = Idle \/ (DOMAIN reader' = {"kind", "key", "fields", "late"} /\ reader'.kind = "reading")
<1>1. \A k, fields, late : k # key /\ Agrees(k, fields, late) => Agrees(k, fields, late)'
  BY DEF Agrees
<1>2. /\ DOMAIN catalog' = DOMAIN catalog \ {key}
      /\ \A k \in DOMAIN catalog' : catalog'[k] = catalog[k]
  BY DEF invalidate, Without
<1>3. CASE reader = Idle
  <2>1. reader' = Idle
    BY <1>3 DEF invalidate
  <2> QED BY <1>1, <1>2, <2>1 DEF Cached
<1>4. CASE reader # Idle /\ reader.key = key
  <2>1. reader' = [reader EXCEPT !.late = TRUE]
        /\ DOMAIN reader = {"kind", "key", "fields", "late"} /\ reader.kind = "reading"
    BY <1>4 DEF invalidate, Shape
  <2>2. DOMAIN reader' = {"kind", "key", "fields", "late"} /\ reader'.kind = "reading" /\ reader'.late
    BY <2>1
  <2> QED BY <1>1, <1>2, <2>2 DEF Cached, Agrees
<1>5. CASE reader # Idle /\ reader.key # key
  <2>1. reader' = reader
    BY <1>5 DEF invalidate
  <2>2. \A k \in DOMAIN catalog' : Agrees(k, catalog[k].fields, catalog[k].late)'
    BY <1>1, <1>2 DEF Cached
  <2>3. Agrees(reader.key, reader.fields, reader.late)'
    <3>1. PICK k, fields, late : k = reader.key /\ fields = reader.fields /\ late = reader.late
      OBVIOUS
    <3>2. Agrees(k, fields, late)'
      BY <1>1, <1>5, <3>1 DEF Cached
    <3> QED BY <2>1, <3>1, <3>2 DEF Agrees
  <2> QED BY <2>1, <2>2, <2>3 DEF Cached, Shape
<1> QED BY <1>3, <1>4, <1>5

\* The database as it was, whatever is noted of failures.
LEMMA SameIsGrown ==
  ASSUME Shape, Finite, db' = db, DOMAIN hist' = HistParts, hist'.freed = hist.freed, hist'.born = hist.born
  PROVE  Grown
BY DEF Shape, Finite, Grown, SameAt

\* An operation that ends leaves the others as they are.
LEMMA EndedOps ==
  ASSUME AdminInv, NEW a \in Admins, ops' = [ops EXCEPT ![a] = Idle], syncing' = syncing, db' = db
  PROVE  /\ DOMAIN ops' = Admins /\ ops'[a] = Idle /\ \A b \in Admins \ {a} : ops'[b] = ops[b]
         /\ \A b \in Admins : Follows(ops[b], ops'[b]) /\ Unsynced(ops'[b])
         /\ \A k : Clearing(k) => Clearing(k)' \/ (k = ops[a].key /\ ops[a].kind \in clearing)
<1>1. DOMAIN ops' = Admins /\ ops'[a] = Idle /\ \A b \in Admins \ {a} : ops'[b] = ops[b]
  BY DEF AdminInv, Shape
<1>2. ASSUME NEW b \in Admins PROVE Follows(ops[b], ops'[b]) /\ Unsynced(ops'[b])
  <2>1. CASE b = a
    BY <1>1, <2>1 DEF Follows, Unsynced
  <2>2. CASE b # a
    <3>1. ops'[b] = ops[b] /\ (ops[b] = Idle \/ (DOMAIN ops[b] = OpParts /\ ops[b].kind # "idle"))
      BY <1>1, <2>2 DEF AdminInv, Shape
    <3>2. Follows(ops[b], ops'[b])
      BY <3>1 DEF Follows, Carried
    <3>3. Unsynced(ops'[b])
      BY <3>1 DEF AdminInv, Noticed, Unsynced
    <3> QED BY <3>2, <3>3
  <2> QED BY <2>1, <2>2
<1>3. ASSUME NEW k, Clearing(k), ~(k = ops[a].key /\ ops[a].kind \in clearing) PROVE Clearing(k)'
  <2>1. PICK b \in Admins : ops[b] # Idle /\ ops[b].key = k /\ ops[b].kind \in clearing
    BY <1>3 DEF Clearing
  <2>2. ops'[b] = ops[b]
    BY <1>1, <1>3, <2>1
  <2> QED BY <2>1, <2>2 DEF Clearing
<1> QED BY <1>1, <1>2, <1>3

LEMMA DoneInv ==
  ASSUME AdminInv, NEW a \in Admins, Done(a)
  PROVE  AdminInv'
<1>1. PICK op : op = ops[a]
  OBVIOUS
<1>2. /\ op # Idle /\ ops' = [ops EXCEPT ![a] = Idle] /\ db' = db /\ syncing' = syncing
      /\ IF op.kind \in clearing THEN invalidate(op.key) ELSE UNCHANGED <<catalog, reader>>
  BY <1>1 DEF Done
<1>3. /\ DOMAIN hist' = HistParts /\ hist'.freed = hist.freed /\ hist'.born = hist.born
      /\ hist'.stale = IF op.kind \in clearing THEN hist.stale \ {op.key} ELSE hist.stale
  BY <1>1 DEF Done, AdminInv, Shape, HistParts
<1>4. /\ DOMAIN ops' = Admins
      /\ \A b \in Admins : Follows(ops[b], ops'[b]) /\ Unsynced(ops'[b])
      /\ \A k : Clearing(k) => Clearing(k)' \/ (k = op.key /\ op.kind \in clearing)
  BY <1>1, <1>2, EndedOps
<1>5. Grown
  BY <1>2, <1>3, SameIsGrown DEF AdminInv
<1>6. Cached' /\ (reader' = Idle \/ (DOMAIN reader' = {"kind", "key", "fields", "late"} /\ reader'.kind = "reading"))
  <2>1. CASE op.kind \in clearing
    <3>1. \A k : k # op.key /\ (Clearing(k) \/ k \in hist.stale) => (Clearing(k)' \/ k \in hist'.stale)
      BY <1>3, <1>4, <2>1
    <3>2. invalidate(op.key) /\ db'.registry = db.registry
      BY <1>2, <2>1
    <3> QED BY <3>1, <3>2, InvalidatedCached DEF AdminInv
  <2>2. CASE op.kind \notin clearing
    <3>1. \A k : (Clearing(k) \/ k \in hist.stale) => (Clearing(k)' \/ k \in hist'.stale)
      BY <1>3, <1>4, <2>2
    <3>2. catalog' = catalog /\ reader' = reader /\ db'.registry = db.registry
      BY <1>2, <2>2
    <3>3. Cached'
      BY <3>1, <3>2, CachedKept DEF AdminInv
    <3> QED BY <3>2, <3>3 DEF AdminInv, Shape
  <2> QED BY <2>1, <2>2
<1> QED BY <1>4, <1>5, <1>6, GrownInv DEF AdminInv

LEMMA FailsInv ==
  ASSUME AdminInv, NEW a \in Admins, Fails(a)
  PROVE  AdminInv'
<1>1. PICK op : op = ops[a]
  OBVIOUS
<1>2. /\ op # Idle /\ ops' = [ops EXCEPT ![a] = Idle] /\ db' = db /\ syncing' = syncing
      /\ catalog' = catalog /\ reader' = reader
  BY <1>1 DEF Fails
<1>3. /\ DOMAIN hist' = HistParts /\ hist'.freed = hist.freed /\ hist'.born = hist.born
      /\ hist'.stale = IF op.kind \in clearing THEN hist.stale \cup {op.key} ELSE hist.stale
  BY <1>1 DEF Fails, AdminInv, Shape, HistParts
<1>4. /\ DOMAIN ops' = Admins
      /\ \A b \in Admins : Follows(ops[b], ops'[b]) /\ Unsynced(ops'[b])
      /\ \A k : Clearing(k) => Clearing(k)' \/ (k = op.key /\ op.kind \in clearing)
  BY <1>1, <1>2, EndedOps
<1>5. Grown
  BY <1>2, <1>3, SameIsGrown DEF AdminInv
<1>6. Cached'
  <2>1. \A k : (Clearing(k) \/ k \in hist.stale) => (Clearing(k)' \/ k \in hist'.stale)
    BY <1>3, <1>4
  <2> QED BY <1>2, <2>1, CachedKept DEF AdminInv
<1>7. reader' = Idle \/ (DOMAIN reader' = {"kind", "key", "fields", "late"} /\ reader'.kind = "reading")
  BY <1>2 DEF AdminInv, Shape
<1> QED BY <1>4, <1>5, <1>6, <1>7, GrownInv DEF AdminInv

\* A run or a chart joins the operations on its dataset.
LEMMA JoinedOps ==
  ASSUME AdminInv, NEW k, ops' = Joined(k, ops, "synced"),
         syncing' \subseteq syncing \cup {k}, db'.pipes \subseteq db.pipes \cup {k}
  PROVE  /\ DOMAIN ops' = Admins
         /\ \A b \in Admins : Follows(ops[b], ops'[b]) /\ Unsynced(ops'[b])
         /\ \A j : Clearing(j) => Clearing(j)'
<1>1. /\ DOMAIN ops' = Admins
      /\ \A b \in Admins : /\ Carried(ops[b], ops'[b])
                           /\ ops[b] # Idle /\ ops[b].key = k => ops'[b].synced
  <2>1. /\ DOMAIN Joined(k, ops, "synced") = Admins
        /\ \A b \in Admins : /\ Carried(ops[b], Joined(k, ops, "synced")[b])
                             /\ ops[b] # Idle /\ ops[b].key = k => Joined(k, ops, "synced")[b].synced
    BY JoinedCarries DEF AdminInv
  <2> QED BY <2>1
<1>2. ASSUME NEW b \in Admins PROVE Unsynced(ops'[b])
  <2> SUFFICES ASSUME ops'[b] # Idle, ~ops'[b].synced
               PROVE  ops'[b].key \notin syncing' /\ (ops'[b].key \in db'.pipes => ops'[b].key \in db.pipes)
    BY DEF Unsynced
  <2>1. ops[b] # Idle /\ ops'[b].key = ops[b].key /\ (ops[b].synced => ops'[b].synced)
    BY <1>1, CarriedFacts
  <2>2. ops[b].key # k
    BY <1>1, <2>1
  <2>3. ops[b].key \notin syncing
    BY <2>1 DEF AdminInv, Noticed
  <2> QED BY <2>1, <2>2, <2>3
<1>3. ASSUME NEW j, Clearing(j) PROVE Clearing(j)'
  <2>1. PICK b \in Admins : ops[b] # Idle /\ ops[b].key = j /\ ops[b].kind \in clearing
    BY <1>3 DEF Clearing
  <2>2. ops'[b] # Idle /\ ops'[b].key = j /\ ops'[b].kind \in clearing
    BY <1>1, <2>1, CarriedFacts
  <2> QED BY <2>2 DEF Clearing
<1> QED BY <1>1, <1>2, <1>3 DEF Follows

LEMMA SameOps ==
  ASSUME AdminInv, ops' = ops, \A k : k \in syncing' => k \in syncing,
         \A k : k \in db'.pipes => k \in db.pipes \/ k \in syncing
  PROVE  /\ DOMAIN ops' = Admins
         /\ \A b \in Admins : Follows(ops[b], ops'[b]) /\ Unsynced(ops'[b])
         /\ \A k : Clearing(k) => Clearing(k)'
<1>1. ASSUME NEW b \in Admins PROVE Follows(ops[b], ops'[b]) /\ Unsynced(ops'[b])
  <2>1. ops'[b] = ops[b] /\ (ops[b] = Idle \/ (DOMAIN ops[b] = OpParts /\ ops[b].kind # "idle"))
    BY DEF AdminInv, Shape
  <2>2. Follows(ops[b], ops'[b])
    BY <2>1 DEF Follows, Carried
  <2>3. Unsynced(ops'[b])
    BY <2>1 DEF AdminInv, Noticed, Unsynced
  <2> QED BY <2>2, <2>3
<1>2. DOMAIN ops' = Admins /\ \A k : Clearing(k) => Clearing(k)'
  BY DEF AdminInv, Shape, Clearing
<1> QED BY <1>1, <1>2

LEMMA PipesAreGrown ==
  ASSUME Shape, Finite, NEW k, db' = [db EXCEPT !.pipes = @ \cup {k}],
         DOMAIN hist' = HistParts, hist'.freed = hist.freed, hist'.born = hist.born
  PROVE  Grown /\ db'.registry = db.registry /\ db'.pipes = db.pipes \cup {k}
<1>1. DOMAIN db = DbParts
  BY DEF Shape
<1>2. /\ DOMAIN db' = DbParts /\ db'.tables = db.tables /\ db'.registry = db.registry
      /\ db'.mapping = db.mapping /\ db'.views = db.views /\ db'.deleted = db.deleted
      /\ db'.charts = db.charts /\ db'.matviews = db.matviews /\ db'.pipes = db.pipes \cup {k}
  BY <1>1 DEF DbParts
<1> QED BY <1>2 DEF Finite, Grown, SameAt

LEMMA StartSyncInv ==
  ASSUME AdminInv, NEW k, StartSync(k)
  PROVE  AdminInv'
<1>1. /\ db' = [db EXCEPT !.pipes = @ \cup {k}] /\ ops' = Joined(k, ops, "synced")
      /\ syncing' = syncing \cup {k} /\ catalog' = catalog /\ reader' = reader /\ hist' = hist
  BY DEF StartSync
<1>2. Grown /\ db'.registry = db.registry /\ db'.pipes = db.pipes \cup {k}
  BY <1>1, PipesAreGrown DEF AdminInv, Shape
<1>3. /\ DOMAIN ops' = Admins
      /\ \A b \in Admins : Follows(ops[b], ops'[b]) /\ Unsynced(ops'[b])
      /\ \A j : Clearing(j) => Clearing(j)'
  BY <1>1, <1>2, JoinedOps
<1>4. Cached'
  BY <1>1, <1>2, <1>3, CachedKept DEF AdminInv
<1>5. reader' = Idle \/ (DOMAIN reader' = {"kind", "key", "fields", "late"} /\ reader'.kind = "reading")
  BY <1>1 DEF AdminInv, Shape
<1> QED BY <1>2, <1>3, <1>4, <1>5, GrownInv DEF AdminInv

LEMMA EndSyncInv ==
  ASSUME AdminInv, NEW k, EndSync(k)
  PROVE  AdminInv'
<1>1. /\ db' = [db EXCEPT !.pipes = @ \cup {k}] /\ ops' = ops /\ k \in syncing
      /\ syncing' = syncing \ {k} /\ invalidate(k)
  BY DEF EndSync
<1>2. /\ DOMAIN hist' = HistParts /\ hist'.freed = hist.freed /\ hist'.born = hist.born
      /\ hist'.stale = hist.stale \ {k}
  BY DEF EndSync, AdminInv, Shape, HistParts
<1>3. Grown /\ db'.registry = db.registry /\ db'.pipes = db.pipes \cup {k}
  BY <1>1, <1>2, PipesAreGrown DEF AdminInv
<1>4. /\ DOMAIN ops' = Admins
      /\ \A b \in Admins : Follows(ops[b], ops'[b]) /\ Unsynced(ops'[b])
      /\ \A j : Clearing(j) => Clearing(j)'
  BY <1>1, <1>3, SameOps
<1>5. Cached' /\ (reader' = Idle \/ (DOMAIN reader' = {"kind", "key", "fields", "late"} /\ reader'.kind = "reading"))
  <2>1. \A j : j # k /\ (Clearing(j) \/ j \in hist.stale) => (Clearing(j)' \/ j \in hist'.stale)
    BY <1>2, <1>4
  <2> QED BY <1>1, <1>3, <2>1, InvalidatedCached DEF AdminInv
<1> QED BY <1>3, <1>4, <1>5, GrownInv DEF AdminInv

LEMMA ReadingInv ==
  ASSUME AdminInv, (\E k : forDataset(k)) \/ KeepCatalog
  PROVE  AdminInv'
<1>1. db' = db /\ ops' = ops /\ syncing' = syncing /\ hist' = hist
  BY DEF forDataset, KeepCatalog
<1>2. Grown
  BY <1>1, SameIsGrown DEF AdminInv, Shape
<1>3. /\ DOMAIN ops' = Admins
      /\ \A b \in Admins : Follows(ops[b], ops'[b]) /\ Unsynced(ops'[b])
      /\ \A j : Clearing(j) => Clearing(j)'
  BY <1>1, SameOps
<1>4. \A k, fields, late : Agrees(k, fields, late) => Agrees(k, fields, late)'
  BY <1>1, <1>3 DEF Agrees
<1>5. Cached' /\ (reader' = Idle \/ (DOMAIN reader' = {"kind", "key", "fields", "late"} /\ reader'.kind = "reading"))
  <2>1. CASE \E k : forDataset(k)
    <3>1. PICK k : forDataset(k)
      BY <2>1
    <3>2. PICK fields : fields = db.registry[k].fields
      OBVIOUS
    <3>3. /\ reader' = [kind |-> "reading", key |-> k, fields |-> fields, late |-> FALSE]
          /\ catalog' = catalog /\ k \in DOMAIN db.registry
      BY <3>1, <3>2 DEF forDataset
    <3>4. /\ DOMAIN reader' = {"kind", "key", "fields", "late"} /\ reader'.kind = "reading"
          /\ reader'.key = k /\ reader'.fields = fields /\ reader'.late = FALSE
      BY <3>3
    <3>5. Agrees(k, fields, FALSE)
      BY <3>2, <3>3 DEF Agrees
    <3>6. Agrees(k, fields, FALSE)'
      BY <1>4, <3>5
    <3>7. \A j \in DOMAIN catalog' : Agrees(j, catalog[j].fields, catalog[j].late)'
      BY <1>4, <3>3 DEF AdminInv, Cached
    <3> QED BY <3>4, <3>6, <3>7 DEF Cached, Agrees
  <2>2. CASE KeepCatalog
    <3>1. PICK k, fields, late : k = reader.key /\ fields = reader.fields /\ late = reader.late
      OBVIOUS
    <3>2. /\ reader # Idle /\ reader' = Idle
          /\ catalog' = Put(catalog, k, [fields |-> fields, late |-> late])
      BY <2>2, <3>1 DEF KeepCatalog
    <3>3. Agrees(k, fields, late)'
      BY <1>4, <3>1, <3>2 DEF AdminInv, Cached
    <3>4. ASSUME NEW j \in DOMAIN catalog' PROVE Agrees(j, catalog[j].fields, catalog[j].late)'
      <4>1. CASE j = k
        <5>1. catalog'[j].fields = fields /\ catalog'[j].late = late
          BY <3>2, <4>1 DEF Put
        <5> QED BY <3>3, <4>1, <5>1 DEF Agrees
      <4>2. CASE j # k
        <5>1. j \in DOMAIN catalog /\ catalog'[j] = catalog[j]
          BY <3>2, <3>4, <4>2 DEF Put
        <5>2. PICK f, l : f = catalog[j].fields /\ l = catalog[j].late
          OBVIOUS
        <5>3. Agrees(j, f, l)'
          BY <1>4, <5>1, <5>2 DEF AdminInv, Cached
        <5> QED BY <5>1, <5>2, <5>3 DEF Agrees
      <4> QED BY <4>1, <4>2
    <3> QED BY <3>2, <3>4 DEF Cached
  <2> QED BY <2>1, <2>2
<1> QED BY <1>2, <1>3, <1>5, GrownInv DEF AdminInv

LEMMA AddedIsFinite ==
  ASSUME NEW S, IsFiniteSet(S), NEW x
  PROVE  IsFiniteSet(S \cup {x})
BY FS_AddElement

LEMMA AddChartInv ==
  ASSUME AdminInv, NEW c,
         NEW on \in {<<"dataset", k>> : k \in DOMAIN db.registry} \cup {<<"view", v>> : v \in DOMAIN db.views},
         AddChart(c, on)
  PROVE  AdminInv'
<1>0. PICK k : k = datasetOf(on)
  OBVIOUS
<1>1. /\ c \notin hist.born /\ db' = [db EXCEPT !.charts = Put(@, c, [on |-> on])]
      /\ ops' = Joined(k, ops, "synced") /\ hist' = [hist EXCEPT !.born = @ \cup {c}]
      /\ syncing' = syncing /\ catalog' = catalog /\ reader' = reader
  BY <1>0 DEF AddChart
<1>2. /\ DOMAIN hist' = HistParts /\ hist'.freed = hist.freed /\ hist'.born = hist.born \cup {c}
      /\ hist'.stale = hist.stale
  BY <1>1 DEF AdminInv, Shape, HistParts
<1>3. /\ DOMAIN db' = DbParts /\ db'.tables = db.tables /\ db'.registry = db.registry
      /\ db'.mapping = db.mapping /\ db'.views = db.views /\ db'.deleted = db.deleted
      /\ db'.matviews = db.matviews /\ db'.pipes = db.pipes
      /\ db'.charts = Put(db.charts, c, [on |-> on])
  BY <1>1 DEF AdminInv, Shape, DbParts
<1>4. /\ DOMAIN db'.charts = DOMAIN db.charts \cup {c} /\ db'.charts[c].on = on
      /\ \A b : b # c => SameAt(db'.charts, db.charts, b)
  BY <1>3 DEF Put, SameAt
<1>5. Placed(on)
  BY DEF Placed
<1>6. Grown
  <2>1. IsFiniteSet(hist'.born)
    <3>1. IsFiniteSet(hist.born)
      BY DEF AdminInv, Finite
    <3>2. IsFiniteSet(hist.born \cup {c})
      BY <3>1, AddedIsFinite, Zenon
    <3> QED BY <1>2, <3>2, Zenon
  <2>2. DOMAIN db'.charts \subseteq hist'.born /\ DOMAIN db'.matviews \subseteq hist'.born
    BY <1>2, <1>3, <1>4 DEF AdminInv, Finite
  <2>3. \A b \in hist.born : SameAt(db'.charts, db.charts, b)
    BY <1>1, <1>4
  <2>4. \A b \in DOMAIN db'.charts : b \in DOMAIN db.charts \/ Placed(db'.charts[b].on)
    BY <1>4, <1>5
  <2> QED BY <1>2, <1>3, <2>1, <2>2, <2>3, <2>4 DEF Grown
<1>7. /\ DOMAIN ops' = Admins
      /\ \A b \in Admins : Follows(ops[b], ops'[b]) /\ Unsynced(ops'[b])
      /\ \A j : Clearing(j) => Clearing(j)'
  BY <1>1, <1>3, JoinedOps
<1>8. Cached'
  BY <1>1, <1>2, <1>3, <1>7, CachedKept DEF AdminInv
<1>9. reader' = Idle \/ (DOMAIN reader' = {"kind", "key", "fields", "late"} /\ reader'.kind = "reading")
  BY <1>1 DEF AdminInv, Shape
<1> QED BY <1>6, <1>7, <1>8, <1>9, GrownInv DEF AdminInv

\* What a chart is on is its dataset's.
LEMMA PlacedIsOwn ==
  ASSUME NEW on, Placed(on), NEW k, k = datasetOf(on)
  PROVE  OwnPlace(on, k)
<1>1. CASE \E j : on = <<"dataset", j>>
  <2>1. PICK j : on = <<"dataset", j>>
    BY <1>1
  <2>2. on[1] = "dataset" /\ on[2] = j
    BY <2>1
  <2>3. k = j
    BY <2>2 DEF datasetOf
  <2> QED BY <2>1, <2>3 DEF OwnPlace
<1>2. CASE \E v \in hist.freed \cup DOMAIN db.views : on = <<"view", v>>
  <2>1. PICK v \in hist.freed \cup DOMAIN db.views : on = <<"view", v>>
    BY <1>2
  <2>2. on[1] = "view" /\ on[2] = v
    BY <2>1
  <2>3. CASE v \in hist.freed
    BY <2>1, <2>3 DEF OwnPlace
  <2>4. CASE v \in DOMAIN db.views
    <3>1. k = db.views[v].of
      BY <2>2, <2>4 DEF datasetOf
    <3>2. v \in viewsOf(db, k)
      BY <2>4, <3>1 DEF viewsOf
    <3> QED BY <2>1, <3>2 DEF OwnPlace
  <2> QED BY <2>1, <2>3, <2>4
<1> QED BY <1>1, <1>2 DEF Placed

LEMMA BuildMatviewInv ==
  ASSUME AdminInv, NEW c, NEW col, BuildMatview(c, col)
  PROVE  AdminInv'
<1>0. PICK k : k = datasetOf(db.charts[c].on)
  OBVIOUS
<1>1. /\ c \in DOMAIN db.charts /\ k \in DOMAIN db.tables
      /\ db' = [db EXCEPT !.matviews = Put(@, c, [key |-> k, col |-> col])]
      /\ ops' = ops /\ hist' = hist /\ syncing' = syncing /\ catalog' = catalog /\ reader' = reader
  BY <1>0 DEF BuildMatview
<1>2. /\ DOMAIN db' = DbParts /\ db'.tables = db.tables /\ db'.registry = db.registry
      /\ db'.mapping = db.mapping /\ db'.views = db.views /\ db'.deleted = db.deleted
      /\ db'.charts = db.charts /\ db'.pipes = db.pipes
      /\ db'.matviews = Put(db.matviews, c, [key |-> k, col |-> col])
  BY <1>1 DEF AdminInv, Shape, DbParts
<1>3. /\ DOMAIN db'.matviews = DOMAIN db.matviews \cup {c} /\ db'.matviews[c].key = k
      /\ \A b \in DOMAIN db.matviews : b # c => db'.matviews[b] = db.matviews[b]
  BY <1>2 DEF Put
<1>4. OwnChart(c, k) /\ c \in hist.born
  <2>1. Placed(db.charts[c].on)
    BY <1>1 DEF AdminInv, Owned
  <2>2. OwnPlace(db.charts[c].on, k)
    BY <1>0, <2>1, PlacedIsOwn
  <2> QED BY <1>1, <2>2 DEF OwnChart, AdminInv, Finite
<1>5. Grown
  <2>1. DOMAIN db'.charts \subseteq hist'.born /\ DOMAIN db'.matviews \subseteq hist'.born
        /\ IsFiniteSet(hist'.born) /\ hist'.born = hist.born /\ hist'.freed = hist.freed
        /\ DOMAIN hist' = HistParts
    BY <1>1, <1>2, <1>3, <1>4 DEF AdminInv, Finite, Shape
  <2>2. \A b \in hist.born : SameAt(db'.charts, db.charts, b)
    BY <1>2 DEF SameAt
  <2>3. \A b \in DOMAIN db'.matviews :
          \/ b \in DOMAIN db.matviews /\ db'.matviews[b] = db.matviews[b]
          \/ /\ b \in hist.born /\ OwnChart(b, db'.matviews[b].key)
             /\ db'.matviews[b].key \in DOMAIN db.tables
    BY <1>1, <1>3, <1>4
  <2>4. \A b \in DOMAIN db'.charts : b \in DOMAIN db.charts
    BY <1>2
  <2> QED BY <1>2, <2>1, <2>2, <2>3, <2>4 DEF Grown
<1>6. /\ DOMAIN ops' = Admins
      /\ \A b \in Admins : Follows(ops[b], ops'[b]) /\ Unsynced(ops'[b])
      /\ \A j : Clearing(j) => Clearing(j)'
  BY <1>1, <1>2, SameOps
<1>7. Cached'
  BY <1>1, <1>2, <1>6, CachedKept DEF AdminInv
<1>8. reader' = Idle \/ (DOMAIN reader' = {"kind", "key", "fields", "late"} /\ reader'.kind = "reading")
  BY <1>1 DEF AdminInv, Shape
<1> QED BY <1>5, <1>6, <1>7, <1>8, GrownInv DEF AdminInv

-----------------------------------------------------------------------------
(* The first states.                                                        *)

\* A database no chart is made of yet.
Fresh(d) ==
  /\ Tabled(d)
  /\ DOMAIN d = DbParts /\ d.deleted \in Nat /\ DOMAIN d.mapping = Keys
  /\ DOMAIN d.charts = {} /\ DOMAIN d.matviews = {}
  /\ RowsFinite(d) /\ \A k \in Keys : IsFiniteSet(DOMAIN d.mapping[k])
  /\ \A v \in DOMAIN d.views : d.views[v].id \in Nat /\ d.views[v].id <= d.deleted

LEMMA AtFirstFresh == Fresh(AtFirst)
<1> DEFINE d == AtFirst
           S == DOMAIN BuiltIn \ Reserved
           L == {BuiltIn[c].label : c \in S}
           m == [l \in L |-> [col |-> Ignored, id |-> 0]]
<1>1. /\ DOMAIN d = DbParts /\ d.deleted = 0
      /\ d.mapping = [k \in Keys |-> IF k \in Protected THEN m ELSE <<>>]
      /\ d.registry = [k \in Protected |-> [id |-> 0, source |-> TRUE, fields |-> BuiltIn]]
      /\ d.views = <<>> /\ d.charts = <<>> /\ d.matviews = <<>>
  BY DEF AtFirst, DbParts
<1>2. IsFiniteSet(L)
  <2>1. IsFiniteSet(S)
    BY ConstantsAssumption, FS_Subset
  <2> DEFINE f == [c \in S |-> BuiltIn[c].label]
  <2>2. L = {f[c] : c \in S}
    OBVIOUS
  <2> HIDE DEF f, S, L
  <2>3. IsFiniteSet({f[c] : c \in S})
    BY <2>1, ImageIsFinite
  <2> QED BY <2>2, <2>3
<1>3. DOMAIN m = L
  OBVIOUS
<1> HIDE DEF d, m, L
<1>4. DOMAIN d.mapping = Keys /\ \A k \in Keys : d.mapping[k] = m \/ d.mapping[k] = <<>>
  BY <1>1
<1>5. \A k \in Keys : IsFiniteSet(DOMAIN d.mapping[k])
  BY <1>2, <1>3, <1>4, NoneFinite
<1>6. RowsFinite(d)
  BY <1>1, ConstantsAssumption DEF RowsFinite
<1>7. Tabled(d)
  BY DEF Tabled, AtFirst, d
<1> QED BY <1>1, <1>4, <1>5, <1>6, <1>7, NoneFinite DEF Fresh, d

LEMMA EffectFresh ==
  ASSUME NEW d, Fresh(d), NEW s, Fits("create", s.key, s)
  PROVE  Fresh(Effect(d, s))
<1> DEFINE e == Effect(d, s)
<1>0. /\ Tabled(d) /\ DOMAIN d = DbParts /\ d.deleted \in Nat /\ DOMAIN d.mapping = Keys
      /\ DOMAIN d.charts = {} /\ DOMAIN d.matviews = {}
      /\ RowsFinite(d) /\ (\A k \in Keys : IsFiniteSet(DOMAIN d.mapping[k]))
      /\ \A v \in DOMAIN d.views : d.views[v].id \in Nat /\ d.views[v].id <= d.deleted
  BY DEF Fresh
<1>1. Tabled(e)
  BY <1>0, EffectTabled
<1>2. s.do \in {"create table", "register", "add field", "seed mapping", "add view"}
  BY DEF Fits, Duty
<1>3. CASE s.do \in TableStatements
  <2>1. Kept(d, e, {"tables"})
    BY <1>0, <1>3, TableEffect
  <2> HIDE DEF e
  <2>2. Fresh(e)
    BY <1>0, <1>1, <2>1 DEF Kept, Fresh, RowsFinite
  <2> QED BY <2>2 DEF e
<1>4. CASE s.do \in RegistryStatements
  <2>1. /\ Kept(d, e, {"registry", "deleted"}) /\ RowsFinite(e)
        /\ e.deleted \in {d.deleted, d.deleted + 1}
    BY <1>0, <1>4, RegistryEffect
  <2> HIDE DEF e
  <2>2. Fresh(e)
    BY <1>0, <1>1, <2>1 DEF Kept, Fresh
  <2> QED BY <2>2 DEF e
<1>5. CASE s.do \in MappingStatements
  <2>1. /\ Kept(d, e, {"mapping", "deleted"}) /\ \A k : k # s.key => e.mapping[k] = d.mapping[k]
        /\ e.deleted \in {d.deleted, d.deleted + 1} /\ DOMAIN e.mapping = Keys
        /\ s.key \in Keys => IsFiniteSet(DOMAIN e.mapping[s.key])
    BY <1>0, <1>5, MappingEffect
  <2> HIDE DEF e
  <2>2. \A k \in Keys : IsFiniteSet(DOMAIN e.mapping[k])
    BY <1>0, <2>1
  <2>3. Fresh(e)
    BY <1>0, <1>1, <2>1, <2>2 DEF Kept, Fresh, RowsFinite
  <2> QED BY <2>3 DEF e
<1>6. CASE s.do = "add view"
  <2>1. /\ Kept(d, e, {"views", "deleted"})
        /\ \/ e = d
           \/ /\ e.views = Put(d.views, s.view, [of |-> s.key, id |-> d.deleted])
              /\ e.deleted = d.deleted
    <3>1. s.do \in ViewStatements
      BY <1>6 DEF ViewStatements
    <3>2. /\ Kept(d, e, {"views", "deleted"})
          /\ \/ e = d
             \/ /\ s.do = "add view" /\ s.view \notin DOMAIN d.views
                /\ e.views = Put(d.views, s.view, [of |-> s.key, id |-> d.deleted])
                /\ e.deleted = d.deleted
             \/ /\ s.do = "delete view" /\ s.view \in DOMAIN d.views /\ d.views[s.view].id = s.id
                /\ e.views = Without(d.views, {s.view})
                /\ e.deleted = d.deleted + 1
             \/ /\ s.do = "delete views"
                /\ e.views = Without(d.views, viewsOf(d, s.key))
                /\ e.deleted = d.deleted + 1
      BY <1>0, <3>1, ViewEffect
    <3> HIDE DEF e
    <3> QED BY <1>6, <3>2
  <2> HIDE DEF e
  <2>2. \A v \in DOMAIN e.views : e.views[v].id \in Nat /\ e.views[v].id <= e.deleted
    <3>1. CASE e = d
      BY <1>0, <3>1
    <3>2. CASE /\ e.views = Put(d.views, s.view, [of |-> s.key, id |-> d.deleted])
               /\ e.deleted = d.deleted
      BY <1>0, <3>2 DEF Put
    <3> QED BY <2>1, <3>1, <3>2
  <2>3. Fresh(e)
    BY <1>0, <1>1, <2>1, <2>2 DEF Kept, Fresh, RowsFinite
  <2> QED BY <2>3 DEF e
<1> QED BY <1>2, <1>3, <1>4, <1>5, <1>6 DEF TableStatements, RegistryStatements, MappingStatements

\* The database after each of the first n statements.
Steps(f, todo, n) == f = [i \in 0..n |-> IF i = 0 THEN AtFirst ELSE Effect(f[i - 1], todo[i])]

LEMMA StepsExist ==
  ASSUME NEW todo, NEW n \in Nat
  PROVE  \E f : Steps(f, todo, n)
<1> DEFINE W(i, d) == Effect(d, todo[i])
           A == AtFirst
           G == {k \in Nat : \E f : Steps(f, todo, k)}
<1>1. 0 \in G
  <2>1. Steps([i \in 0..0 |-> A], todo, 0)
    BY DEF Steps
  <2> QED BY <2>1
<1>2. ASSUME NEW k \in Nat, k \in G PROVE k + 1 \in G
  <2>1. PICK f : Steps(f, todo, k)
    BY <1>2
  <2> DEFINE g == [i \in 0..k+1 |-> IF i = 0 THEN A ELSE W(i, f[i - 1])]
  <2>2. f = [i \in 0..k |-> IF i = 0 THEN A ELSE W(i, f[i - 1])]
    BY <2>1 DEF Steps
  <2> HIDE DEF W, A
  <2>3. \A i \in 0..k : g[i] = f[i]
    BY <2>2
  <2>4. \A i \in 0..k+1 : i # 0 => i - 1 \in 0..k
    OBVIOUS
  <2>5. g = [i \in 0..k+1 |-> IF i = 0 THEN A ELSE W(i, g[i - 1])]
    <3>1. \A i \in 0..k+1 : i # 0 => g[i - 1] = f[i - 1]
      BY <2>3, <2>4
    <3> QED BY <3>1
  <2>6. Steps(g, todo, k + 1)
    BY <2>5 DEF Steps, W, A
  <2> QED BY <2>6
<1> HIDE DEF G
<1>3. n \in G
  BY <1>1, <1>2, SetInduction
<1> QED BY <1>3 DEF G

LEMMA StepsFresh ==
  ASSUME NEW k, NEW todo, PlanFits("create", k, todo), NEW f, Steps(f, todo, Len(todo))
  PROVE  Fresh(f[Len(todo)])
<1> DEFINE N == Len(todo)
           G == {n \in Nat : n \in 0..N => Fresh(f[n])}
<1>1. N \in Nat /\ DOMAIN todo = 1..N
  BY DEF PlanFits, IsSeq
<1>2. \A i \in 1..N : Fits("create", todo[i].key, todo[i])
  BY <1>1 DEF PlanFits, Member, Fits
<1>3. f[0] = AtFirst /\ \A i \in 1..N : f[i] = Effect(f[i - 1], todo[i])
  BY <1>1 DEF Steps
<1> HIDE DEF N
<1>4. 0 \in G
  BY <1>3, AtFirstFresh
<1>5. ASSUME NEW n \in Nat, n \in G PROVE n + 1 \in G
  <2> SUFFICES ASSUME n + 1 \in 0..N PROVE Fresh(f[n + 1])
    OBVIOUS
  <2>1. n \in 0..N /\ n + 1 \in 1..N /\ (n + 1) - 1 = n
    BY <1>1
  <2>2. Fresh(f[n])
    BY <1>5, <2>1
  <2>3. f[n + 1] = Effect(f[n], todo[n + 1])
    BY <1>3, <2>1
  <2>4. Fresh(Effect(f[n], todo[n + 1]))
    BY <1>2, <2>1, <2>2, EffectFresh
  <2> QED BY <2>3, <2>4
<1> HIDE DEF G
<1>6. N \in G
  BY <1>1, <1>4, <1>5, SetInduction
<1> QED BY <1>1, <1>6 DEF G, N

LEMMA PartFits ==
  ASSUME NEW kind, NEW k, NEW q, PlanFits(kind, k, q), NEW m \in Nat \ {0}, NEW n \in Nat, n <= Len(q)
  PROVE  PlanFits(kind, k, SubSeq(q, m, n))
<1> DEFINE S == {q[i] : i \in DOMAIN q}
           p == SubSeq(q, m, n)
<1>1. DOMAIN q = 1..Len(q) /\ Len(q) \in Nat
  BY DEF PlanFits, IsSeq
<1>2. \A i \in m..n : q[i] \in S
  BY <1>1
<1>3. p \in Seq(S)
  BY <1>2, SubSeqProperties
<1>4. \A x \in S : Fits(kind, k, x)
  BY DEF PlanFits, Member
<1> HIDE DEF S, p
<1>5. IsSeq(p) /\ \A i \in DOMAIN p : p[i] \in S
  BY <1>3 DEF IsSeq
<1> QED BY <1>4, <1>5 DEF PlanFits, Member, p

LEMMA CreatePlanLength ==
  ASSUME NEW c, Len(c.fields) \in Nat
  PROVE  Len(createPlan(c)) \in Nat /\ 2 <= Len(createPlan(c))
<1> DEFINE fields == resolveFields(c.fields)
           seed(f) == <<SeedMapping(c.key, f)>>
           x == [do |-> "create table", key |-> c.key,
                 columns |-> [col \in KeysOf(fields) |-> (CHOOSE f \in ToSet(fields) : f.key = col).type]]
           y == [do |-> "register", key |-> c.key, source |-> c.source, keyColumn |-> c.keyColumn,
                 fields |-> fields]
           z == [do |-> "add view", key |-> c.key, view |-> RegisterKey(c.key)]
           seqs == [i \in DOMAIN fields |-> seed(fields[i])]
           mid == FlattenSeq(seqs)
<1>1. createPlan(c) = <<x, y>> \o mid \o <<z>>
  BY DEF createPlan, Each
<1>2. IsSeq(fields)
  BY DesiredAreListed DEF resolveFields
<1> HIDE DEF x, y, z, fields
<1>3. \A f : PlanFits("create", c.key, seed(f))
  <2>1. \A f : Fits("create", c.key, SeedMapping(c.key, f))
    BY DEF Fits, Duty, SeedMapping
  <2> QED BY <2>1, TupleIsSeq DEF PlanFits
<1>4. IsSeq(seqs) /\ \A i \in DOMAIN seqs : PlanFits("create", c.key, seqs[i])
  <2> HIDE DEF seed
  <2> QED BY <1>2, <1>3, AlikeIsSeq
<1> HIDE DEF seqs
<1>5. IsSeq(mid)
  BY <1>4, FlattenFits DEF PlanFits
<1> HIDE DEF mid
<1>6. Len(<<x, y>> \o mid) = 2 + Len(mid) /\ IsSeq(<<x, y>> \o mid) /\ Len(mid) \in Nat
  <2>1. IsSeq(<<x, y>>) /\ Len(<<x, y>>) = 2
    BY TupleIsSeq
  <2>2. Len(mid) \in Nat
    BY <1>5 DEF IsSeq
  <2> QED BY <1>5, <2>1, <2>2, Concat
<1>7. Len((<<x, y>> \o mid) \o <<z>>) = 2 + Len(mid) + 1
  <2>1. IsSeq(<<z>>) /\ Len(<<z>>) = 1
    BY TupleIsSeq
  <2> DEFINE h == <<x, y>> \o mid
  <2>2. IsSeq(h) /\ Len(h) = 2 + Len(mid)
    BY <1>6
  <2> HIDE DEF h
  <2>3. Len(h \o <<z>>) = Len(h) + Len(<<z>>)
    BY <2>1, <2>2, Concat
  <2> QED BY <2>1, <2>2, <2>3 DEF h
<1> QED BY <1>1, <1>6, <1>7

LEMMA CreatedFresh ==
  ASSUME NEW c \in Existing
  PROVE  Fresh(Created(c))
<1> DEFINE plan == createPlan(c)
           found == Found(AtFirst, plan[2])
           head == SubSeq(plan, 1, 2)
           rest == SubSeq(plan, 3, Len(plan))
           todo == head \o found \o rest
<1>1. PlanFits("create", c.key, plan) /\ Len(plan) \in Nat /\ 2 <= Len(plan)
  BY SubmittedAssumption, CreatePlanFits, CreatePlanLength
<1> HIDE DEF plan
<1>2. PlanFits("create", c.key, head) /\ PlanFits("create", c.key, rest)
  BY <1>1, PartFits
<1>3. PlanFits("create", c.key, found)
  <2>1. Fits("create", c.key, plan[2])
    <3>1. DOMAIN plan = 1..Len(plan)
      BY <1>1 DEF PlanFits, IsSeq
    <3>2. 2 \in DOMAIN plan
      BY <1>1, <3>1
    <3> QED BY <1>1, <3>2 DEF PlanFits, Member
  <2>2. /\ c.key \in DOMAIN AtFirst.registry => IsFiniteSet(DOMAIN AtFirst.registry[c.key].fields)
        /\ IsFiniteSet(DOMAIN AtFirst.charts) /\ IsFiniteSet(DOMAIN AtFirst.matviews)
    BY AtFirstFresh, NoneFinite DEF Fresh, RowsFinite
  <2> QED BY <2>1, <2>2, FoundFits
<1> HIDE DEF found, head, rest
<1>4. PlanFits("create", c.key, todo)
  BY <1>2, <1>3, JoinedPlans
<1>5. Created(c) = (CHOOSE f : Steps(f, todo, Len(todo)))[Len(todo)]
  BY DEF Created, Steps, plan, found, head, rest
<1> HIDE DEF todo
<1>6. Len(todo) \in Nat
  BY <1>4 DEF PlanFits, IsSeq
<1>7. Steps(CHOOSE f : Steps(f, todo, Len(todo)), todo, Len(todo))
  BY <1>6, StepsExist
<1> QED BY <1>4, <1>5, <1>7, StepsFresh

LEMMA InitInv == Init => AdminInv
<1> SUFFICES ASSUME Init PROVE AdminInv
  OBVIOUS
<1>1. Fresh(db)
  BY AtFirstFresh, CreatedFresh DEF Init
<1>2. ops = [a \in Admins |-> Idle] /\ syncing = {} /\ catalog = <<>> /\ reader = Idle
      /\ hist = [hurt |-> [k \in Keys |-> {}], stale |-> {}, loose |-> {}, born |-> {}, freed |-> {}]
  BY DEF Init
<1>3. DOMAIN hist = HistParts /\ hist.born = {} /\ DOMAIN catalog = {}
      /\ DOMAIN ops = Admins /\ \A a \in Admins : ops[a] = Idle
  BY <1>2, NoneFinite DEF HistParts
<1>4. Shape
  BY <1>1, <1>2, <1>3 DEF Shape, Fresh
<1>5. Finite
  BY <1>1, <1>3, FS_EmptySet DEF Finite, Fresh
<1>6. Planned /\ Cached /\ Noticed /\ Removals
  BY <1>2, <1>3 DEF Planned, Cached, Noticed, Removals
<1>7. Owned
  BY <1>1, <1>3 DEF Owned, Fresh
<1> QED BY <1>4, <1>5, <1>6, <1>7 DEF AdminInv

-----------------------------------------------------------------------------
(* Every step, and what the program promises.                               *)

LEMMA StutterInv ==
  ASSUME AdminInv, UNCHANGED vars
  PROVE  AdminInv'
<1>1. /\ db' = db /\ ops' = ops /\ syncing' = syncing /\ catalog' = catalog /\ reader' = reader
      /\ hist' = hist
  BY DEF vars
<1>2. Grown
  BY <1>1, SameIsGrown DEF AdminInv, Shape
<1>3. /\ DOMAIN ops' = Admins
      /\ \A b \in Admins : Follows(ops[b], ops'[b]) /\ Unsynced(ops'[b])
      /\ \A k : Clearing(k) => Clearing(k)'
  BY <1>1, SameOps
<1>4. Cached'
  BY <1>1, <1>3, CachedKept DEF AdminInv
<1>5. reader' = Idle \/ (DOMAIN reader' = {"kind", "key", "fields", "late"} /\ reader'.kind = "reading")
  BY <1>1 DEF AdminInv, Shape
<1> QED BY <1>2, <1>3, <1>4, <1>5, GrownInv DEF AdminInv

\* A step is one of these.
LEMMA StepKinds ==
  ASSUME [Next]_vars
  PROVE  \/ \E a \in Admins : Request(a) \/ Statement(a) \/ Done(a) \/ Fails(a)
         \/ \E k : StartSync(k)
         \/ \E k : EndSync(k)
         \/ (\E k : forDataset(k)) \/ KeepCatalog
         \/ \E c : \E on \in {<<"dataset", k>> : k \in DOMAIN db.registry}
                            \cup {<<"view", v>> : v \in DOMAIN db.views} : AddChart(c, on)
         \/ \E c, col : BuildMatview(c, col)
         \/ UNCHANGED vars
BY DEF Next

LEMMA NextInv ==
  ASSUME AdminInv, [Next]_vars
  PROVE  AdminInv'
<1>1. CASE \E a \in Admins : Request(a)
  <2>1. PICK a \in Admins : Request(a)
    BY <1>1
  <2>2. PICK kind, k, request, todo : Begun(a, kind, k, request, todo)
    BY <2>1, Requested DEF AdminInv
  <2> QED BY <2>2, BegunInv
<1>2. CASE \E a \in Admins : Statement(a)
  BY <1>2, StatementInv
<1>3. CASE \E a \in Admins : Done(a)
  BY <1>3, DoneInv
<1>4. CASE \E a \in Admins : Fails(a)
  BY <1>4, FailsInv
<1>5. CASE \E k : StartSync(k)
  BY <1>5, StartSyncInv
<1>6. CASE \E k : EndSync(k)
  BY <1>6, EndSyncInv
<1>7. CASE (\E k : forDataset(k)) \/ KeepCatalog
  BY <1>7, ReadingInv
<1>8. CASE \E c : \E on \in {<<"dataset", k>> : k \in DOMAIN db.registry}
                           \cup {<<"view", v>> : v \in DOMAIN db.views} : AddChart(c, on)
  BY <1>8, AddChartInv
<1>9. CASE \E c, col : BuildMatview(c, col)
  BY <1>9, BuildMatviewInv
<1>10. CASE UNCHANGED vars
  BY <1>10, StutterInv
<1> QED BY <1>1, <1>2, <1>3, <1>4, <1>5, <1>6, <1>7, <1>8, <1>9, <1>10, StepKinds

\* The invariant the other results rest on: what was read of a dataset is current
\* or about to be cleared, the statements to come touch their dataset's things
\* only, and a removal that is alone still has all to do that is left of the
\* dataset (datasets.service.ts, catalog.service.ts).
THEOREM AdministrationInvariant == Spec => []AdminInv
<1>1. Init => AdminInv
  BY InitInv
<1>2. AdminInv /\ [Next]_vars => AdminInv'
  BY NextInv
<1> QED BY <1>1, <1>2, PTL DEF Spec

\* A cached catalogue has the fields of its dataset whenever no operation is
\* under way on it and none has failed, unless it was read before an edit was
\* done and stored after (forDataset, invalidate).
THEOREM CatalogueIsCurrent == Spec => []CatalogCoherent
<1>1. AdminInv => CatalogCoherent
  <2> SUFFICES ASSUME AdminInv, NEW k \in DOMAIN catalog, ~catalog[k].late, ~Changing(k), k \notin hist.stale
               PROVE  k \in DOMAIN db.registry /\ catalog[k].fields = db.registry[k].fields
    BY DEF CatalogCoherent
  <2>1. ~Clearing(k)
    BY DEF Clearing, Changing, clearing, shaping
  <2>2. Agrees(k, catalog[k].fields, catalog[k].late)
    BY DEF AdminInv, Cached
  <2> QED BY <2>1, <2>2 DEF Agrees
<1> QED BY <1>1, AdministrationInvariant, PTL

\* While a removal ends, nothing else happens to the database.
LEMMA EndedAlone ==
  ASSUME AdminInv, [Next]_vars, NEW a \in Admins, Ended(a)
  PROVE  db' = db
<1>0. ops[a] # Idle /\ ops[a].todo = <<>> /\ ops'[a] = Idle
  BY DEF Ended
<1>1. CASE \E b \in Admins : Request(b)
  <2>1. PICK b \in Admins : Request(b)
    BY <1>1
  <2>2. PICK kind, k, request, todo : Begun(b, kind, k, request, todo)
    BY <2>1, Requested DEF AdminInv
  <2> QED BY <2>2 DEF Begun, Begin
<1>2. CASE \E b \in Admins : Statement(b)
  <2>1. PICK b \in Admins : Statement(b)
    BY <1>2
  <2>2. PICK op, s : op = ops[b] /\ s = Head(op.todo)
    OBVIOUS
  <2>3. Stepped(b, op, s)
    BY <2>1, <2>2, StatementFacts
  <2>4. ops'[b] # Idle /\ \A x \in Admins \ {b} : ops'[x] = ops[x]
    BY <2>3 DEF Stepped
  <2> QED BY <1>0, <2>4
<1>3. CASE \E b \in Admins : Done(b) \/ Fails(b)
  BY <1>3 DEF Done, Fails
<1>4. CASE \E k : StartSync(k)
  <2>1. PICK k : ops' = Joined(k, ops, "synced")
    BY <1>4 DEF StartSync
  <2>2. Carried(ops[a], Joined(k, ops, "synced")[a])
    BY JoinedCarries DEF AdminInv
  <2> QED BY <1>0, <2>1, <2>2, CarriedFacts
<1>5. CASE \E k : EndSync(k)
  BY <1>0, <1>5 DEF EndSync
<1>6. CASE (\E k : forDataset(k)) \/ KeepCatalog
  BY <1>6 DEF forDataset, KeepCatalog
<1>7. CASE \E c : \E on \in {<<"dataset", k>> : k \in DOMAIN db.registry}
                           \cup {<<"view", v>> : v \in DOMAIN db.views} : AddChart(c, on)
  <2>1. PICK c, on : AddChart(c, on)
    BY <1>7
  <2>2. PICK k : k = datasetOf(on)
    OBVIOUS
  <2>3. ops' = Joined(k, ops, "synced")
    BY <2>1, <2>2 DEF AddChart
  <2>4. Carried(ops[a], Joined(k, ops, "synced")[a])
    BY JoinedCarries DEF AdminInv
  <2> QED BY <1>0, <2>3, <2>4, CarriedFacts
<1>8. CASE \E c, col : BuildMatview(c, col)
  BY <1>0, <1>8 DEF BuildMatview
<1>9. CASE UNCHANGED vars
  BY <1>9 DEF vars
<1> QED BY <1>1, <1>2, <1>3, <1>4, <1>5, <1>6, <1>7, <1>8, <1>9, StepKinds

LEMMA NothingRemains ==
  ASSUME AdminInv, NEW op, Remainder(op), op.todo = <<>>
  PROVE  ~Remains(db, op.key) /\ op.request \cap DOMAIN db.charts = {}
<1>1. \A s : ~Member(s, op.todo)
  BY TupleIsSeq
<1>2. \A do : ~Awaits(op, do)
  BY <1>1 DEF Awaits
<1>3. /\ op.key \notin DOMAIN db.tables /\ op.key \notin DOMAIN db.registry
      /\ db.mapping[op.key] = <<>> /\ viewsOf(db, op.key) = {} /\ op.key \notin db.pipes
      /\ op.request \cap DOMAIN db.charts = {}
  BY <1>1, <1>2 DEF Remainder
<1>4. dependents(db, op.key) = {}
  BY <1>3 DEF dependents, AdminInv, Owned
<1> QED BY <1>3, <1>4 DEF Remains

\* A removal that ends well, of which no other operation and no run of the pipe
\* knew, leaves no table, field, mapping, view, pipe, matview or chart (remove).
THEOREM RemovalsAreClean == Spec => CleanRemoval
<1>1. ASSUME AdminInv, [Next]_vars, NEW a \in Admins, Ended(a), ops[a].kind = "remove", Alone(a)
      PROVE  ~Remains(db', ops[a].key) /\ ops[a].request \cap DOMAIN db'.charts = {}
  <2>1. PICK op : op = ops[a]
    OBVIOUS
  <2>2. Remainder(op) /\ op.todo = <<>>
    BY <1>1, <2>1 DEF AdminInv, Removals, Ended
  <2>3. ~Remains(db, op.key) /\ op.request \cap DOMAIN db.charts = {}
    BY <1>1, <2>2, NothingRemains
  <2>4. db' = db
    BY <1>1, EndedAlone
  <2> QED BY <2>1, <2>3, <2>4 DEF Remains, dependents, viewsOf
<1>2. AdminInv /\ [Next]_vars =>
        \A a \in Admins :
          Ended(a) /\ ops[a].kind = "remove" /\ Alone(a) =>
            ~Remains(db', ops[a].key) /\ ops[a].request \cap DOMAIN db'.charts = {}
  BY <1>1
<1> QED BY <1>2, AdministrationInvariant, PTL DEF Spec, CleanRemoval

\* Two places that are each a dataset's, apart from views there were.
LEMMA PlacesApart ==
  ASSUME NEW j, NEW k, j # k, NEW on \in placesKept(db, k)
  PROVE  ~OwnPlace(on, j)
<1> SUFFICES ASSUME OwnPlace(on, j) PROVE FALSE
  OBVIOUS
<1>1. on \in placesOf(db, k) /\ \A v \in hist.freed : on # <<"view", v>>
  BY DEF placesKept
<1>2. on = <<"dataset", k>> \/ \E v \in viewsOf(db, k) : on = <<"view", v>>
  BY <1>1 DEF placesOf
<1>3. on = <<"dataset", j>> \/ \E v \in hist.freed \cup viewsOf(db, j) : on = <<"view", v>>
  BY DEF OwnPlace
<1>4. CASE on = <<"dataset", k>>
  BY <1>3, <1>4
<1>5. CASE \E v \in viewsOf(db, k) : on = <<"view", v>>
  <2>1. PICK v \in viewsOf(db, k) : on = <<"view", v>>
    BY <1>5
  <2>2. PICK w \in hist.freed \cup viewsOf(db, j) : on = <<"view", w>>
    BY <1>3, <2>1
  <2>3. v = w /\ w \in viewsOf(db, j)
    BY <1>1, <2>1, <2>2
  <2> QED BY <2>1, <2>3 DEF viewsOf
<1> QED BY <1>2, <1>4, <1>5

\* The parts Of consists of.
LEMMA OfParts ==
  ASSUME NEW k, k \in DOMAIN db'.registry <=> k \in DOMAIN db.registry,
         fieldsOf(db', k) = fieldsOf(db, k), columnsOf(db', k) = columnsOf(db, k),
         rowsOf(db', k) = rowsOf(db, k), db'.mapping[k] = db.mapping[k],
         viewsOf(db', k) = viewsOf(db, k), placesKept(db', k) = placesKept(db, k),
         \A c : c \in chartsOn(db', placesKept(db, k)) <=> c \in chartsOn(db, placesKept(db, k)),
         \A c \in chartsOn(db, placesKept(db, k)) : c \in DOMAIN db'.matviews <=> c \in DOMAIN db.matviews
  PROVE  Of(db', k) = Of(db, k)
<1>1. chartsOn(db', placesKept(db', k)) = chartsOn(db, placesKept(db, k))
  OBVIOUS
<1>2. chartsOn(db', placesKept(db', k)) \cap DOMAIN db'.matviews
        = chartsOn(db, placesKept(db, k)) \cap DOMAIN db.matviews
  BY <1>1
<1>3. (k \in DOMAIN db'.registry) = (k \in DOMAIN db.registry)
  OBVIOUS
<1> QED BY <1>1, <1>2, <1>3 DEF Of

LEMMA StatementSpares ==
  ASSUME AdminInv, NEW a \in Admins, NEW op, NEW s, Stepped(a, op, s), NEW k, k # op.key
  PROVE  Of(db', k) = Of(db, k)
<1>1. Frame(db, db', op.key) /\ OnlyOwn(s) /\ s.key = op.key /\ Parts(db, s, db')
  BY DEF Stepped
<1>2. SameAt(db'.tables, db.tables, k) /\ SameAt(db'.registry, db.registry, k)
      /\ db'.mapping[k] = db.mapping[k]
  BY <1>1 DEF Frame
<1>3. /\ k \in DOMAIN db'.registry <=> k \in DOMAIN db.registry
      /\ fieldsOf(db', k) = fieldsOf(db, k) /\ columnsOf(db', k) = columnsOf(db, k)
      /\ rowsOf(db', k) = rowsOf(db, k)
  BY <1>2 DEF SameAt, fieldsOf, columnsOf, rowsOf
<1>4. viewsOf(db', k) = viewsOf(db, k) /\ placesOf(db', k) = placesOf(db, k)
  BY <1>1, FrameReaches
<1>5. placesKept(db', k) = placesKept(db, k)
  BY <1>4 DEF placesKept
<1> DEFINE P == placesKept(db, k)
<1>6. ASSUME NEW c \in chartsOn(db, P) PROVE ~OwnChart(c, op.key)
  <2>1. c \in DOMAIN db.charts /\ db.charts[c].on \in P
    BY <1>6 DEF chartsOn
  <2>2. ~OwnPlace(db.charts[c].on, op.key)
    BY <2>1, PlacesApart
  <2> QED BY <2>1, <2>2 DEF OwnChart
<1> HIDE DEF P
<1>7. ASSUME NEW c PROVE c \in chartsOn(db', P) <=> c \in chartsOn(db, P)
  <2>1. c \in chartsOn(db', P) => c \in chartsOn(db, P)
    BY <1>1 DEF Frame, chartsOn
  <2>2. ASSUME c \in chartsOn(db, P) PROVE c \in chartsOn(db', P)
    <3>1. c \in DOMAIN db.charts /\ db.charts[c].on \in P /\ ~OwnChart(c, op.key)
      BY <1>6, <2>2 DEF chartsOn
    <3>2. c \in DOMAIN db'.charts
      <4>1. CASE s.do = "delete charts"
        <5>1. c \notin s.charts
          BY <1>1, <3>1, <4>1 DEF OnlyOwn
        <5>2. db'.charts = Without(db.charts, s.charts)
          BY <1>1, <4>1 DEF Parts
        <5> QED BY <3>1, <5>1, <5>2 DEF Without
      <4>2. CASE s.do # "delete charts"
        <5>1. db'.charts = db.charts
          BY <1>1, <4>2 DEF Parts
        <5> QED BY <3>1, <5>1
      <4> QED BY <4>1, <4>2
    <3>3. db'.charts[c] = db.charts[c]
      BY <1>1, <3>2 DEF Frame
    <3> QED BY <3>1, <3>2, <3>3 DEF chartsOn
  <2> QED BY <2>1, <2>2
<1>8. ASSUME NEW c \in chartsOn(db, P) PROVE c \in DOMAIN db'.matviews <=> c \in DOMAIN db.matviews
  <2>1. CASE s.do = "drop matview"
    <3>1. c # s.chart
      BY <1>1, <1>6, <1>8, <2>1 DEF OnlyOwn
    <3>2. db'.matviews = Without(db.matviews, {s.chart})
      BY <1>1, <2>1 DEF Parts
    <3> QED BY <3>1, <3>2 DEF Without
  <2>2. CASE s.do # "drop matview"
    <3>1. db'.matviews = db.matviews
      BY <1>1, <2>2 DEF Parts
    <3> QED BY <3>1
  <2> QED BY <2>1, <2>2
<1> QED BY <1>2, <1>3, <1>4, <1>5, <1>7, <1>8, OfParts DEF P

\* A run of a pipe leaves all of this.
LEMMA PipeSpares ==
  ASSUME Shape, NEW key, StartSync(key), NEW k
  PROVE  Of(db', k) = Of(db, k)
<1>1. db' = [db EXCEPT !.pipes = @ \cup {key}] /\ DOMAIN db = DbParts
  BY DEF StartSync, Shape
<1>2. /\ db'.tables = db.tables /\ db'.registry = db.registry /\ db'.mapping = db.mapping
      /\ db'.views = db.views /\ db'.charts = db.charts /\ db'.matviews = db.matviews
  BY <1>1 DEF DbParts
<1> QED BY <1>2, OfParts DEF fieldsOf, columnsOf, rowsOf, viewsOf, placesOf, placesKept, chartsOn

\* A chart that is made is one more of its dataset's.
LEMMA ChartSpares ==
  ASSUME AdminInv, NEW c,
         NEW on \in {<<"dataset", k>> : k \in DOMAIN db.registry} \cup {<<"view", v>> : v \in DOMAIN db.views},
         AddChart(c, on), NEW k, k # datasetOf(on)
  PROVE  Of(db', k) = Of(db, k)
<1>1. db' = [db EXCEPT !.charts = Put(@, c, [on |-> on])] /\ DOMAIN db = DbParts /\ c \notin hist.born
  BY DEF AddChart, AdminInv, Shape
<1>2. /\ db'.tables = db.tables /\ db'.registry = db.registry /\ db'.mapping = db.mapping
      /\ db'.views = db.views /\ db'.matviews = db.matviews
      /\ db'.charts = Put(db.charts, c, [on |-> on])
  BY <1>1 DEF DbParts
<1>3. /\ fieldsOf(db', k) = fieldsOf(db, k) /\ columnsOf(db', k) = columnsOf(db, k)
      /\ rowsOf(db', k) = rowsOf(db, k) /\ viewsOf(db', k) = viewsOf(db, k)
      /\ placesKept(db', k) = placesKept(db, k)
  BY <1>2 DEF fieldsOf, columnsOf, rowsOf, viewsOf, placesOf, placesKept
<1>4. on \notin placesKept(db, k)
  <2> SUFFICES ASSUME on \in placesKept(db, k) PROVE FALSE
    OBVIOUS
  <2>1. PICK j : j = datasetOf(on)
    OBVIOUS
  <2>2. Placed(on)
    BY DEF Placed
  <2>3. OwnPlace(on, j)
    BY <2>1, <2>2, PlacedIsOwn
  <2> QED BY <2>1, <2>3, PlacesApart
<1> DEFINE P == placesKept(db, k)
<1> HIDE DEF P
<1>5. c \notin DOMAIN db.charts /\ c \notin DOMAIN db.matviews
  BY <1>1 DEF AdminInv, Finite
<1>6. ASSUME NEW b PROVE b \in chartsOn(db', P) <=> b \in chartsOn(db, P)
  <2>1. CASE b = c
    <3>1. db'.charts[c].on = on
      BY <1>2 DEF Put
    <3> QED BY <1>4, <1>5, <2>1, <3>1 DEF chartsOn, P
  <2>2. CASE b # c
    <3>1. (b \in DOMAIN db'.charts <=> b \in DOMAIN db.charts)
          /\ (b \in DOMAIN db.charts => db'.charts[b] = db.charts[b])
      BY <1>2, <2>2 DEF Put
    <3> QED BY <3>1 DEF chartsOn
  <2> QED BY <2>1, <2>2
<1> QED BY <1>2, <1>3, <1>6, OfParts DEF P

LEMMA StepSpares ==
  ASSUME AdminInv, [Next]_vars, NEW a \in Admins, ops[a] # Idle, ops[a] # ops'[a], db' # db,
         NEW k, k # ops[a].key
  PROVE  Of(db', k) = Of(db, k)
<1>1. CASE \E b \in Admins : Request(b)
  <2>1. PICK b \in Admins : Request(b)
    BY <1>1
  <2>2. PICK kind, key, request, todo : Begun(b, kind, key, request, todo)
    BY <2>1, Requested DEF AdminInv
  <2> QED BY <2>2 DEF Begun, Begin
<1>2. CASE \E b \in Admins : Statement(b)
  <2>1. PICK b \in Admins : Statement(b)
    BY <1>2
  <2>2. PICK op, s : op = ops[b] /\ s = Head(op.todo)
    OBVIOUS
  <2>3. Stepped(b, op, s)
    BY <2>1, <2>2, StatementFacts
  <2>4. \A x \in Admins \ {b} : ops'[x] = ops[x]
    BY <2>3 DEF Stepped
  <2>5. k # op.key
    BY <2>2, <2>4
  <2> QED BY <2>3, <2>5, StatementSpares
<1>3. CASE \E b \in Admins : Done(b) \/ Fails(b)
  BY <1>3 DEF Done, Fails
<1>4. CASE \E key : StartSync(key)
  BY <1>4, PipeSpares DEF AdminInv
<1>5. CASE \E key : EndSync(key)
  BY <1>5 DEF EndSync
<1>6. CASE (\E key : forDataset(key)) \/ KeepCatalog
  BY <1>6 DEF forDataset, KeepCatalog
<1>7. CASE \E c : \E on \in {<<"dataset", j>> : j \in DOMAIN db.registry}
                           \cup {<<"view", v>> : v \in DOMAIN db.views} : AddChart(c, on)
  <2>1. PICK c : \E on \in {<<"dataset", j>> : j \in DOMAIN db.registry}
                           \cup {<<"view", v>> : v \in DOMAIN db.views} : AddChart(c, on)
    BY <1>7
  <2>2. PICK on \in {<<"dataset", j>> : j \in DOMAIN db.registry}
                    \cup {<<"view", v>> : v \in DOMAIN db.views} : AddChart(c, on)
    BY <2>1
  <2>3. PICK key : key = datasetOf(on)
    OBVIOUS
  <2>4. ops' = Joined(key, ops, "synced")
    BY <2>2, <2>3 DEF AddChart
  <2>5. ~(ops[a] # Idle /\ ops[a].key = key) => Joined(key, ops, "synced")[a] = ops[a]
    BY JoinedCarries DEF AdminInv
  <2>6. ops[a].key = key
    BY <2>4, <2>5
  <2> QED BY <2>2, <2>3, <2>6, ChartSpares
<1>8. CASE \E c, col : BuildMatview(c, col)
  BY <1>8 DEF BuildMatview
<1>9. CASE UNCHANGED vars
  BY <1>9 DEF vars
<1> QED BY <1>1, <1>2, <1>3, <1>4, <1>5, <1>6, <1>7, <1>8, <1>9, StepKinds

\* A statement of an operation on one dataset leaves every other dataset as it
\* was, its table, fields, mapping and views, and the charts and matviews on it
\* and on its views, except those under a name that was a removed view's.
THEOREM OtherDatasetsSpared == Spec => OthersSpared
<1>1. AdminInv /\ [Next]_vars =>
        \A a \in Admins :
          ops[a] # Idle /\ ops[a] # ops'[a] /\ db' # db /\ begun' = begun =>
            \A k \in Keys \ {ops[a].key} : Of(db', k) = Of(db, k)
  <2> SUFFICES ASSUME AdminInv, [Next]_vars, NEW a \in Admins,
                      ops[a] # Idle, ops[a] # ops'[a], db' # db,
                      NEW k \in Keys \ {ops[a].key}
               PROVE  Of(db', k) = Of(db, k)
    OBVIOUS
  <2> QED BY StepSpares
<1> QED BY <1>1, AdministrationInvariant, PTL DEF Spec, OthersSpared

-----------------------------------------------------------------------------
(* Imports.                                                                 *)

\* The list of a set has all of it.
LEMMA AllListed ==
  ASSUME NEW S, IsFiniteSet(S), NEW x \in S
  PROVE  \E i \in 1..Len(SetToSeq(S)) : SetToSeq(S)[i] = x
<1> DEFINE n == Cardinality(S)
           f == SetToSeq(S)
<1>1. n \in Nat /\ ExistsBijection(1..n, S)
  BY FS_CardinalityType
<1>2. \E g \in [1..n -> S] : IsInjective(g)
  BY <1>1 DEF ExistsBijection, Bijection, Injection
<1>3. f \in [1..n -> S] /\ IsInjective(f)
  BY <1>2 DEF SetToSeq
<1> HIDE DEF f
<1>4. Cardinality(1..n) = n
  <2> HIDE DEF n
  <2>1. Cardinality(1..n) = IF 1 > n THEN 0 ELSE n - 1 + 1
    BY <1>1, FS_Interval
  <2> QED BY <1>1, <2>1
<1>5. f \in Injection(1..n, S)
  BY <1>3 DEF Injection
<1>6. f \in Surjection(1..n, S)
  BY <1>4, <1>5, FS_Injection
<1>7. Len(f) = n
  BY <1>1, <1>3
<1> QED BY <1>6, <1>7 DEF Surjection, f

LEMMA Batches ==
  ASSUME NEW N \in Nat, NEW B \in Nat \ {0}
  PROVE  LET q == (N + B - 1) \div B
         IN /\ q \in Nat /\ N <= q * B
            /\ \A b \in 1..q : (b - 1) * B + 1 <= N
<1> DEFINE q == (N + B - 1) \div B
<1>1. q \in Int /\ q * B <= N + B - 1 /\ N + B - 1 < q * B + B
  OBVIOUS
<1>2. q \in Nat
  OBVIOUS
<1> HIDE DEF q
<1>3. N <= q * B
  BY <1>1
<1>4. ASSUME NEW b \in 1..q PROVE (b - 1) * B + 1 <= N
  <2>1. (b - 1) * B <= (q - 1) * B
    BY <1>2
  <2>2. (q - 1) * B = q * B - B
    BY <1>2
  <2>3. (b - 1) * B \in Int /\ q * B \in Int
    BY <1>2
  <2> QED BY <1>1, <2>1, <2>2, <2>3
<1> QED BY <1>2, <1>3, <1>4 DEF q

\* The batch a row is in.
LEMMA InABatch ==
  ASSUME NEW N \in Nat, NEW B \in Nat \ {0}, NEW q \in Nat, N <= q * B, NEW i \in 1..N
  PROVE  \E b \in 1..q : (b - 1) * B + 1 <= i /\ i <= b * B
<1> DEFINE T == {b \in Nat : i <= b * B}
<1>1. q \in T
  <2>1. q * B \in Nat
    OBVIOUS
  <2> QED BY <2>1
<1>2. PICK m \in T : \A b \in T : m <= b
  BY <1>1, Smallest
<1>3. m # 0
  BY <1>2
<1>4. m - 1 \in Nat /\ ~(i <= (m - 1) * B)
  BY <1>2, <1>3
<1>5. (m - 1) * B \in Int
  BY <1>4
<1>6. m \in 1..q /\ i <= m * B
  BY <1>1, <1>2, <1>3
<1>7. (m - 1) * B + 1 <= i
  BY <1>4, <1>5
<1> QED BY <1>6, <1>7

LEMMA BatchEnds ==
  ASSUME NEW B \in Nat \ {0}, NEW b \in Nat \ {0}
  PROVE  (b - 1) * B \in Nat /\ b * B \in Nat /\ (b - 1) * B < b * B
<1>1. (b - 1) * B \in Nat /\ b * B = (b - 1) * B + B
  OBVIOUS
<1> QED BY <1>1

LEMMA BatchRange ==
  ASSUME NEW N \in Nat, NEW x \in Nat, NEW y \in Nat, y < x, y + 1 <= N,
         NEW hi, hi = Min({x, N})
  PROVE  /\ hi \in Nat /\ y + 1 <= hi /\ hi <= N
         /\ \A i \in Nat : i <= x /\ i <= N => i <= hi
<1>1. hi = IF x <= N THEN x ELSE N
  BY DEF Min
<1> QED BY <1>1

\* Every row of the file is in one of the batches, and they hold nothing else.
LEMMA PlanWrites ==
  ASSUME NEW file, IsFiniteSet(DOMAIN file.rows), NEW fields, NEW byId, byId = rowsById(file, fields)
  PROVE  /\ \A s : Member(s, importPlan(file, fields)) => Chunk(s, byId)
         /\ \A n \in DOMAIN byId : \E s : Member(s, importPlan(file, fields)) /\ n \in DOMAIN s.rows
<1> DEFINE ids == SetToSeq(DOMAIN byId)
           N == Len(ids)
           q == (N + BatchSize - 1) \div BatchSize
           In(b) == {ids[i] : i \in ((b - 1) * BatchSize + 1)..Min({b * BatchSize, N})}
           p == importPlan(file, fields)
<1>1. IsFiniteSet(DOMAIN byId)
  BY RowsAreFinite
<1>2. ids \in Seq(DOMAIN byId)
  BY <1>1, SetIsListed
<1>3. \A n \in DOMAIN byId : \E i \in 1..N : ids[i] = n
  BY <1>1, AllListed
<1>4. BatchSize \in Nat \ {0}
  BY ConstantsAssumption
<1>5. p = [b \in 1..q |-> [do |-> "upsert", key |-> file.key, rows |-> [n \in In(b) |-> byId[n]]]]
  BY DEF importPlan
<1> HIDE DEF ids, p
<1>6. N \in Nat /\ \A i \in 1..N : ids[i] \in DOMAIN byId
  BY <1>2
<1> HIDE DEF N
<1>7. q \in Nat /\ N <= q * BatchSize /\ \A b \in 1..q : (b - 1) * BatchSize + 1 <= N
  BY <1>4, <1>6, Batches
<1> HIDE DEF q
<1>8. ASSUME NEW b \in 1..q
      PROVE  \E x, y, hi : /\ x = b * BatchSize /\ y = (b - 1) * BatchSize /\ hi = Min({x, N})
                           /\ x \in Nat /\ y \in Nat /\ y < x /\ y + 1 <= N
                           /\ hi \in Nat /\ y + 1 <= hi /\ hi <= N
                           /\ In(b) = {ids[i] : i \in (y + 1)..hi}
                           /\ \A i \in Nat : i <= x /\ i <= N => i <= hi
  <2>1. PICK x, y : x = b * BatchSize /\ y = (b - 1) * BatchSize
    OBVIOUS
  <2>2. x \in Nat /\ y \in Nat /\ y < x
    BY <1>4, <1>7, <2>1, BatchEnds
  <2>3. y + 1 <= N
    BY <1>7, <2>1
  <2>4. PICK hi : hi = Min({x, N})
    OBVIOUS
  <2>5. In(b) = {ids[i] : i \in (y + 1)..hi}
    BY <2>1, <2>4
  <2> HIDE DEF In
  <2>6. hi \in Nat /\ y + 1 <= hi /\ hi <= N /\ \A i \in Nat : i <= x /\ i <= N => i <= hi
    BY <1>6, <2>2, <2>3, <2>4, BatchRange
  <2> QED BY <2>1, <2>2, <2>3, <2>4, <2>5, <2>6
<1> HIDE DEF In
<1>9. ASSUME NEW b \in 1..q PROVE Chunk(p[b], byId) /\ DOMAIN p[b].rows = In(b)
  <2>1. PICK y, hi : /\ y \in Nat /\ hi \in Nat /\ y + 1 <= hi /\ hi <= N
                     /\ In(b) = {ids[i] : i \in (y + 1)..hi}
    BY <1>8
  <2>2. In(b) # {} /\ In(b) \subseteq DOMAIN byId
    BY <1>6, <2>1
  <2>3. p[b].rows = [n \in In(b) |-> byId[n]]
    BY <1>5
  <2> QED BY <2>2, <2>3 DEF Chunk
<1>10. ASSUME NEW n \in DOMAIN byId PROVE \E b \in 1..q : n \in In(b)
  <2>1. PICK i \in 1..N : ids[i] = n
    BY <1>3, <1>10 DEF N
  <2>2. PICK b \in 1..q : (b - 1) * BatchSize + 1 <= i /\ i <= b * BatchSize
    BY <1>4, <1>6, <1>7, <2>1, InABatch
  <2>3. PICK x, y, hi : /\ x = b * BatchSize /\ y = (b - 1) * BatchSize
                        /\ x \in Nat /\ y \in Nat /\ hi \in Nat
                        /\ In(b) = {ids[j] : j \in (y + 1)..hi}
                        /\ \A j \in Nat : j <= x /\ j <= N => j <= hi
    BY <1>8
  <2>4. y + 1 <= i /\ i <= x
    BY <2>2, <2>3
  <2>5. i \in (y + 1)..hi
    BY <1>6, <2>3, <2>4
  <2> QED BY <2>1, <2>3, <2>5
<1>11. DOMAIN p = 1..q
  BY <1>5
<1> QED BY <1>9, <1>10, <1>11 DEF Member, p

\* An upsert stores its rows and keeps those of the file that were there.
LEMMA UpsertWrites ==
  ASSUME Shape, Finite, NEW s, s.do = "upsert", Works(db, s), NEW byId, NEW fields, Chunk(s, byId),
         \A n \in DOMAIN byId : DOMAIN byId[n] = DOMAIN fields
  PROVE  /\ \A n \in DOMAIN s.rows : Written(rowsOf(Effect(db, s), s.key), byId, fields, n)
         /\ \A n \in DOMAIN byId : Written(rowsOf(db, s.key), byId, fields, n) =>
              Written(rowsOf(Effect(db, s), s.key), byId, fields, n)
<1> DEFINE e == Effect(db, s)
           t == db.tables[s.key]
           old == t.rows
           new == s.rows
           Cell(n, c) == IF n \in DOMAIN new /\ c \in DOMAIN new[n] THEN new[n][c]
                         ELSE IF n \in DOMAIN old THEN old[n][c] ELSE Null
           stored == [n \in DOMAIN old \cup DOMAIN new |-> [c \in DOMAIN t.columns |-> Cell(n, c)]]
<1>1. s.key \in DOMAIN db.tables /\ \A n \in DOMAIN new : DOMAIN new[n] \subseteq DOMAIN t.columns
  BY DEF Works, columnsOf
<1>2. DOMAIN t = {"columns", "rows"}
  BY <1>1 DEF Shape, Tabled
<1>3. Upserted(t, new) = [t EXCEPT !.rows = stored]
  BY DEF Upserted
<1>4. e = [db EXCEPT !.tables[s.key] = Upserted(t, new)]
  BY Dispatch, ZenonT(90) DEF EffectOnTable, TableStatements, Shape, Finite
<1>5. rowsOf(e, s.key) = stored
  <2> HIDE DEF e, t, stored
  <2>1. s.key \in DOMAIN e.tables /\ e.tables[s.key] = Upserted(t, new)
    BY <1>1, <1>4 DEF Shape, DbParts
  <2>2. Upserted(t, new).rows = stored
    BY <1>2, <1>3
  <2> QED BY <2>1, <2>2 DEF rowsOf
<1>6. rowsOf(db, s.key) = old
  BY <1>1 DEF rowsOf
<1>7. /\ DOMAIN new # {} /\ DOMAIN new \subseteq DOMAIN byId
      /\ \A n \in DOMAIN new : new[n] = byId[n] /\ DOMAIN new[n] = DOMAIN fields
  BY DEF Chunk
<1>8. DOMAIN fields \subseteq DOMAIN t.columns
  BY <1>1, <1>7
<1> HIDE DEF e, t, old, new
<1>9. ASSUME NEW n \in DOMAIN new PROVE Written(stored, byId, fields, n)
  <2>1. \A c \in DOMAIN fields : Cell(n, c) = byId[n][c]
    BY <1>7
  <2> HIDE DEF Cell
  <2> QED BY <1>8, <2>1 DEF Written
<1>10. ASSUME NEW n \in DOMAIN byId, n \notin DOMAIN new, Written(old, byId, fields, n)
       PROVE  Written(stored, byId, fields, n)
  <2>1. n \in DOMAIN old /\ \A c \in DOMAIN fields : Cell(n, c) = byId[n][c]
    BY <1>10 DEF Written
  <2> HIDE DEF Cell
  <2> QED BY <1>8, <2>1 DEF Written
<1> HIDE DEF stored
<1> QED BY <1>5, <1>6, <1>9, <1>10 DEF e, new

\* The cells of a row of a file.
LEMMA CellsOfRows ==
  ASSUME NEW file, NEW fields, NEW n \in DOMAIN rowsById(file, fields)
  PROVE  DOMAIN rowsById(file, fields)[n] = DOMAIN fields
BY DEF rowsById

\* An operation that was there goes on with its dataset's rows as they were.
LEMMA ImportKept ==
  ASSUME NEW o, ImportGood(o), NEW p,
         p.key = o.key, p.request = o.request, p.todo = o.todo,
         o.shared => p.shared, o.synced => p.synced,
         ~p.shared /\ ~p.synced => rowsOf(db', o.key) = rowsOf(db, o.key)
  PROVE  ImportGood(p)'
<1>1. ById(p) = ById(o)
  BY DEF ById
<1>2. /\ p.request.file \in Files /\ p.request.file.key = p.key
      /\ \A s : Member(s, p.todo) => Chunk(s, ById(p))
  BY <1>1 DEF ImportGood
<1>3. ASSUME ~p.shared, ~p.synced, NEW n \in DOMAIN ById(p)
      PROVE  Stores(db', p, n) \/ \E s : Member(s, p.todo) /\ n \in DOMAIN s.rows
  <2>1. Stores(db, o, n) \/ \E s : Member(s, o.todo) /\ n \in DOMAIN s.rows
    BY <1>1, <1>3 DEF ImportGood
  <2>2. Stores(db, o, n) => Stores(db', p, n)
    BY <1>1, <1>3 DEF Stores
  <2> QED BY <2>1, <2>2
<1> QED BY <1>2, <1>3 DEF ImportGood

LEMMA BeginOp ==
  ASSUME Shape, NEW a \in Admins, NEW kind, NEW k, NEW request, NEW todo, Begin(a, kind, k, request, todo)
  PROVE  /\ ops'[a].kind = kind /\ ops'[a].key = k /\ ops'[a].request = request
         /\ ops'[a].todo = todo
<1>1. DOMAIN Joined(k, ops, "shared") = Admins
  BY JoinedCarries
<1> QED BY <1>1 DEF Begin

LEMMA ImportBegins ==
  ASSUME Shape, NEW a \in Admins, Request(a), ops'[a].kind = "import"
  PROVE  \E f \in Files : importRows(a, f)
<1> SUFFICES ASSUME ~\E f \in Files : importRows(a, f)
             PROVE  \E kind, k, request, todo : kind # "import" /\ Begin(a, kind, k, request, todo)
  BY BeginOp
<1>1. CASE \E c \in Creates : create(a, c)
  BY <1>1 DEF create
<1>2. CASE \E u \in Updates : update(a, u)
  BY <1>2 DEF update
<1>3. CASE \E k \in Keys : remove(a, k)
  BY <1>3 DEF remove
<1>4. CASE \E k \in Keys : autoMap(a, k)
  BY <1>4 DEF autoMap
<1>5. CASE \E m \in Mappings : saveMapping(a, m.key, m.set)
  BY <1>5 DEF saveMapping
<1>6. CASE \E k \in Keys, name \in Names : createView(a, k, name)
  BY <1>6 DEF createView
<1>7. CASE \E v \in DOMAIN db.views : deleteView(a, v)
  BY <1>7 DEF deleteView
<1> QED BY <1>1, <1>2, <1>3, <1>4, <1>5, <1>6, <1>7 DEF Request

LEMMA RequestImports ==
  ASSUME AdminInv, Imports, NEW a \in Admins, Request(a)
  PROVE  Imports'
<1>1. PICK kind, k, request, todo : Begun(a, kind, k, request, todo)
  BY Requested DEF AdminInv
<1>2. db' = db /\ \A b \in Admins \ {a} : Carried(ops[b], ops'[b])
  <2>1. Shape
    BY DEF AdminInv
  <2> QED BY <1>1, <2>1, BegunOps DEF Begun, Begin
<1>3. ASSUME NEW b \in Admins, b # a, ops'[b] # Idle, ops'[b].kind = "import" PROVE ImportGood(ops[b])'
  <2>1. PICK o, p : o = ops[b] /\ p = ops'[b]
    OBVIOUS
  <2>2. /\ o # Idle /\ p.kind = o.kind /\ p.key = o.key /\ p.request = o.request /\ p.todo = o.todo
        /\ o.shared => p.shared
        /\ o.synced => p.synced
    BY <1>2, <1>3, <2>1, CarriedFacts
  <2>3. ImportGood(o)
    BY <1>3, <2>1, <2>2 DEF Imports
  <2>4. ImportGood(p)'
    BY <1>2, <2>2, <2>3, ImportKept
  <2> QED BY <2>1, <2>4 DEF ImportGood, Stores, ById
<1>4. ASSUME ops'[a].kind = "import" PROVE ImportGood(ops[a])'
  <2>1. PICK f \in Files : importRows(a, f)
    BY <1>4, ImportBegins DEF AdminInv
  <2> DEFINE fields == fieldsOf(db, f.key)
             r == [file |-> f, fields |-> fields]
             plan == importPlan(f, fields)
  <2>2. Begin(a, "import", f.key, r, plan)
    BY <2>1 DEF importRows
  <2> HIDE DEF r, plan
  <2>3. PICK p : p = ops'[a]
    OBVIOUS
  <2>4. p.key = f.key /\ p.request = r /\ p.todo = plan
    BY <2>2, <2>3, BeginOp DEF AdminInv
  <2> HIDE DEF fields
  <2>5. ById(p) = rowsById(f, fields) /\ p.request.file = f
    BY <2>4 DEF ById, r
  <2>6. /\ \A s : Member(s, p.todo) => Chunk(s, ById(p))
        /\ \A n \in DOMAIN ById(p) : \E s : Member(s, p.todo) /\ n \in DOMAIN s.rows
    <3>1. IsFiniteSet(DOMAIN f.rows)
      BY FilesAreFinite
    <3> QED BY <2>4, <2>5, <3>1, PlanWrites DEF plan
  <2>7. ImportGood(p)'
    BY <2>4, <2>5, <2>6 DEF ImportGood
  <2> QED BY <2>3, <2>7 DEF ImportGood, Stores, ById
<1> QED BY <1>3, <1>4 DEF Imports

LEMMA StatementImports ==
  ASSUME AdminInv, Imports, NEW a \in Admins, Statement(a)
  PROVE  Imports'
<1>1. PICK op, s, new : op = ops[a] /\ s = Head(op.todo) /\ new = Found(db, s) \o Tail(op.todo)
  OBVIOUS
<1>2. Stepped(a, op, s)
  BY <1>1, StatementFacts
<1>3. Continues(op, s, new)
  BY <1>1, StatementTodo
<1>4. ASSUME NEW b \in Admins, b # a, ops'[b] # Idle, ops'[b].kind = "import" PROVE ImportGood(ops[b])'
  <2>1. PICK o : o = ops[b]
    OBVIOUS
  <2>2. ops'[b] = o /\ o # Idle
    BY <1>2, <1>4, <2>1 DEF Stepped
  <2>3. ImportGood(o)
    BY <1>4, <2>1, <2>2, SMTT(30) DEF Imports
  <2>4. ~o.shared => o.key # op.key
    BY <1>1, <1>2, <1>4, <2>1, <2>2 DEF AdminInv, Noticed, Stepped
  <2>5. o.key # op.key => Of(db', o.key) = Of(db, o.key)
    BY <1>2, StatementSpares
  <2>6. ~o.shared => rowsOf(db', o.key) = rowsOf(db, o.key)
    BY <2>4, <2>5 DEF Of
  <2>7. ImportGood(o)'
    BY <2>3, <2>6, ImportKept
  <2> QED BY <2>2, <2>7 DEF ImportGood, Stores, ById
<1>5. ASSUME ops'[a] # Idle, ops'[a].kind = "import" PROVE ImportGood(ops[a])'
  <2>1. PICK p : p = ops'[a]
    BY SMTT(40)
  <2>2. /\ op # Idle /\ op.kind = "import" /\ p.key = op.key /\ p.request = op.request
        /\ p.shared = op.shared /\ p.synced = op.synced /\ p.todo = new
    BY <1>1, <1>2, <1>5, <2>1 DEF Stepped
  <2>3. ImportGood(op)
    BY <1>1, <2>2 DEF Imports
  <2>4. s.do = "upsert" /\ Works(db, s) /\ db' = Effect(db, s) /\ s.key = op.key
    BY <1>2, <2>2 DEF Stepped, Fits, Duty
  <2>5. \A x : ~Member(x, Found(db, s))
    <3>1. Found(db, s) = <<>>
      BY <2>4 DEF Found
    <3> QED BY <3>1, TupleIsSeq
  <2>6. /\ Member(s, op.todo) /\ \A x : Member(x, new) => Member(x, op.todo)
        /\ \A x : Member(x, op.todo) => x = s \/ Member(x, new)
    BY <1>3, <2>5 DEF Continues
  <2>7. ById(p) = ById(op) /\ \A n \in DOMAIN ById(op) : DOMAIN ById(op)[n] = DOMAIN op.request.fields
    BY <2>2, CellsOfRows DEF ById
  <2>8. Chunk(s, ById(op))
    BY <2>3, <2>6 DEF ImportGood
  <2>9. /\ \A n \in DOMAIN s.rows : Stores(db', op, n)
        /\ \A n \in DOMAIN ById(op) : Stores(db, op, n) => Stores(db', op, n)
    <3>1. Shape /\ Finite
      BY DEF AdminInv
    <3> QED BY <2>4, <2>7, <2>8, <3>1, UpsertWrites DEF Stores
  <2>10. ASSUME ~op.shared, ~op.synced, NEW n \in DOMAIN ById(op)
         PROVE  Stores(db', op, n) \/ \E x : Member(x, new) /\ n \in DOMAIN x.rows
    <3>1. Stores(db, op, n) \/ \E x : Member(x, op.todo) /\ n \in DOMAIN x.rows
      BY <2>3, <2>10 DEF ImportGood
    <3> QED BY <2>6, <2>9, <3>1
  <2>11. \A n : Stores(db', op, n) => Stores(db', p, n)
    BY <2>2, <2>7 DEF Stores
  <2>12. ImportGood(p)'
    <3>1. /\ p.request.file \in Files /\ p.request.file.key = p.key
          /\ \A x : Member(x, p.todo) => Chunk(x, ById(p))
      BY <2>2, <2>3, <2>6, <2>7 DEF ImportGood
    <3> QED BY <2>2, <2>7, <2>10, <2>11, <3>1 DEF ImportGood
  <2> QED BY <2>1, <2>12 DEF ImportGood, Stores, ById
<1> QED BY <1>4, <1>5 DEF Imports

\* The steps that begin nothing and run no statement.
LEMMA OtherSteps ==
  ASSUME AdminInv, [Next]_vars, ~\E a \in Admins : Request(a) \/ Statement(a)
  PROVE  db'.tables = db.tables /\ \A b \in Admins : Follows(ops[b], ops'[b])
<1>0. DOMAIN db = DbParts /\ \A b \in Admins : ops[b] = Idle \/ (DOMAIN ops[b] = OpParts /\ ops[b].kind # "idle")
  BY DEF AdminInv, Shape
<1>1. \A b \in Admins : Follows(ops[b], ops[b])
  BY <1>0 DEF Follows, Carried
<1>2. CASE \E a \in Admins : Done(a) \/ Fails(a)
  <2>1. PICK a \in Admins : ops' = [ops EXCEPT ![a] = Idle] /\ db' = db /\ syncing' = syncing
    BY <1>2 DEF Done, Fails
  <2> QED BY <2>1, EndedOps
<1>3. CASE \E k : StartSync(k)
  <2>1. PICK k : ops' = Joined(k, ops, "synced") /\ db' = [db EXCEPT !.pipes = @ \cup {k}]
    BY <1>3 DEF StartSync
  <2> QED BY <1>0, <2>1, JoinedCarries DEF Follows, AdminInv, DbParts
<1>4. CASE \E k : EndSync(k)
  BY <1>0, <1>1, <1>4 DEF EndSync, DbParts
<1>5. CASE (\E k : forDataset(k)) \/ KeepCatalog
  BY <1>1, <1>5 DEF forDataset, KeepCatalog
<1>6. CASE \E c : \E on \in {<<"dataset", k>> : k \in DOMAIN db.registry}
                           \cup {<<"view", v>> : v \in DOMAIN db.views} : AddChart(c, on)
  <2>1. PICK c, on, k : ops' = Joined(k, ops, "synced") /\ db' = [db EXCEPT !.charts = Put(@, c, [on |-> on])]
    BY <1>6 DEF AddChart
  <2> QED BY <1>0, <2>1, JoinedCarries DEF Follows, AdminInv, DbParts
<1>7. CASE \E c, col : BuildMatview(c, col)
  BY <1>0, <1>1, <1>7 DEF BuildMatview, DbParts
<1>8. CASE UNCHANGED vars
  BY <1>1, <1>8 DEF vars
<1> QED BY <1>2, <1>3, <1>4, <1>5, <1>6, <1>7, <1>8, StepKinds

LEMMA NextImports ==
  ASSUME AdminInv, Imports, [Next]_vars
  PROVE  Imports'
<1>1. CASE \E a \in Admins : Request(a) \/ Statement(a)
  BY <1>1, RequestImports, StatementImports
<1>2. CASE ~\E a \in Admins : Request(a) \/ Statement(a)
  <2>1. db'.tables = db.tables /\ \A b \in Admins : Follows(ops[b], ops'[b])
    BY <1>2, OtherSteps
  <2>2. \A k : rowsOf(db', k) = rowsOf(db, k)
    BY <2>1 DEF rowsOf
  <2>3. ASSUME NEW b \in Admins, ops'[b] # Idle, ops'[b].kind = "import" PROVE ImportGood(ops[b])'
    <3>1. PICK o, p : o = ops[b] /\ p = ops'[b]
      OBVIOUS
    <3>2. /\ o # Idle /\ p.kind = o.kind /\ p.key = o.key /\ p.request = o.request /\ p.todo = o.todo
          /\ o.shared => p.shared
          /\ o.synced => p.synced
      BY <2>1, <2>3, <3>1, CarriedFacts DEF Follows
    <3>3. ImportGood(o)
      BY <2>3, <3>1, <3>2 DEF Imports
    <3>4. ImportGood(p)'
      BY <2>2, <3>2, <3>3, ImportKept
    <3> QED BY <3>1, <3>4 DEF ImportGood, Stores, ById
  <2> QED BY <2>3 DEF Imports
<1> QED BY <1>1, <1>2

\* The id of a row, and the row that is kept of it: the last one with it.
IdOf(f, i) == IF f.keyed /\ f.rows[i].id # Null THEN f.rows[i].id ELSE i
LastOf(f, i) ==
  i \in DOMAIN f.rows /\ IdOf(f, i) > 0 /\ \A j \in DOMAIN f.rows : j > i => IdOf(f, j) # IdOf(f, i)

LEMMA MaxIs ==
  ASSUME NEW S, S \subseteq Int, NEW m \in S, \A y \in S : m >= y
  PROVE  Max(S) = m
<1>1. \A x \in S : (\A y \in S : x >= y) => x = m
  OBVIOUS
<1> QED BY <1>1 DEF Max

LEMMA LastRowKept ==
  ASSUME NEW f \in Files, NEW fields, NEW i, LastOf(f, i)
  PROVE  /\ IdOf(f, i) \in DOMAIN rowsById(f, fields)
         /\ \A c \in DOMAIN fields :
              rowsById(f, fields)[IdOf(f, i)][c] = convert(f.rows[i][fields[c].label], fields[c].type)
<1> DEFINE id(j) == IdOf(f, j)
           usable == {j \in DOMAIN f.rows : id(j) > 0}
           same == {j \in usable : id(j) = id(i)}
<1>1. rowsById(f, fields) =
        [n \in {id(j) : j \in usable} |->
           [c \in DOMAIN fields |->
              convert(f.rows[Max({j \in usable : id(j) = n})][fields[c].label], fields[c].type)]]
  BY DEF rowsById, IdOf
<1>2. DOMAIN f.rows \subseteq Int
  BY SubmittedAssumption
<1>3. i \in same /\ \A j \in same : i >= j
  BY <1>2 DEF LastOf
<1>4. same \subseteq Int
  BY <1>2
<1>5. Max(same) = i
  BY <1>3, <1>4, MaxIs
<1> DEFINE byId == rowsById(f, fields)
           Row(j) == [c \in DOMAIN fields |-> convert(f.rows[j][fields[c].label], fields[c].type)]
<1>6. byId = [n \in {id(j) : j \in usable} |-> Row(Max({j \in usable : id(j) = n}))]
  BY <1>1
<1>7. id(i) \in {id(j) : j \in usable}
  BY <1>3
<1> HIDE DEF byId, Row, id, usable
<1>8. id(i) \in DOMAIN byId /\ byId[id(i)] = Row(Max(same))
  BY <1>6, <1>7
<1>9. id(i) \in DOMAIN byId /\ byId[id(i)] = Row(i)
  BY <1>5, <1>8
<1>10. \A c \in DOMAIN fields : byId[id(i)][c] = convert(f.rows[i][fields[c].label], fields[c].type)
  BY <1>9 DEF Row
<1> QED BY <1>9, <1>10 DEF byId, id

\* An import that has nothing left to do, and that nothing joined.
Holds(stored, f, fields, i) ==
  /\ IdOf(f, i) \in DOMAIN stored
  /\ \A c \in DOMAIN fields :
       stored[IdOf(f, i)][c] = convert(f.rows[i][fields[c].label], fields[c].type)

LEMMA ImportStored ==
  ASSUME NEW op, ImportGood(op), op.todo = <<>>, ~op.shared, ~op.synced,
         NEW i, LastOf(op.request.file, i)
  PROVE  Holds(rowsOf(db, op.request.file.key), op.request.file, op.request.fields, i)
<1>1. PICK f, fields : f = op.request.file /\ fields = op.request.fields
  OBVIOUS
<1>2. \A s : ~Member(s, op.todo)
  BY TupleIsSeq
<1>3. f \in Files /\ f.key = op.key /\ \A n \in DOMAIN ById(op) : Stores(db, op, n)
  BY <1>1, <1>2 DEF ImportGood
<1>4. ById(op) = rowsById(f, fields)
  BY <1>1 DEF ById
<1>5. /\ IdOf(f, i) \in DOMAIN rowsById(f, fields)
      /\ \A c \in DOMAIN fields :
           rowsById(f, fields)[IdOf(f, i)][c] = convert(f.rows[i][fields[c].label], fields[c].type)
  BY <1>1, <1>3, LastRowKept
<1>6. Written(rowsOf(db, f.key), rowsById(f, fields), fields, IdOf(f, i))
  BY <1>1, <1>3, <1>4, <1>5 DEF Stores
<1>7. Holds(rowsOf(db, f.key), f, fields, i)
  BY <1>5, <1>6 DEF Written, Holds
<1> QED BY <1>1, <1>7

\* An import that ends well, of which no other operation and no run of the pipe
\* knew, has stored the last row of each id of the file, in whatever batches and
\* whatever an earlier attempt had written (importRows).
THEOREM ImportsAreComplete == Spec => ImportComplete
<1>1. Init => Imports
  BY DEF Init, Imports, Idle
<1>2. AdminInv /\ Imports /\ [Next]_vars => Imports'
  BY NextImports
<1>3. Imports =>
        \A a \in Admins : Ended(a) /\ ops[a].kind = "import" /\ Alone(a) =>
          LET f == ops[a].request.file
              fields == ops[a].request.fields
              id(i) == IF f.keyed /\ f.rows[i].id # Null THEN f.rows[i].id ELSE i
              stored == rowsOf(db, f.key)
          IN \A i \in DOMAIN f.rows :
               id(i) > 0 /\ (\A j \in DOMAIN f.rows : j > i => id(j) # id(i)) =>
                 /\ id(i) \in DOMAIN stored
                 /\ \A c \in DOMAIN fields :
                      stored[id(i)][c] = convert(f.rows[i][fields[c].label], fields[c].type)
  <2> SUFFICES ASSUME Imports, NEW a \in Admins, Ended(a), ops[a].kind = "import", Alone(a),
                      NEW i, LastOf(ops[a].request.file, i)
               PROVE  Holds(rowsOf(db, ops[a].request.file.key),
                            ops[a].request.file, ops[a].request.fields, i)
    BY ZenonT(30) DEF LastOf, IdOf, Holds
  <2>1. ImportGood(ops[a]) /\ ops[a].todo = <<>> /\ ~ops[a].shared /\ ~ops[a].synced
    BY DEF Imports, Ended, Alone
  <2> QED BY <2>1, ImportStored, SMTT(40)
<1>4. Spec => []Imports
  BY <1>1, <1>2, AdministrationInvariant, PTL DEF Spec
<1> QED BY <1>3, <1>4, PTL DEF Spec, ImportComplete

-----------------------------------------------------------------------------
(* Column names.                                                            *)

Family(b, x) == x = b \/ \E n \in Nat : x = Append(b, n)
BaseOf(f, i) == IF nameOf(f) = <<>> THEN <<"field", i>> ELSE nameOf(f)
BaseName(name, i) == IF name = <<>> THEN <<"field", i>> ELSE name

LEMMA NameIsSeq ==
  ASSUME NEW name, IsName(name), NEW i
  PROVE  /\ IsSeq(name) /\ IsSeq(BaseName(name, i)) /\ BaseName(name, i) # <<>>
<1>1. name \in Seq({name[j] : j \in 1..Len(name)})
  BY DEF IsName
<1>2. IsSeq(<<"field", i>>) /\ <<"field", i>> # <<>>
  BY TupleIsSeq
<1> QED BY <1>1, <1>2 DEF IsSeq, BaseName

LEMMA Appended ==
  ASSUME NEW b, IsSeq(b), NEW x
  PROVE  /\ IsSeq(Append(b, x)) /\ Len(Append(b, x)) = Len(b) + 1 /\ Len(b) \in Nat
         /\ DOMAIN b = 1..Len(b) /\ DOMAIN Append(b, x) = 1..(Len(b) + 1)
         /\ Append(b, x)[Len(b) + 1] = x
         /\ \A i \in 1..Len(b) : Append(b, x)[i] = b[i]
         /\ Append(b, x) # <<>>
<1>1. PICK S : b \in Seq(S)
  BY DEF IsSeq
<1>2. b \in Seq(S \cup {x}) /\ Append(b, x) \in Seq(S \cup {x})
  BY <1>1
<1> QED BY <1>2, SMTT(30) DEF IsSeq

\* What a suffix makes of a name has it as a prefix.
LEMMA FamilyPrefix ==
  ASSUME NEW b, IsSeq(b), b # <<>>, NEW x, Family(b, x)
  PROVE  /\ IsSeq(x) /\ x # <<>> /\ Len(x) \in Nat /\ Len(b) \in Nat
         /\ Len(x) = Len(b) \/ Len(x) = Len(b) + 1
         /\ \A i \in 1..Len(b) : x[i] = b[i]
<1>1. CASE x = b
  BY <1>1 DEF IsSeq
<1>2. CASE \E n \in Nat : x = Append(b, n)
  <2>1. PICK n \in Nat : x = Append(b, n)
    BY <1>2
  <2>2. /\ IsSeq(x) /\ Len(x) = Len(b) + 1 /\ Len(b) \in Nat /\ x # <<>>
        /\ \A i \in 1..Len(b) : x[i] = b[i]
    BY <2>1, Appended
  <2> QED BY <2>2
<1> QED BY <1>1, <1>2 DEF Family

LEMMA PrefixOf ==
  ASSUME NEW b, NEW c, IsSeq(b), IsSeq(c), Len(b) <= Len(c), \A i \in 1..Len(b) : b[i] = c[i]
  PROVE  IsPrefix(b, c)
<1>1. PICK S, T : b \in Seq(S) /\ c \in Seq(T)
  BY DEF IsSeq
<1>2. Len(b) \in Nat /\ Len(c) \in Nat
  BY <1>1
<1>3. SubSeq(b, 1, Len(b)) = SubSeq(c, 1, Len(b))
  <2>1. /\ SubSeq(b, 1, Len(b)) = [i \in 1..Len(b) |-> b[i]]
        /\ SubSeq(c, 1, Len(b)) = [i \in 1..Len(b) |-> c[i]]
    BY <1>2
  <2> QED BY <2>1
<1> QED BY <1>3 DEF IsPrefix

LEMMA FamiliesApart ==
  ASSUME NEW b, NEW c, IsSeq(b), IsSeq(c), b # <<>>, c # <<>>,
         ~IsPrefix(b, c), ~IsPrefix(c, b), NEW x, Family(b, x)
  PROVE  ~Family(c, x)
<1> SUFFICES ASSUME Family(c, x) PROVE FALSE
  OBVIOUS
<1>1. /\ Len(x) \in Nat /\ Len(b) \in Nat /\ Len(c) \in Nat
      /\ \A i \in 1..Len(b) : x[i] = b[i]
      /\ \A i \in 1..Len(c) : x[i] = c[i]
  BY FamilyPrefix
<1>2. CASE Len(b) <= Len(c)
  <2>1. \A i \in 1..Len(b) : b[i] = c[i]
    BY <1>1, <1>2
  <2> QED BY <1>2, <2>1, PrefixOf
<1>3. CASE Len(c) <= Len(b)
  <2>1. \A i \in 1..Len(c) : c[i] = b[i]
    BY <1>1, <1>3
  <2> QED BY <1>3, <2>1, PrefixOf
<1> QED BY <1>1, <1>2, <1>3

\* The numbers that are tried.
Free(b, used) == {n \in 2..(Cardinality(used) + 2) : Append(b, n) \notin used}

LEMMA FreeNumber ==
  ASSUME NEW b, IsSeq(b), NEW used, IsFiniteSet(used)
  PROVE  /\ Min(Free(b, used)) \in Free(b, used)
         /\ \A n \in Free(b, used) : Min(Free(b, used)) <= n
         /\ Free(b, used) \subseteq Nat
<1> DEFINE N == Cardinality(used) + 2
<1>1. Cardinality(used) \in Nat
  BY FS_CardinalityType
<1>2. Free(b, used) # {}
  <2> SUFFICES ASSUME Free(b, used) = {} PROVE FALSE
    OBVIOUS
  <2> DEFINE f == [n \in 2..N |-> Append(b, n)]
  <2>1. f \in [2..N -> used]
    BY DEF Free
  <2>2. IsFiniteSet(2..N) /\ Cardinality(2..N) = Cardinality(used) + 1
    <3>1. 2 \in Int /\ N \in Int /\ ~(2 > N) /\ N - 2 + 1 = Cardinality(used) + 1
      BY <1>1
    <3> HIDE DEF N
    <3> QED BY <3>1, FS_Interval
  <2>3. Cardinality(used) < Cardinality(2..N)
    BY <1>1, <2>2
  <2>4. PICK x, y \in 2..N : x # y /\ f[x] = f[y]
    <3> DEFINE S == 2..N
    <3>1. IsFiniteSet(S) /\ Cardinality(used) < Cardinality(S) /\ f \in [S -> used]
      BY <2>1, <2>2, <2>3
    <3> HIDE DEF f, S
    <3>2. \E x, y \in S : x # y /\ f[x] = f[y]
      BY <3>1, FS_PigeonHole
    <3> QED BY <3>2 DEF S
  <2>5. Append(b, x) = Append(b, y)
    BY <2>4
  <2>6. Append(b, x)[Len(b) + 1] = x /\ Append(b, y)[Len(b) + 1] = y
    BY Appended
  <2> QED BY <2>4, <2>5, <2>6
<1>3. Free(b, used) \subseteq Nat
  BY <1>1 DEF Free
<1>4. PICK m \in Free(b, used) : \A n \in Free(b, used) : m <= n
  BY <1>2, <1>3, Smallest
<1> HIDE DEF N
<1> QED BY <1>3, <1>4 DEF Min

LEMMA ResolveIs ==
  ASSUME NEW name, NEW i, NEW taken
  PROVE  resolveColumnKey(name, i, taken) =
           IF BaseName(name, i) \notin taken \cup Reserved THEN BaseName(name, i)
           ELSE Append(BaseName(name, i), Min(Free(BaseName(name, i), taken \cup Reserved)))
BY DEF resolveColumnKey, BaseName, Free

LEMMA ReservedIsFinite == IsFiniteSet(Reserved)
<1>1. IsFiniteSet({<<"record_id">>}) /\ IsFiniteSet({<<"synced_at">>})
  BY FS_Singleton
<1>2. IsFiniteSet({<<"record_id">>} \cup {<<"synced_at">>})
  BY <1>1, FS_Union
<1>3. Reserved = {<<"record_id">>} \cup {<<"synced_at">>}
  BY DEF Reserved
<1> QED BY <1>2, <1>3

\* A new name is none that is taken, and of the family of what was asked for.
LEMMA ResolveFresh ==
  ASSUME NEW name, IsName(name), NEW i, NEW taken, IsFiniteSet(taken), NEW c,
         c = resolveColumnKey(name, i, taken)
  PROVE  c \notin taken /\ c \notin Reserved /\ c # <<>> /\ Family(BaseName(name, i), c)
<1> DEFINE b == BaseName(name, i)
           used == taken \cup Reserved
<1>1. IsSeq(b) /\ b # <<>>
  BY NameIsSeq
<1>2. IsFiniteSet(used)
  BY ReservedIsFinite, FS_Union
<1>3. c = IF b \notin used THEN b ELSE Append(b, Min(Free(b, used)))
  BY ResolveIs
<1>4. used = taken \cup Reserved
  OBVIOUS
<1> HIDE DEF b, used
<1>5. CASE b \notin used
  BY <1>1, <1>3, <1>4, <1>5 DEF Family, b
<1>6. CASE b \in used
  <2>1. PICK m : m = Min(Free(b, used))
    OBVIOUS
  <2>2. m \in Free(b, used) /\ m \in Nat
    BY <1>1, <1>2, <2>1, FreeNumber
  <2>3. c = Append(b, m) /\ c \notin used
    BY <1>3, <1>6, <2>1, <2>2 DEF Free
  <2>4. c # <<>> /\ Family(b, c)
    BY <1>1, <2>2, <2>3, Appended DEF Family
  <2> QED BY <1>4, <2>3, <2>4 DEF b
<1> QED BY <1>5, <1>6

\* It depends on which names of the family are taken, and on no other.
LEMMA ResolveSame ==
  ASSUME NEW name, IsName(name), NEW i, NEW taken, IsFiniteSet(taken), NEW other, IsFiniteSet(other),
         \A x : Family(BaseName(name, i), x) => (x \in taken <=> x \in other)
  PROVE  resolveColumnKey(name, i, taken) = resolveColumnKey(name, i, other)
<1> DEFINE b == BaseName(name, i)
           T == taken \cup Reserved
           O == other \cup Reserved
<1>1. IsSeq(b)
  BY NameIsSeq
<1>2. IsFiniteSet(T) /\ IsFiniteSet(O)
  BY ReservedIsFinite, FS_Union
<1>3. \A x : Family(b, x) => (x \in T <=> x \in O)
  OBVIOUS
<1>4. /\ resolveColumnKey(name, i, taken) = IF b \notin T THEN b ELSE Append(b, Min(Free(b, T)))
      /\ resolveColumnKey(name, i, other) = IF b \notin O THEN b ELSE Append(b, Min(Free(b, O)))
  BY ResolveIs
<1> HIDE DEF b, T, O
<1>5. b \in T <=> b \in O
  BY <1>3 DEF Family
<1>6. \A n \in Nat : Append(b, n) \in T <=> Append(b, n) \in O
  BY <1>3 DEF Family
<1>7. Min(Free(b, T)) = Min(Free(b, O))
  <2>1. PICK m, n : m = Min(Free(b, T)) /\ n = Min(Free(b, O))
    OBVIOUS
  <2>2. m \in Free(b, T) /\ n \in Free(b, O) /\ m \in Nat /\ n \in Nat
        /\ (\A j \in Free(b, T) : m <= j) /\ (\A j \in Free(b, O) : n <= j)
    BY <1>1, <1>2, <2>1, FreeNumber
  <2>3. Cardinality(T) \in Nat /\ Cardinality(O) \in Nat
    BY <1>2, FS_CardinalityType
  <2> DEFINE p == Cardinality(T)
             q == Cardinality(O)
  <2>4. /\ m \in 2..(p + 2) /\ Append(b, m) \notin T
        /\ n \in 2..(q + 2) /\ Append(b, n) \notin O
    BY <2>2 DEF Free
  <2>5. Append(b, m) \notin O /\ Append(b, n) \notin T
    BY <1>6, <2>2, <2>4
  <2>6. /\ \A j \in 2..(p + 2) : Append(b, j) \notin T => j \in Free(b, T)
        /\ \A j \in 2..(q + 2) : Append(b, j) \notin O => j \in Free(b, O)
    BY DEF Free
  <2> HIDE DEF p, q
  <2>7. ~(m < n)
    <3> SUFFICES ASSUME m < n PROVE FALSE
      OBVIOUS
    <3>1. m \in 2..(q + 2)
      BY <2>2, <2>3, <2>4 DEF p, q
    <3> QED BY <2>2, <2>5, <2>6, <3>1
  <2>8. ~(n < m)
    <3> SUFFICES ASSUME n < m PROVE FALSE
      OBVIOUS
    <3>1. n \in 2..(p + 2)
      BY <2>2, <2>3, <2>4 DEF p, q
    <3> QED BY <2>2, <2>5, <2>6, <3>1
  <2> QED BY <2>1, <2>2, <2>7, <2>8
<1> QED BY <1>4, <1>5, <1>7

LEMMA ApartFamilies ==
  ASSUME NEW fields, Apart(fields), NEW i \in DOMAIN fields, NEW j \in DOMAIN fields, i # j,
         IsName(nameOf(fields[i])), IsName(nameOf(fields[j])),
         NEW x, Family(BaseName(nameOf(fields[i]), i), x)
  PROVE  ~Family(BaseName(nameOf(fields[j]), j), x)
<1> DEFINE b(n) == BaseName(nameOf(fields[n]), n)
<1>1. IsSeq(b(i)) /\ b(i) # <<>> /\ IsSeq(b(j)) /\ b(j) # <<>>
  BY NameIsSeq
<1>2. ~IsPrefix(b(i), b(j)) /\ ~IsPrefix(b(j), b(i))
  BY DEF Apart, BaseName
<1> HIDE DEF b
<1>3. Family(b(i), x)
  BY DEF b
<1>4. ~Family(b(j), x)
  BY <1>1, <1>2, <1>3, FamiliesApart
<1> QED BY <1>4 DEF b

\* The first n of the fields an edit asks for, and their names.
Named(f, g, i, existing, submitted, q) ==
  /\ g.label = f.label /\ g.type = f.type
  /\ f.key \in DOMAIN existing => g.key = f.key
  /\ f.key \notin DOMAIN existing =>
       /\ g.key \notin DOMAIN existing /\ g.key \notin Reserved /\ g.key # <<>>
       /\ Family(BaseName(nameOf(f), i), g.key)
       /\ \A j \in 1..(i - 1) : q[j].key # g.key
       /\ Apart(submitted) => g.key = resolveColumnKey(nameOf(f), i, DOMAIN existing)
AllNamed(q, submitted, existing, n) ==
  /\ IsSeq(q) /\ Len(q) = n
  /\ \A i \in 1..n : Named(submitted[i], q[i], i, existing, submitted, q)
Submitted(fields) ==
  /\ Len(fields) \in Nat /\ DOMAIN fields = 1..Len(fields)
  /\ \A i \in DOMAIN fields : IsName(nameOf(fields[i]))

LEMMA FieldIsNamed ==
  ASSUME NEW submitted, Submitted(submitted), NEW existing, IsFiniteSet(DOMAIN existing),
         NEW n \in Nat, n + 1 \in 1..Len(submitted), NEW q, AllNamed(q, submitted, existing, n)
  PROVE  AllNamed(WithField(submitted, existing, n + 1, q), submitted, existing, n + 1)
<1> DEFINE f == submitted[n + 1]
           taken == DOMAIN existing \cup KeysOf(q)
           key == IF f.key \in DOMAIN existing THEN f.key
                  ELSE resolveColumnKey(nameOf(f), n + 1, taken)
           g == [key |-> key, label |-> f.label, type |-> f.type]
           p == Append(q, g)
<1>1. WithField(submitted, existing, n + 1, q) = p
  BY DEF WithField
<1>2. IsSeq(q) /\ Len(q) = n /\ DOMAIN q = 1..n
  BY DEF AllNamed, IsSeq
<1>3. /\ IsSeq(p) /\ Len(p) = n + 1 /\ p[n + 1] = g /\ \A i \in 1..n : p[i] = q[i]
  BY <1>2, Appended
<1>4. IsName(nameOf(f)) /\ n + 1 \in DOMAIN submitted
  BY DEF Submitted
<1>5. IsFiniteSet(taken)
  <2> DEFINE h == [i \in 1..n |-> q[i].key]
  <2>1. KeysOf(q) = {h[i] : i \in 1..n}
    BY <1>2 DEF KeysOf
  <2>2. IsFiniteSet(1..n)
    BY FS_Interval
  <2> HIDE DEF h
  <2>3. IsFiniteSet({h[i] : i \in 1..n})
    BY <2>2, ImageIsFinite
  <2>4. IsFiniteSet(KeysOf(q))
    BY <2>1, <2>3
  <2> QED BY <2>4, FS_Union
<1>6. g.key = key /\ g.label = f.label /\ g.type = f.type
  OBVIOUS
<1>7. f.key \notin DOMAIN existing =>
        /\ key = resolveColumnKey(nameOf(f), n + 1, taken)
        /\ key \notin taken /\ key \notin Reserved /\ key # <<>>
        /\ Family(BaseName(nameOf(f), n + 1), key)
  BY <1>4, <1>5, ResolveFresh
<1>8. ASSUME f.key \notin DOMAIN existing, Apart(submitted)
      PROVE  key = resolveColumnKey(nameOf(f), n + 1, DOMAIN existing)
  <2>1. ASSUME NEW x, Family(BaseName(nameOf(f), n + 1), x), x \in KeysOf(q) PROVE x \in DOMAIN existing
    <3>1. PICK j \in 1..n : x = q[j].key
      BY <1>2, <2>1 DEF KeysOf
    <3>2. Named(submitted[j], q[j], j, existing, submitted, q)
      BY DEF AllNamed
    <3>3. CASE submitted[j].key \in DOMAIN existing
      BY <3>1, <3>2, <3>3 DEF Named
    <3>4. CASE submitted[j].key \notin DOMAIN existing
      <4>1. Family(BaseName(nameOf(submitted[j]), j), x)
        BY <3>1, <3>2, <3>4 DEF Named
      <4>2. j \in DOMAIN submitted /\ j # n + 1 /\ IsName(nameOf(submitted[j]))
        BY DEF Submitted
      <4>3. ~Family(BaseName(nameOf(submitted[n + 1]), n + 1), x)
        BY <1>4, <1>8, <4>1, <4>2, ApartFamilies
      <4> QED BY <2>1, <4>3
    <3> QED BY <3>3, <3>4
  <2>2. \A x : Family(BaseName(nameOf(f), n + 1), x) => (x \in taken <=> x \in DOMAIN existing)
    BY <2>1
  <2> HIDE DEF taken, f
  <2>3. resolveColumnKey(nameOf(f), n + 1, taken) = resolveColumnKey(nameOf(f), n + 1, DOMAIN existing)
    BY <1>4, <1>5, <2>2, ResolveSame
  <2> QED BY <1>7, <1>8, <2>3 DEF f
<1>9. \A j \in 1..n : q[j].key \in taken
  BY <1>2 DEF KeysOf
<1> HIDE DEF p, g, key, taken
<1>10. Named(f, p[n + 1], n + 1, existing, submitted, p)
  <2>1. \A j \in 1..((n + 1) - 1) : f.key \notin DOMAIN existing => p[j].key # g.key
    <3>1. (n + 1) - 1 = n
      OBVIOUS
    <3> QED BY <1>3, <1>6, <1>7, <1>9, <3>1
  <2>2. f.key \in DOMAIN existing => key = f.key
    BY DEF key
  <2>3. f.key \notin DOMAIN existing => key \notin DOMAIN existing
    BY <1>7 DEF taken
  <2> HIDE DEF f
  <2> QED BY <1>3, <1>6, <1>7, <1>8, <2>1, <2>2, <2>3 DEF Named
<1>11. ASSUME NEW i \in 1..n PROVE Named(submitted[i], p[i], i, existing, submitted, p)
  <2>1. Named(submitted[i], q[i], i, existing, submitted, q)
    BY DEF AllNamed
  <2>2. p[i] = q[i] /\ \A j \in 1..(i - 1) : p[j] = q[j]
    BY <1>3
  <2> QED BY <2>1, <2>2 DEF Named
<1>12. \A i \in 1..(n + 1) : i \in 1..n \/ i = n + 1
  OBVIOUS
<1> QED BY <1>1, <1>3, <1>10, <1>11, <1>12 DEF AllNamed

LEMMA DesiredAreNamed ==
  ASSUME NEW submitted, Submitted(submitted), NEW existing, IsFiniteSet(DOMAIN existing)
  PROVE  AllNamed(desiredFields(submitted, existing), submitted, existing, Len(submitted))
<1> DEFINE N == Len(submitted)
           c == CHOOSE f : FirstFields(f, submitted, existing, N)
<1>0. N \in Nat
  BY DEF Submitted
<1>1. FirstFields(c, submitted, existing, N)
  BY <1>0, FirstFieldsExist
<1>2. desiredFields(submitted, existing) = c[N]
  BY DEF desiredFields, FirstFields, WithField
<1> HIDE DEF c
<1> DEFINE G == {n \in Nat : n \in 0..N => AllNamed(c[n], submitted, existing, n)}
<1>3. c = [i \in 0..N |-> IF i = 0 THEN <<>> ELSE WithField(submitted, existing, i, c[i - 1])]
  BY <1>1 DEF FirstFields
<1>4. 0 \in G
  <2>1. IsSeq(<<>>) /\ Len(<<>>) = 0 /\ 1..0 = {}
    BY TupleIsSeq
  <2>2. c[0] = <<>>
    BY <1>0, <1>3
  <2> QED BY <2>1, <2>2 DEF AllNamed
<1>5. ASSUME NEW n \in Nat, n \in G PROVE n + 1 \in G
  <2> SUFFICES ASSUME n + 1 \in 0..N PROVE AllNamed(c[n + 1], submitted, existing, n + 1)
    OBVIOUS
  <2>1. n \in 0..N /\ n + 1 \in 1..N
    BY <1>0
  <2>2. AllNamed(c[n], submitted, existing, n)
    BY <1>5, <2>1
  <2>3. c[n + 1] = WithField(submitted, existing, n + 1, c[n])
    <3>1. n + 1 # 0 /\ (n + 1) - 1 = n
      OBVIOUS
    <3> QED BY <1>3, <3>1
  <2> QED BY <2>1, <2>2, <2>3, FieldIsNamed
<1> HIDE DEF G
<1>6. N \in G
  BY <1>0, <1>4, <1>5, SetInduction
<1> QED BY <1>0, <1>2, <1>6 DEF G

\* No two fields have one name.
LEMMA NamesDiffer ==
  ASSUME NEW submitted, Submitted(submitted), NEW existing, NEW q,
         AllNamed(q, submitted, existing, Len(submitted)),
         \A i, j \in DOMAIN submitted :
           submitted[i].key = submitted[j].key /\ i # j => submitted[i].key \notin DOMAIN existing
  PROVE  \A i, j \in DOMAIN q : q[i].key = q[j].key => i = j
<1>1. DOMAIN q = 1..Len(submitted) /\ DOMAIN submitted = 1..Len(submitted) /\ Len(submitted) \in Nat
      /\ \A i \in 1..Len(submitted) : Named(submitted[i], q[i], i, existing, submitted, q)
  BY DEF AllNamed, Submitted, IsSeq
<1>2. ASSUME NEW i \in DOMAIN q, NEW j \in DOMAIN q, q[i].key = q[j].key, i < j PROVE FALSE
  <2>1. Named(submitted[i], q[i], i, existing, submitted, q) /\ Named(submitted[j], q[j], j, existing, submitted, q)
    BY <1>1
  <2>2. i \in 1..(j - 1) /\ i # j
    BY <1>1, <1>2
  <2>3. submitted[j].key \in DOMAIN existing /\ q[j].key = submitted[j].key
    BY <1>2, <2>1, <2>2 DEF Named
  <2>4. submitted[i].key \in DOMAIN existing /\ q[i].key = submitted[i].key
    BY <1>2, <2>1, <2>3 DEF Named
  <2> QED BY <1>1, <1>2, <2>2, <2>3, <2>4
<1>3. \A i, j \in DOMAIN q : i < j \/ j < i \/ i = j
  BY <1>1
<1> QED BY <1>2, <1>3

-----------------------------------------------------------------------------
(* What one statement makes of fields F, columns C and mapping m.           *)

\* Which statements on a column can come after one.
LEMMA ChainFacts ==
  ASSUME NEW s, NEW t, Before(s, t), t.do \in OnColumn, s.col = t.col
  PROVE  /\ s.do = "add column" => t.do \in {"add field", "seed mapping"}
         /\ s.do = "add field" => t.do = "seed mapping"
         /\ s.do = "alter column" => t.do = "set field"
         /\ s.do = "drop column" => t.do \in {"delete field", "unmap column"}
         /\ s.do = "delete field" => t.do = "unmap column"
         /\ s.do \notin {"seed mapping", "set field", "unmap column"}
<1>1. s.do \in OnColumn => <<s.do, t.do>> \in Chain
  BY DEF Before
<1> QED BY <1>1 DEF Chain, OnColumn, Adding, Dropping

LEMMA StillDue ==
  ASSUME NEW S, NEW s, NEW T, Then(S, s, T), NEW do, NEW c, Due(S, do, c), s.do # do \/ s.col # c
  PROVE  Due(T, do, c)
BY DEF Due, Then

LEMMA PairedKept ==
  ASSUME NEW S, NEW s, NEW T, Then(S, s, T), Paired(S)
  PROVE  Paired(T)
<1> SUFFICES ASSUME NEW x \in T
             PROVE  /\ x.do \in Singly
                    /\ x.do = "add column" => Due(T, "add field", x.col) /\ SameType(T, x, "add field")
                    /\ x.do = "alter column" => Due(T, "set field", x.col) /\ SameType(T, x, "set field")
                    /\ x.do = "drop column" => Due(T, "delete field", x.col)
                    /\ x.do = "delete field" => Due(T, "unmap column", x.col)
  BY DEF Paired
<1>1. x \in S /\ Before(s, x) /\ T \subseteq S
  BY DEF Then
<1>2. \A do : SameType(S, x, do) => SameType(T, x, do)
  BY <1>1 DEF SameType
<1>2a. x.do \in Singly
  BY <1>1 DEF Paired
<1>3. CASE x.do = "add column"
  <2>1. Due(S, "add field", x.col) /\ SameType(S, x, "add field")
    BY <1>1, <1>3 DEF Paired
  <2>2. ~(s.do = "add field" /\ s.col = x.col)
    BY <1>1, <1>3, ChainFacts DEF OnColumn, Adding
  <2>3. Due(T, "add field", x.col)
    BY <2>1, <2>2, StillDue
  <2> QED BY <1>2, <1>2a, <1>3, <2>1, <2>3
<1>4. CASE x.do = "alter column"
  <2>1. Due(S, "set field", x.col) /\ SameType(S, x, "set field")
    BY <1>1, <1>4 DEF Paired
  <2>2. ~(s.do = "set field" /\ s.col = x.col)
    BY <1>1, <1>4, ChainFacts DEF OnColumn, Adding
  <2>3. Due(T, "set field", x.col)
    BY <2>1, <2>2, StillDue
  <2> QED BY <1>2, <1>2a, <1>4, <2>1, <2>3
<1>5. CASE x.do = "drop column"
  <2>1. Due(S, "delete field", x.col)
    BY <1>1, <1>5 DEF Paired
  <2>2. ~(s.do = "delete field" /\ s.col = x.col)
    BY <1>1, <1>5, ChainFacts DEF OnColumn, Dropping
  <2>3. Due(T, "delete field", x.col)
    BY <2>1, <2>2, StillDue
  <2> QED BY <1>2a, <1>5, <2>3
<1>6. CASE x.do = "delete field"
  <2>1. Due(S, "unmap column", x.col)
    BY <1>1, <1>6 DEF Paired
  <2>2. ~(s.do = "unmap column" /\ s.col = x.col)
    BY <1>1, <1>6, ChainFacts DEF OnColumn, Dropping
  <2>3. Due(T, "unmap column", x.col)
    BY <2>1, <2>2, StillDue
  <2> QED BY <1>2a, <1>6, <2>3
<1> QED BY <1>2a, <1>3, <1>4, <1>5, <1>6

\* The parts of what holds between two statements, for one column.
AddedAt(S, F, C, c) ==
  \A x \in S : x.do = "add field" /\ x.col = c => CanAdd(S, x, F, C)
SetAt(S, F, C, c) ==
  \A x \in S : x.do = "set field" /\ x.col = c => CanSet(S, x, F, C)
DeletedAt(S, F, C, c) ==
  \A x \in S : x.do = "delete field" /\ x.col = c => CanDelete(S, x, F, C)
DifferenceDue(S, F, C, c) ==
  /\ c \in DOMAIN C \ DOMAIN F => Due(S, "add field", c)
  /\ c \in DOMAIN F \ DOMAIN C => Due(S, "delete field", c)
  /\ c \in DOMAIN F \cap DOMAIN C /\ F[c].type # C[c] => Due(S, "set field", c)
At(S, F, C, c) ==
  AddedAt(S, F, C, c) /\ SetAt(S, F, C, c) /\ DeletedAt(S, F, C, c) /\ DifferenceDue(S, F, C, c)

LEMMA BetweenAt ==
  ASSUME NEW S, NEW F, NEW C
  PROVE  Ready(S, F, C) /\ Explained(S, F, C) <=> \A c : At(S, F, C, c)
<1>1. ASSUME Ready(S, F, C), Explained(S, F, C), NEW c PROVE At(S, F, C, c)
  BY <1>1 DEF Ready, Explained, At, AddedAt, SetAt, DeletedAt, DifferenceDue
<1>2. ASSUME \A c : At(S, F, C, c) PROVE Ready(S, F, C)
  BY <1>2 DEF Ready, At, AddedAt, SetAt, DeletedAt
<1>3. ASSUME \A c : At(S, F, C, c) PROVE Explained(S, F, C)
  BY <1>3 DEF Explained, At, DifferenceDue
<1> QED BY <1>1, <1>2, <1>3

\* A column the statement is not about.
LEMMA OtherColumn ==
  ASSUME NEW S, NEW s, NEW T, Then(S, s, T), NEW F, NEW C, NEW G, NEW D, NEW c, At(S, F, C, c),
         s.do \in OnColumn => s.col # c,
         c \in DOMAIN G <=> c \in DOMAIN F, c \in DOMAIN F => G[c] = F[c],
         c \in DOMAIN D <=> c \in DOMAIN C, c \in DOMAIN C => D[c] = C[c]
  PROVE  At(T, G, D, c)
<1>1. \A do \in OnColumn : Due(S, do, c) => Due(T, do, c)
  BY StillDue
<1>2. T \subseteq S
  BY DEF Then
<1>3. AddedAt(T, G, D, c)
  BY <1>1, <1>2 DEF At, AddedAt, CanAdd, OnColumn, Adding
<1>4. SetAt(T, G, D, c)
  BY <1>1, <1>2 DEF At, SetAt, CanSet, OnColumn, Adding
<1>5. DeletedAt(T, G, D, c)
  BY <1>1, <1>2 DEF At, DeletedAt, CanDelete, OnColumn, Dropping
<1>6. DifferenceDue(T, G, D, c)
  BY <1>1 DEF At, DifferenceDue, OnColumn, Adding, Dropping
<1> QED BY <1>3, <1>4, <1>5, <1>6 DEF At

\* The column it is about.
LEMMA OwnColumn ==
  ASSUME NEW S, NEW s, NEW T, Then(S, s, T), Paired(S), s.do \in OnColumn,
         NEW F, NEW C, NEW G, NEW D, At(S, F, C, s.col),
         MovesFields(s, F, G), MovesColumns(s, C, D)
  PROVE  At(T, G, D, s.col)
<1> DEFINE c == s.col
<1>1. \A t \in T : Before(s, t)
  BY DEF Then
<1>2. s \in S /\ T \subseteq S
  BY DEF Then
<1>3. \A do : s.do # do /\ Due(S, do, c) => Due(T, do, c)
  BY StillDue
<1>4. \A x \in T : x.col = c /\ x.do \in OnColumn =>
        /\ s.do = "add column" => x.do \in {"add field", "seed mapping"}
        /\ s.do = "add field" => x.do = "seed mapping"
        /\ s.do = "alter column" => x.do = "set field"
        /\ s.do = "drop column" => x.do \in {"delete field", "unmap column"}
        /\ s.do = "delete field" => x.do = "unmap column"
        /\ s.do \notin {"seed mapping", "set field", "unmap column"}
  BY <1>1, ChainFacts
<1>5. {"add field", "set field", "delete field", "add column", "alter column", "drop column"} \subseteq OnColumn
  BY DEF OnColumn, Adding, Dropping
<1>6. \A do \in OnColumn : Due(T, do, c) =>
        /\ s.do = "add column" => do \in {"add field", "seed mapping"}
        /\ s.do = "add field" => do = "seed mapping"
        /\ s.do = "alter column" => do = "set field"
        /\ s.do = "drop column" => do \in {"delete field", "unmap column"}
        /\ s.do = "delete field" => do = "unmap column"
        /\ s.do \notin {"seed mapping", "set field", "unmap column"}
  BY <1>4 DEF Due
<1>7. /\ AddedAt(S, F, C, c) /\ SetAt(S, F, C, c) /\ DeletedAt(S, F, C, c)
      /\ DifferenceDue(S, F, C, c)
  BY DEF At
<1>8. CASE s.do = "add column"
  <2>1. G = F /\ DOMAIN D = DOMAIN C \cup {c} /\ (c \in DOMAIN C => D[c] = C[c])
        /\ (c \notin DOMAIN C => D[c] = s.type)
    BY <1>8 DEF MovesFields, MovesColumns
  <2>2. Due(S, "add field", c) /\ SameType(S, s, "add field")
    BY <1>2, <1>8 DEF Paired
  <2>3. Due(T, "add field", c)
    BY <1>3, <1>8, <2>2
  <2>4. c \notin DOMAIN F
    BY <1>7, <2>2 DEF Due, AddedAt, CanAdd
  <2>5. AddedAt(T, G, D, c)
    <3> SUFFICES ASSUME NEW x \in T, x.do = "add field", x.col = c PROVE CanAdd(T, x, G, D)
      BY DEF AddedAt
    <3>1. CanAdd(S, x, F, C) /\ x.type = s.type
      BY <1>2, <1>7, <2>2 DEF AddedAt, SameType
    <3> QED BY <2>1, <3>1 DEF CanAdd
  <2>6. SetAt(T, G, D, c) /\ DeletedAt(T, G, D, c)
    BY <1>4, <1>5, <1>8 DEF SetAt, DeletedAt
  <2>7. DifferenceDue(T, G, D, c)
    BY <2>1, <2>3, <2>4 DEF DifferenceDue
  <2> QED BY <2>5, <2>6, <2>7 DEF At
<1>9. CASE s.do = "add field"
  <2>1. D = C /\ DOMAIN G = DOMAIN F \cup {c} /\ G[c].type = s.type
    BY <1>9 DEF MovesFields, MovesColumns
  <2>2. CanAdd(S, s, F, C)
    BY <1>2, <1>7, <1>9 DEF AddedAt
  <2>3. ~Due(S, "add column", c)
    BY <1>3, <1>5, <1>6, <1>9
  <2>4. c \in DOMAIN C /\ C[c] = s.type
    BY <2>2, <2>3 DEF CanAdd
  <2>5. AddedAt(T, G, D, c) /\ SetAt(T, G, D, c) /\ DeletedAt(T, G, D, c)
    BY <1>4, <1>5, <1>9 DEF AddedAt, SetAt, DeletedAt
  <2>6. DifferenceDue(T, G, D, c)
    BY <2>1, <2>4 DEF DifferenceDue
  <2> QED BY <2>5, <2>6 DEF At
<1>10. CASE s.do = "alter column"
  <2>1. G = F /\ c \in DOMAIN C /\ DOMAIN D = DOMAIN C /\ D[c] = s.type
    BY <1>10 DEF MovesFields, MovesColumns
  <2>2. Due(S, "set field", c) /\ SameType(S, s, "set field")
    BY <1>2, <1>10 DEF Paired
  <2>3. Due(T, "set field", c)
    BY <1>3, <1>10, <2>2
  <2>4. c \in DOMAIN F
    BY <1>7, <2>2 DEF Due, SetAt, CanSet
  <2>5. SetAt(T, G, D, c)
    <3> SUFFICES ASSUME NEW x \in T, x.do = "set field", x.col = c PROVE CanSet(T, x, G, D)
      BY DEF SetAt
    <3>1. CanSet(S, x, F, C) /\ x.type = s.type
      BY <1>2, <1>7, <2>2 DEF SetAt, SameType
    <3> QED BY <2>1, <3>1 DEF CanSet
  <2>6. AddedAt(T, G, D, c) /\ DeletedAt(T, G, D, c)
    BY <1>4, <1>5, <1>10 DEF AddedAt, DeletedAt
  <2>7. DifferenceDue(T, G, D, c)
    BY <2>1, <2>3, <2>4 DEF DifferenceDue
  <2> QED BY <2>5, <2>6, <2>7 DEF At
<1>11. CASE s.do = "set field"
  <2>1. CanSet(S, s, F, C)
    BY <1>2, <1>7, <1>11 DEF SetAt
  <2>2. D = C /\ DOMAIN G = DOMAIN F /\ G[c].type = s.type
    BY <1>11, <2>1 DEF MovesFields, MovesColumns, CanSet
  <2>3. ~Due(S, "alter column", c)
    BY <1>3, <1>5, <1>6, <1>11
  <2>4. c \in DOMAIN F /\ c \in DOMAIN C /\ C[c] = s.type
    BY <2>1, <2>3 DEF CanSet
  <2>5. AddedAt(T, G, D, c) /\ SetAt(T, G, D, c) /\ DeletedAt(T, G, D, c)
    BY <1>4, <1>5, <1>11 DEF AddedAt, SetAt, DeletedAt
  <2>6. DifferenceDue(T, G, D, c)
    BY <2>2, <2>4 DEF DifferenceDue
  <2> QED BY <2>5, <2>6 DEF At
<1>12. CASE s.do = "drop column"
  <2>1. G = F /\ DOMAIN D = DOMAIN C \ {c}
    BY <1>12 DEF MovesFields, MovesColumns
  <2>2. Due(S, "delete field", c)
    BY <1>2, <1>12 DEF Paired
  <2>3. Due(T, "delete field", c)
    BY <1>3, <1>12, <2>2
  <2>4. DeletedAt(T, G, D, c)
    <3> SUFFICES ASSUME NEW x \in T, x.do = "delete field", x.col = c PROVE CanDelete(T, x, G, D)
      BY DEF DeletedAt
    <3>1. CanDelete(S, x, F, C)
      BY <1>2, <1>7 DEF DeletedAt
    <3> QED BY <2>1, <3>1 DEF CanDelete
  <2>5. AddedAt(T, G, D, c) /\ SetAt(T, G, D, c)
    BY <1>4, <1>5, <1>12 DEF AddedAt, SetAt
  <2>6. DifferenceDue(T, G, D, c)
    BY <2>1, <2>3 DEF DifferenceDue
  <2> QED BY <2>4, <2>5, <2>6 DEF At
<1>13. CASE s.do = "delete field"
  <2>1. CanDelete(S, s, F, C)
    BY <1>2, <1>7, <1>13 DEF DeletedAt
  <2>2. D = C /\ DOMAIN G = DOMAIN F \ {c}
    BY <1>13, <2>1 DEF MovesFields, MovesColumns, CanDelete
  <2>3. ~Due(S, "drop column", c)
    BY <1>3, <1>5, <1>6, <1>13
  <2>4. c \notin DOMAIN C
    BY <2>1, <2>3 DEF CanDelete
  <2>5. AddedAt(T, G, D, c) /\ SetAt(T, G, D, c) /\ DeletedAt(T, G, D, c)
    BY <1>4, <1>5, <1>13 DEF AddedAt, SetAt, DeletedAt
  <2>6. DifferenceDue(T, G, D, c)
    BY <2>2, <2>4 DEF DifferenceDue
  <2> QED BY <2>5, <2>6 DEF At
<1>14. CASE s.do \in {"seed mapping", "unmap column"}
  <2>1. G = F /\ D = C
    BY <1>14 DEF MovesFields, MovesColumns
  <2>2. AddedAt(T, G, D, c) /\ SetAt(T, G, D, c) /\ DeletedAt(T, G, D, c)
    BY <1>4, <1>5, <1>14 DEF AddedAt, SetAt, DeletedAt
  <2>3. DifferenceDue(T, G, D, c)
    <3>1. \A do \in {"add field", "set field", "delete field"} : Due(S, do, c) => Due(T, do, c)
      BY <1>3, <1>14
    <3> QED BY <1>7, <2>1, <3>1 DEF DifferenceDue
  <2> QED BY <2>2, <2>3 DEF At
<1> QED BY <1>8, <1>9, <1>10, <1>11, <1>12, <1>13, <1>14 DEF OnColumn, Adding, Dropping

\* What the rest of the statements are due to do, after one.
LEMMA BetweenStep ==
  ASSUME NEW S, NEW s, NEW T, Then(S, s, T), NEW F, NEW C, Between(S, F, C),
         NEW G, NEW D, MovesFields(s, F, G), MovesColumns(s, C, D)
  PROVE  Between(T, G, D)
<1>1. Paired(T)
  BY PairedKept DEF Between
<1>2. \A c : At(S, F, C, c)
  BY BetweenAt DEF Between
<1>3. ASSUME NEW c PROVE At(T, G, D, c)
  <2>1. CASE s.do \in OnColumn /\ s.col = c
    BY <1>2, <2>1, OwnColumn DEF Between
  <2>2. CASE s.do \in OnColumn => s.col # c
    <3>1. /\ s.do = "set field" => s.col \in DOMAIN F /\ F[s.col].id = s.id
          /\ s.do = "delete field" => s.col \in DOMAIN F /\ F[s.col].id = s.id
      BY DEF Then, Between, Ready, CanSet, CanDelete
    <3>2. /\ c \in DOMAIN G <=> c \in DOMAIN F
          /\ c \in DOMAIN F => G[c] = F[c]
      BY <2>2, <3>1 DEF MovesFields, OnColumn, Adding, Dropping
    <3>3. /\ c \in DOMAIN D <=> c \in DOMAIN C
          /\ c \in DOMAIN C => D[c] = C[c]
      BY <2>2 DEF MovesColumns, OnColumn, Adding, Dropping
    <3> QED BY <1>2, <2>2, <3>2, <3>3, OtherColumn
  <2> QED BY <2>1, <2>2
<1>4. Ready(T, G, D) /\ Explained(T, G, D)
  BY <1>3, BetweenAt
<1>5. <<>> \notin DOMAIN G
  <2>1. \A x : x \in DOMAIN G => x \in DOMAIN F \/ (s.do = "add field" /\ x = s.col)
    <3>1. s.do \in {"set field", "delete field"} => s.col \in DOMAIN F /\ F[s.col].id = s.id
      BY DEF Then, Between, Ready, CanSet, CanDelete
    <3> QED BY <3>1 DEF MovesFields
  <2>2. s.do = "add field" => s.col # <<>>
    BY DEF Then, Between, Ready, CanAdd
  <2> QED BY <2>1, <2>2 DEF Between
<1>6. IsMap(D)
  BY DEF Between, MovesColumns
<1> QED BY <1>1, <1>4, <1>5, <1>6 DEF Between

LEMMA BetweenEnds ==
  ASSUME NEW F, NEW C, Between({}, F, C)
  PROVE  Agree(F, C)
<1>1. DOMAIN C = DOMAIN F /\ \A c \in DOMAIN F : F[c].type = C[c]
  BY DEF Between, Explained, Due
<1>2. C = [c \in DOMAIN C |-> C[c]]
  BY DEF Between, IsMap
<1> QED BY <1>1, <1>2 DEF Agree

\* What a statement finds.
LEMMA Turn ==
  ASSUME NEW S, NEW s, NEW T, Then(S, s, T), NEW F, NEW C, Between(S, F, C)
  PROVE  /\ s.do \in {"add column", "add field"} => s.col \notin DOMAIN F /\ s.col # <<>>
         /\ s.do \in {"alter column", "set field", "delete field"} => s.col \in DOMAIN F
         /\ s.do \in {"set field", "delete field"} => F[s.col].id = s.id
         /\ s.do \in {"add field", "set field"} => s.col \in DOMAIN C /\ C[s.col] = s.type
         /\ s.do = "delete field" => s.col \notin DOMAIN C
         /\ s.do \in {"drop column", "delete field"} =>
              /\ \A t \in T : t.do \notin Adding
              /\ DOMAIN C \subseteq DOMAIN F
<1>1. s \in S /\ T \subseteq S /\ \A t \in T : Before(s, t)
  BY DEF Then
<1>2. Paired(S) /\ Ready(S, F, C) /\ Explained(S, F, C)
  BY DEF Between
<1>3. {"add field", "set field", "delete field", "add column", "alter column", "drop column"} \subseteq OnColumn
  BY DEF OnColumn, Adding, Dropping
<1>4. \A t \in T : t.do \in OnColumn /\ t.col = s.col =>
        s.do \notin {"add field", "set field", "delete field"} \/ t.do \in {"seed mapping", "unmap column"}
  BY <1>1, ChainFacts
<1>5. CASE s.do = "add field"
  <2>1. CanAdd(S, s, F, C)
    BY <1>1, <1>2, <1>5 DEF Ready
  <2>2. ~Due(S, "add column", s.col)
    BY <1>3, <1>4, <1>5 DEF Due, Then
  <2> QED BY <1>5, <2>1, <2>2 DEF CanAdd
<1>6. CASE s.do = "set field"
  <2>1. CanSet(S, s, F, C)
    BY <1>1, <1>2, <1>6 DEF Ready
  <2>2. ~Due(S, "alter column", s.col)
    BY <1>3, <1>4, <1>6 DEF Due, Then
  <2> QED BY <1>6, <2>1, <2>2 DEF CanSet
<1>7. ASSUME s.do \in {"drop column", "delete field"}
      PROVE  (\A t \in T : t.do \notin Adding) /\ DOMAIN C \subseteq DOMAIN F
  <2>1. s.do \in Dropping /\ s.do \notin Adding
    BY <1>7 DEF Dropping, Adding
  <2>2. \A t \in T : t.do \notin Adding
    BY <1>1, <2>1 DEF Before
  <2>3. \A c : ~Due(S, "add field", c)
    BY <1>7, <2>2 DEF Due, Then, Adding
  <2> QED BY <1>2, <2>2, <2>3 DEF Explained
<1>8. CASE s.do = "delete field"
  <2>1. CanDelete(S, s, F, C)
    BY <1>1, <1>2, <1>8 DEF Ready
  <2>2. ~Due(S, "drop column", s.col)
    BY <1>3, <1>4, <1>8 DEF Due, Then
  <2> QED BY <1>7, <1>8, <2>1, <2>2 DEF CanDelete
<1>9. CASE s.do = "drop column"
  BY <1>7, <1>9
<1>10. CASE s.do = "add column"
  <2>1. Due(S, "add field", s.col)
    BY <1>1, <1>2, <1>10 DEF Paired
  <2>2. PICK x \in S : x.do = "add field" /\ x.col = s.col
    BY <2>1 DEF Due
  <2>3. CanAdd(S, x, F, C)
    BY <1>2, <2>2 DEF Ready
  <2> QED BY <1>10, <2>2, <2>3 DEF CanAdd
<1>11. CASE s.do = "alter column"
  <2>1. Due(S, "set field", s.col)
    BY <1>1, <1>2, <1>11 DEF Paired
  <2>2. PICK x \in S : x.do = "set field" /\ x.col = s.col
    BY <2>1 DEF Due
  <2>3. CanSet(S, x, F, C)
    BY <1>2, <2>2 DEF Ready
  <2> QED BY <1>11, <2>2, <2>3 DEF CanSet
<1> QED BY <1>5, <1>6, <1>8, <1>9, <1>10, <1>11

\* A name that is taken is not asked for by another field, and leaves the others
\* their names.
LEMMA NewcomerKept ==
  ASSUME NEW u, Submitted(u.fields), Apart(u.fields), NEW F, IsFiniteSet(DOMAIN F),
         NEW G, NEW x, DOMAIN G = DOMAIN F \cup {x}, NEW y, Newcomer(u, F, x, y),
         NEW c, NEW t, Newcomer(u, F, c, t), c # x
  PROVE  Newcomer(u, G, c, t)
<1> DEFINE E == DOMAIN F \ Reserved
           E1 == DOMAIN G \ Reserved
           f == u.fields
<1>1. PICK i \in DOMAIN f : f[i].key \notin E /\ x = resolveColumnKey(nameOf(f[i]), i, E)
  BY DEF Newcomer
<1>2. PICK j \in DOMAIN f : f[j].key \notin E /\ c = resolveColumnKey(nameOf(f[j]), j, E) /\ t = f[j].type
  BY DEF Newcomer
<1>3. IsFiniteSet(E) /\ IsFiniteSet(E1)
  <2>1. IsFiniteSet(DOMAIN F \cup {x})
    BY FS_Singleton, FS_Union
  <2> QED BY <2>1, FS_Difference
<1>4. IsName(nameOf(f[i])) /\ IsName(nameOf(f[j]))
  BY DEF Submitted
<1>5. x \notin E /\ x \notin Reserved /\ x # <<>> /\ Family(BaseName(nameOf(f[i]), i), x)
  BY <1>1, <1>3, <1>4, ResolveFresh
<1>6. i # j
  BY <1>1, <1>2
<1>7. ~Family(BaseName(nameOf(f[j]), j), x)
  BY <1>4, <1>5, <1>6, ApartFamilies
<1>8. E1 = E \cup {x}
  BY <1>5
<1>9. \A z : Family(BaseName(nameOf(f[j]), j), z) => (z \in E <=> z \in E1)
  BY <1>7, <1>8
<1>10. f[j].key \notin E1
  <2> SUFFICES ASSUME f[j].key = x PROVE FALSE
    BY <1>2, <1>8
  <2>1. nameOf(f[j]) = x
    BY <1>5 DEF nameOf
  <2>2. BaseName(nameOf(f[j]), j) = x
    BY <1>5, <2>1 DEF BaseName
  <2> QED BY <1>7, <2>2 DEF Family
<1> HIDE DEF E, E1
<1>11. resolveColumnKey(nameOf(f[j]), j, E) = resolveColumnKey(nameOf(f[j]), j, E1)
  BY <1>3, <1>4, <1>9, ResolveSame
<1> QED BY <1>2, <1>10, <1>11 DEF Newcomer, E1

LEMMA NewcomerSame ==
  ASSUME NEW u, NEW F, NEW G, DOMAIN G = DOMAIN F, NEW c, NEW t, Newcomer(u, F, c, t)
  PROVE  Newcomer(u, G, c, t)
BY DEF Newcomer

LEMMA AgainStep ==
  ASSUME NEW u, Submitted(u.fields), NEW S, NEW s, NEW T, Then(S, s, T), NEW F, NEW C,
         IsFiniteSet(DOMAIN F), Between(S, F, C), Again(u, S, F, C),
         NEW G, NEW D, MovesFields(s, F, G), MovesColumns(s, C, D)
  PROVE  Again(u, T, G, D)
<1>0. /\ s.do \in {"add column", "add field"} => s.col \notin DOMAIN F /\ s.col # <<>>
      /\ s.do \in {"alter column", "set field", "delete field"} => s.col \in DOMAIN F
      /\ s.do \in {"set field", "delete field"} => F[s.col].id = s.id
      /\ s.do \in {"add field", "set field"} => s.col \in DOMAIN C /\ C[s.col] = s.type
      /\ s.do = "delete field" => s.col \notin DOMAIN C
      /\ s.do \in {"drop column", "delete field"} =>
           /\ \A t \in T : t.do \notin Adding
           /\ DOMAIN C \subseteq DOMAIN F
  BY Turn
<1>1. s \in S /\ T \subseteq S /\ \A t \in T : Before(s, t)
  BY DEF Then
<1>2. Wanted(u, S, F) /\ (Apart(u.fields) => Halfway(u, F, C))
  BY DEF Again
<1>3. \A c \in DOMAIN D \ DOMAIN C : s.do = "add column" /\ c = s.col /\ D[c] = s.type
  BY DEF MovesColumns
<1>4. ASSUME Apart(u.fields), NEW c, NEW t, Newcomer(u, F, c, t),
             c \notin DOMAIN G, s.do # "delete field"
      PROVE  Newcomer(u, G, c, t)
  <2>1. CASE s.do = "add field"
    <3>1. DOMAIN G = DOMAIN F \cup {s.col} /\ c # s.col
      BY <1>4, <2>1 DEF MovesFields
    <3>2. Newcomer(u, F, s.col, s.type)
      BY <1>1, <1>2, <1>4, <2>1 DEF Wanted
    <3> QED BY <1>4, <3>1, <3>2, NewcomerKept
  <2>2. CASE s.do # "add field"
    <3>1. DOMAIN G = DOMAIN F
      BY <1>4, <2>2, <1>0 DEF MovesFields
    <3> QED BY <1>4, <3>1, NewcomerSame
  <2> QED BY <2>1, <2>2
<1>5. Wanted(u, T, G)
  <2> SUFFICES ASSUME NEW x \in T
               PROVE  /\ x.do \in {"alter column", "set field"} => Asked(u, x.col, x.type)
                      /\ x.do \in {"drop column", "delete field"} => Spared(u, x.col)
                      /\ x.do \in {"add column", "add field"} /\ Apart(u.fields) =>
                           Newcomer(u, G, x.col, x.type)
    BY DEF Wanted
  <2>1. /\ x.do \in {"alter column", "set field"} => Asked(u, x.col, x.type)
        /\ x.do \in {"drop column", "delete field"} => Spared(u, x.col)
        /\ x.do \in {"add column", "add field"} /\ Apart(u.fields) => Newcomer(u, F, x.col, x.type)
    BY <1>1, <1>2 DEF Wanted
  <2>2. ASSUME x.do \in {"add column", "add field"}, Apart(u.fields) PROVE Newcomer(u, G, x.col, x.type)
    <3>1. s.do # "delete field"
      BY <1>1, <2>2, <1>0 DEF Adding
    <3>2. Newcomer(u, F, x.col, x.type)
      BY <2>1, <2>2
    <3>3. x.col \notin DOMAIN G
      <4>1. Between(T, G, D)
        BY BetweenStep
      <4>2. Paired(T) /\ Ready(T, G, D)
        BY <4>1 DEF Between
      <4>3. PICK y \in T : y.do = "add field" /\ y.col = x.col
        BY <2>2, <4>2 DEF Paired, Due
      <4>4. CanAdd(T, y, G, D)
        BY <4>2, <4>3 DEF Ready
      <4> QED BY <4>3, <4>4 DEF CanAdd
    <3> QED BY <1>4, <2>2, <3>1, <3>2, <3>3
  <2> QED BY <2>1, <2>2
<1>6. ASSUME Apart(u.fields) PROVE Halfway(u, G, D)
  <2>0. Halfway(u, F, C)
    BY <1>2, <1>6
  <2>1. ASSUME NEW c \in DOMAIN D \ DOMAIN G PROVE Newcomer(u, G, c, D[c])
    <3>1. s.do # "delete field"
      BY <2>1, <1>0 DEF MovesColumns, MovesFields
    <3>2. c \notin DOMAIN F
      BY <2>1, <3>1, <1>0 DEF MovesFields
    <3>3. Newcomer(u, F, c, D[c])
      <4>1. CASE c \in DOMAIN C
        <5>1. D[c] = C[c]
          <6>1. CASE s.do = "alter column"
            BY <3>2, <4>1, <6>1, <1>0 DEF MovesColumns
          <6>2. CASE s.do # "alter column"
            BY <2>1, <4>1, <6>2 DEF MovesColumns
          <6> QED BY <6>1, <6>2
        <5> QED BY <2>0, <3>2, <4>1, <5>1 DEF Halfway
      <4>2. CASE c \notin DOMAIN C
        BY <1>1, <1>2, <1>3, <1>6, <2>1, <4>2 DEF Wanted
      <4> QED BY <4>1, <4>2
    <3> QED BY <1>4, <1>6, <2>1, <3>1, <3>3
  <2>2. ASSUME NEW c \in DOMAIN G \ DOMAIN D PROVE Spared(u, c)
    <3>1. c \in DOMAIN F
      BY <2>2, <1>0 DEF MovesFields, MovesColumns
    <3>2. CASE c \in DOMAIN C
      <4>1. s.do = "drop column" /\ c = s.col
        BY <2>2, <3>2 DEF MovesColumns
      <4> QED BY <1>1, <1>2, <4>1 DEF Wanted
    <3>3. CASE c \notin DOMAIN C
      BY <2>0, <3>1, <3>3 DEF Halfway
    <3> QED BY <3>2, <3>3
  <2>3. ASSUME NEW c \in DOMAIN G \cap DOMAIN D, G[c].type # D[c] PROVE Asked(u, c, D[c])
    <3>1. CASE s.do \in {"alter column", "set field"} /\ c = s.col
      <4>1. Asked(u, c, s.type)
        BY <1>1, <1>2, <3>1 DEF Wanted
      <4>2. D[c] = s.type
        BY <3>1, <1>0 DEF MovesColumns
      <4> QED BY <4>1, <4>2
    <3>2. CASE s.do \in {"add column", "add field"} /\ c = s.col
      BY <2>3, <3>2, <1>0 DEF MovesFields, MovesColumns
    <3>3. CASE ~(s.do \in {"alter column", "set field", "add column", "add field"} /\ c = s.col)
      <4>1. c \in DOMAIN F /\ G[c] = F[c]
        BY <2>3, <3>3, <1>0 DEF MovesFields
      <4>2. c \in DOMAIN C /\ D[c] = C[c]
        BY <2>3, <3>3 DEF MovesColumns
      <4> QED BY <2>0, <2>3, <4>1, <4>2 DEF Halfway
    <3> QED BY <3>1, <3>2, <3>3
  <2> QED BY <2>1, <2>2, <2>3 DEF Halfway
<1> QED BY <1>5, <1>6 DEF Again

\* The mapping, meanwhile.
LEMMA MappedStep ==
  ASSUME NEW S, NEW s, NEW T, Then(S, s, T), NEW F, NEW C, Between(S, F, C), NEW m, Mapped(S, F, m),
         NEW G, NEW n, MovesFields(s, F, G), MovesMapping(s, m, n)
  PROVE  Mapped(T, G, n)
<1>0. /\ s.do \in {"add column", "add field"} => s.col \notin DOMAIN F /\ s.col # <<>>
      /\ s.do \in {"alter column", "set field", "delete field"} => s.col \in DOMAIN F
      /\ s.do \in {"set field", "delete field"} => F[s.col].id = s.id
      /\ s.do \in {"add field", "set field"} => s.col \in DOMAIN C /\ C[s.col] = s.type
      /\ s.do = "delete field" => s.col \notin DOMAIN C
      /\ s.do \in {"drop column", "delete field"} =>
           /\ \A t \in T : t.do \notin Adding
           /\ DOMAIN C \subseteq DOMAIN F
  BY Turn
<1>1. s \in S /\ T \subseteq S /\ \A t \in T : Before(s, t)
  BY DEF Then
<1>2. s.do = "seed mapping" => CanSeed(S, s, F, m)
  BY <1>1 DEF Mapped
<1>3. \A l \in DOMAIN n :
        \/ l \in DOMAIN m /\ n[l] = m[l]
        \/ s.do = "seed mapping" /\ n[l].col = s.col /\ l = s.label
  <2>1. CASE s.do = "seed mapping"
    BY <2>1 DEF MovesMapping
  <2>2. CASE s.do = "unmap column"
    BY <2>2 DEF MovesMapping
  <2>3. CASE s.do \notin {"seed mapping", "unmap column"}
    BY <2>3 DEF MovesMapping
  <2> QED BY <2>1, <2>2, <2>3
<1>4. Apiece(n)
  <2>1. CASE s.do = "seed mapping"
    <3>1. \A l \in DOMAIN m : m[l].col # s.col
      BY <1>2, <2>1 DEF CanSeed
    <3>2. Apiece(m)
      BY DEF Mapped
    <3> QED BY <1>3, <3>1, <3>2 DEF Apiece
  <2>2. CASE s.do # "seed mapping"
    <3>1. Apiece(m)
      BY DEF Mapped
    <3> QED BY <1>3, <2>2, <3>1 DEF Apiece
  <2> QED BY <2>1, <2>2
<1>5. \A c : c \in DOMAIN F => c \in DOMAIN G \/ (s.do = "delete field" /\ c = s.col)
  <2>1. CASE s.do = "add field"
    BY <2>1 DEF MovesFields
  <2>2. CASE s.do = "set field"
    BY <1>0, <2>2 DEF MovesFields
  <2>3. CASE s.do = "delete field"
    BY <1>0, <2>3 DEF MovesFields
  <2>4. CASE s.do \notin {"add field", "set field", "delete field"}
    BY <2>4 DEF MovesFields
  <2> QED BY <2>1, <2>2, <2>3, <2>4
<1>6. \A t \in T : t.do \in OnColumn /\ t.col = s.col =>
        s.do # "seed mapping" /\ (s.do = "delete field" => t.do = "unmap column")
  BY <1>1, ChainFacts DEF Before, OnColumn, Chain
<1>7. ASSUME NEW l \in DOMAIN n, n[l].col # Ignored
      PROVE  n[l].col \in DOMAIN G \/ Due(T, "unmap column", n[l].col)
  <2>1. CASE s.do = "seed mapping" /\ n[l].col = s.col
    <3>1. s.col \in DOMAIN F \/ Due(S, "add field", s.col)
      BY <1>2, <2>1 DEF CanSeed
    <3>2. ~Due(S, "add field", s.col)
      BY <1>6, <2>1 DEF Due, Then, OnColumn, Adding
    <3> QED BY <1>5, <2>1, <3>1, <3>2
  <2>2. CASE l \in DOMAIN m /\ n[l] = m[l]
    <3>1. m[l].col \in DOMAIN F \/ Due(S, "unmap column", m[l].col)
      BY <1>7, <2>2 DEF Mapped
    <3>2. CASE Due(S, "unmap column", m[l].col)
      <4>1. ~(s.do = "unmap column" /\ s.col = m[l].col)
        BY <2>2 DEF MovesMapping
      <4>2. Due(T, "unmap column", m[l].col)
        BY <3>2, <4>1, StillDue
      <4> QED BY <2>2, <4>2
    <3>3. CASE m[l].col \in DOMAIN F
      <4>1. CASE s.do = "delete field" /\ s.col = m[l].col
        <5>1. Due(S, "unmap column", s.col)
          BY <1>1, <4>1 DEF Between, Paired
        <5>2. Due(T, "unmap column", s.col)
          BY <4>1, <5>1, StillDue
        <5> QED BY <2>2, <4>1, <5>2
      <4>2. CASE ~(s.do = "delete field" /\ s.col = m[l].col)
        BY <1>5, <2>2, <3>3, <4>2
      <4> QED BY <4>1, <4>2
    <3> QED BY <3>1, <3>2, <3>3
  <2> QED BY <1>3, <2>1, <2>2
<1>8. ASSUME NEW t \in T, t.do = "seed mapping" PROVE CanSeed(T, t, G, n)
  <2>1. CanSeed(S, t, F, m)
    BY <1>1, <1>8 DEF Mapped
  <2>2. s.do \in OnColumn => (s.do # "seed mapping" /\ s.do # "delete field") \/ s.col # t.col
    BY <1>6, <1>8 DEF OnColumn
  <2>3. \A l \in DOMAIN n : n[l].col # t.col
    BY <1>3, <2>1, <2>2 DEF CanSeed, OnColumn
  <2>4. CASE t.col \in DOMAIN F
    BY <1>5, <2>1, <2>2, <2>3, <2>4 DEF CanSeed, OnColumn, Dropping
  <2>5. CASE Due(S, "add field", t.col)
    <3>1. CASE s.do = "add field" /\ s.col = t.col
      BY <2>1, <2>3, <3>1 DEF CanSeed, MovesFields
    <3>2. CASE ~(s.do = "add field" /\ s.col = t.col)
      <4>1. Due(T, "add field", t.col)
        BY <2>5, <3>2, StillDue
      <4> QED BY <2>1, <2>3, <4>1 DEF CanSeed
    <3> QED BY <3>1, <3>2
  <2> QED BY <2>1, <2>4, <2>5 DEF CanSeed
<1> QED BY <1>4, <1>7, <1>8 DEF Mapped

LEMMA MappedEnds ==
  ASSUME NEW F, NEW m, Mapped({}, F, m)
  PROVE  MappedTo(m, F)
BY DEF Mapped, MappedTo, Due

-----------------------------------------------------------------------------
(* The order of the statements of a plan.                                   *)

LEMMA ListedIs ==
  ASSUME NEW q, NEW x
  PROVE  x \in Listed(q) <=> Member(x, q)
BY DEF Listed, Member

LEMMA OrderedConcat ==
  ASSUME NEW p, NEW q, IsSeq(p), IsSeq(q), Ordered(p), Ordered(q),
         \A x, y : Member(x, p) /\ Member(y, q) => Before(x, y)
  PROVE  Ordered(p \o q)
<1> DEFINE r == p \o q
<1>1. IsSeq(r) /\ Len(r) = Len(p) + Len(q)
  BY Concat
<1>2. \A i \in DOMAIN r : r[i] = IF i <= Len(p) THEN p[i] ELSE q[i - Len(p)]
  BY Concat
<1>3. DOMAIN r = 1..Len(r) /\ DOMAIN p = 1..Len(p) /\ DOMAIN q = 1..Len(q)
      /\ Len(p) \in Nat /\ Len(q) \in Nat
  BY <1>1 DEF IsSeq
<1> HIDE DEF r
<1> SUFFICES ASSUME NEW i \in DOMAIN r, NEW j \in DOMAIN r, i < j PROVE Before(r[i], r[j])
  BY DEF Ordered, r
<1>4. CASE j <= Len(p)
  <2>1. i \in DOMAIN p /\ j \in DOMAIN p /\ r[i] = p[i] /\ r[j] = p[j]
    BY <1>1, <1>2, <1>3, <1>4
  <2> QED BY <2>1 DEF Ordered
<1>5. CASE Len(p) < i
  <2>1. i - Len(p) \in DOMAIN q /\ j - Len(p) \in DOMAIN q /\ i - Len(p) < j - Len(p)
    BY <1>1, <1>3, <1>5
  <2>2. r[i] = q[i - Len(p)] /\ r[j] = q[j - Len(p)]
    BY <1>1, <1>2, <1>3, <1>5
  <2> QED BY <2>1, <2>2 DEF Ordered
<1>6. CASE i <= Len(p) /\ Len(p) < j
  <2>1. i \in DOMAIN p /\ j - Len(p) \in DOMAIN q
    BY <1>1, <1>3, <1>6
  <2>2. r[i] = p[i] /\ r[j] = q[j - Len(p)]
    BY <1>1, <1>2, <1>3, <1>6
  <2> QED BY <2>1, <2>2 DEF Member
<1>7. i \in Nat /\ j \in Nat
  BY <1>1, <1>3
<1>8. j <= Len(p) \/ Len(p) < i \/ (i <= Len(p) /\ Len(p) < j)
  BY <1>3, <1>7
<1> QED BY <1>4, <1>5, <1>6, <1>8

\* Plans that are in order one by one, and one before the other.
Blocks(seqs) ==
  /\ IsSeq(seqs) /\ \A i \in DOMAIN seqs : IsSeq(seqs[i]) /\ Ordered(seqs[i])
  /\ \A i, j \in DOMAIN seqs : i < j =>
       \A x, y : Member(x, seqs[i]) /\ Member(y, seqs[j]) => Before(x, y)

LEMMA BlocksFlattened ==
  ASSUME NEW seqs, Blocks(seqs)
  PROVE  /\ IsSeq(FlattenSeq(seqs)) /\ Ordered(FlattenSeq(seqs))
         /\ \A x : Member(x, FlattenSeq(seqs)) <=> \E j \in DOMAIN seqs : Member(x, seqs[j])
<1>0. Len(seqs) \in Nat /\ DOMAIN seqs = 1..Len(seqs)
  BY DEF IsSeq, Blocks
<1>1. CASE Len(seqs) = 0
  <2>1. FlattenSeq(seqs) = seqs
    BY <1>1 DEF FlattenSeq
  <2>2. DOMAIN seqs = {}
    BY <1>0, <1>1
  <2>3. IsSeq(seqs)
    BY DEF Blocks
  <2> QED BY <2>1, <2>2, <2>3 DEF Member, Ordered
<1>2. CASE Len(seqs) # 0
  <2>1. PICK f : Flat(f, seqs, Len(seqs)) /\ FlattenSeq(seqs) = f[Len(seqs)]
    BY <1>0, <1>2, FlattenIs
  <2>2. f = [i \in 1..Len(seqs) |-> IF i = 1 THEN seqs[i] ELSE f[i - 1] \o seqs[i]]
    BY <2>1 DEF Flat
  <2> DEFINE Good(n) == /\ IsSeq(f[n]) /\ Ordered(f[n])
                        /\ \A x : Member(x, f[n]) <=> \E j \in 1..n : Member(x, seqs[j])
             G == {n \in Nat : n + 1 \in 1..Len(seqs) => Good(n + 1)}
  <2>3. 0 \in G
    <3>1. f[1] = seqs[1] /\ 1 \in DOMAIN seqs
      BY <1>0, <1>2, <2>2
    <3>2. \A j : j \in 1..1 <=> j = 1
      OBVIOUS
    <3>3. Good(1)
      BY <3>1, <3>2 DEF Blocks
    <3> QED BY <3>3
  <2>4. ASSUME NEW n \in Nat, n \in G PROVE n + 1 \in G
    <3> SUFFICES ASSUME n + 2 \in 1..Len(seqs) PROVE Good(n + 2)
      OBVIOUS
    <3>1. Good(n + 1)
      BY <2>4, <1>0
    <3>2. f[n + 2] = f[n + 1] \o seqs[n + 2]
      <4>1. n + 2 # 1 /\ (n + 2) - 1 = n + 1
        OBVIOUS
      <4> QED BY <2>2, <4>1
    <3>3. IsSeq(seqs[n + 2]) /\ Ordered(seqs[n + 2]) /\ n + 2 \in DOMAIN seqs
      BY <1>0 DEF Blocks
    <3>4. \A j : j \in 1..(n + 2) <=> j \in 1..(n + 1) \/ j = n + 2
      OBVIOUS
    <3>5. \A j \in 1..(n + 1) : j \in DOMAIN seqs /\ j < n + 2
      BY <1>0
    <3>6. IsSeq(f[n + 1]) /\ Ordered(f[n + 1])
      BY <3>1
    <3>7. \A x : Member(x, f[n + 1]) <=> \E j \in 1..(n + 1) : Member(x, seqs[j])
      BY <3>1
    <3> DEFINE p == f[n + 1]
               q == seqs[n + 2]
    <3>8. \A x, y : Member(x, p) /\ Member(y, q) => Before(x, y)
      BY <3>3, <3>5, <3>7 DEF Blocks
    <3>9. IsSeq(p) /\ IsSeq(q) /\ Ordered(p) /\ Ordered(q) /\ f[n + 2] = p \o q
      BY <3>2, <3>3, <3>6
    <3>10. \A x : Member(x, p) <=> \E j \in 1..(n + 1) : Member(x, seqs[j])
      BY <3>7
    <3> HIDE DEF p
    <3>11. IsSeq(p \o q) /\ Ordered(p \o q)
      <4> HIDE DEF q
      <4> QED BY <3>8, <3>9, OrderedConcat, ConcatOf
    <3>12. \A x : Member(x, p \o q) <=> Member(x, p) \/ Member(x, q)
      <4> HIDE DEF q
      <4> QED BY <3>9, ConcatOf, ConcatHas
    <3>13. \A x : Member(x, p \o q) <=> \E j \in 1..(n + 2) : Member(x, seqs[j])
      BY <3>4, <3>10, <3>12
    <3> QED BY <3>9, <3>11, <3>13
  <2> HIDE DEF G
  <2>5. Len(seqs) - 1 \in G /\ Len(seqs) - 1 + 1 = Len(seqs) /\ Len(seqs) \in 1..Len(seqs)
    BY <1>0, <1>2, <2>3, <2>4, SetInduction
  <2>6. Good(Len(seqs))
    BY <2>5 DEF G
  <2> QED BY <1>0, <2>1, <2>6
<1> QED BY <1>1, <1>2

LEMMA TupleOrdered ==
  /\ Ordered(<<>>)
  /\ \A a : Ordered(<<a>>) /\ Member(a, <<a>>)
  /\ \A a, b : (Before(a, b) => Ordered(<<a, b>>)) /\ Member(a, <<a, b>>) /\ Member(b, <<a, b>>)
  /\ \A a, b, c : /\ Before(a, b) /\ Before(a, c) /\ Before(b, c) => Ordered(<<a, b, c>>)
                  /\ Member(a, <<a, b, c>>) /\ Member(b, <<a, b, c>>) /\ Member(c, <<a, b, c>>)
<1>1. Ordered(<<>>)
  BY DEF Ordered
<1>2. ASSUME NEW a PROVE Ordered(<<a>>) /\ Member(a, <<a>>)
  <2>1. DOMAIN <<a>> = {1} /\ <<a>>[1] = a
    OBVIOUS
  <2> QED BY <2>1 DEF Ordered, Member
<1>3. ASSUME NEW a, NEW b
      PROVE  (Before(a, b) => Ordered(<<a, b>>)) /\ Member(a, <<a, b>>) /\ Member(b, <<a, b>>)
  <2>1. DOMAIN <<a, b>> = {1, 2} /\ <<a, b>>[1] = a /\ <<a, b>>[2] = b
    OBVIOUS
  <2> QED BY <2>1 DEF Ordered, Member
<1>4. ASSUME NEW a, NEW b, NEW c
      PROVE  /\ Before(a, b) /\ Before(a, c) /\ Before(b, c) => Ordered(<<a, b, c>>)
             /\ Member(a, <<a, b, c>>) /\ Member(b, <<a, b, c>>) /\ Member(c, <<a, b, c>>)
  <2>1. DOMAIN <<a, b, c>> = {1, 2, 3} /\ <<a, b, c>>[1] = a /\ <<a, b, c>>[2] = b /\ <<a, b, c>>[3] = c
    OBVIOUS
  <2> QED BY <2>1 DEF Ordered, Member
<1> QED BY <1>1, <1>2, <1>3, <1>4

\* The list of a set has each of its members once.
LEMMA ListedOnce ==
  ASSUME NEW S, IsFiniteSet(S)
  PROVE  /\ IsSeq(SetToSeq(S))
         /\ \A x : Member(x, SetToSeq(S)) <=> x \in S
         /\ \A i, j \in DOMAIN SetToSeq(S) : SetToSeq(S)[i] = SetToSeq(S)[j] => i = j
<1> DEFINE n == Cardinality(S)
           f == SetToSeq(S)
<1>1. n \in Nat /\ ExistsBijection(1..n, S)
  BY FS_CardinalityType
<1>2. \E g \in [1..n -> S] : IsInjective(g)
  BY <1>1 DEF ExistsBijection, Bijection, Injection
<1>3. f \in [1..n -> S] /\ IsInjective(f)
  BY <1>2 DEF SetToSeq
<1>4. f \in Seq(S)
  BY SetIsListed
<1>5. \A x \in S : \E i \in 1..Len(f) : f[i] = x
  BY AllListed
<1> HIDE DEF f
<1>6. DOMAIN f = 1..Len(f)
  BY <1>4
<1>7. \A x : Member(x, f) <=> x \in S
  <2>1. \A i \in DOMAIN f : f[i] \in S
    BY <1>4, <1>6
  <2> QED BY <1>5, <1>6, <2>1 DEF Member
<1>8. \A i, j \in DOMAIN f : f[i] = f[j] => i = j
  BY <1>3 DEF IsInjective
<1> QED BY <1>4, <1>7, <1>8 DEF f, IsSeq

\* The rest of a plan: the statements that come after its first, in their order.
LEMMA RestOf ==
  ASSUME NEW q, IsSeq(q), q # <<>>, Ordered(q)
  PROVE  Then(Listed(q), Head(q), Listed(Tail(q))) /\ Ordered(Tail(q)) /\ IsSeq(Tail(q))
<1>1. PICK S : q \in Seq(S)
  BY DEF IsSeq
<1>2. Len(q) \in Nat /\ DOMAIN q = 1..Len(q) /\ Len(q) # 0 /\ Tail(q) \in Seq(S)
      /\ Len(Tail(q)) = Len(q) - 1 /\ Head(q) = q[1]
  BY <1>1
<1>3. \A i \in 1..(Len(q) - 1) : Tail(q)[i] = q[i + 1]
  BY <1>1
<1>4. DOMAIN Tail(q) = 1..(Len(q) - 1)
  BY <1>2
<1> DEFINE t == Tail(q)
<1>5. DOMAIN t = 1..(Len(q) - 1) /\ \A i \in DOMAIN t : t[i] = q[i + 1] /\ i + 1 \in DOMAIN q
  BY <1>2, <1>3, <1>4
<1> HIDE DEF t
<1>6. Ordered(t)
  <2> SUFFICES ASSUME NEW i \in DOMAIN t, NEW j \in DOMAIN t, i < j PROVE Before(t[i], t[j])
    BY DEF Ordered
  <2>1. i + 1 < j + 1
    BY <1>2, <1>5
  <2> QED BY <1>5, <2>1 DEF Ordered
<1>7. Listed(q) = {Head(q)} \cup Listed(t)
  <2>1. \A x : x \in Listed(q) => x = Head(q) \/ x \in Listed(t)
    BY NextPlan, ListedIs DEF t
  <2>2. \A x : x \in Listed(t) => x \in Listed(q)
    BY NextPlan, ListedIs DEF t
  <2>3. Head(q) \in Listed(q)
    BY NextPlan, ListedIs
  <2> QED BY <2>1, <2>2, <2>3
<1>8. ASSUME NEW x \in Listed(t) PROVE Before(Head(q), x)
  <2>1. PICK i \in DOMAIN t : t[i] = x
    BY <1>8 DEF Listed
  <2>2. i + 1 \in DOMAIN q /\ q[i + 1] = x /\ 1 \in DOMAIN q /\ 1 < i + 1
    BY <1>2, <1>5, <2>1
  <2> QED BY <1>2, <2>2 DEF Ordered
<1> QED BY <1>2, <1>6, <1>7, <1>8 DEF Then, t, IsSeq

-----------------------------------------------------------------------------
(* The plan of an edit.                                                     *)

LEMMA UpdatePlanIs ==
  ASSUME NEW u, NEW id, NEW F, NEW E, E = Without(F, Reserved), NEW g, g = desiredFields(u.fields, E)
  PROVE  updatePlan(u, id, F) = FlattenSeq(KeptBlocks(u.key, id, E, g))
           \o FlattenSeq(DroppedBlocks(u.key, E, SetToSeq(DOMAIN E \ KeysOf(g))))
BY DEF updatePlan, Each, KeptBlocks, DroppedBlocks, KeptBlock, DroppedBlock, Structural, Refuse,
       AddColumn, AlterColumn, SetField, DropColumn, DeleteField, UnmapColumn, dropField

LEMMA KeepsFacts ==
  ASSUME NEW k, NEW id, NEW E, NEW f, NEW s, Keeps(k, id, E, f, s)
  PROVE  OfField(E, f, s)
<1>1. CASE f.key \notin DOMAIN E /\ s = AddColumn(k, id, f)
  BY <1>1 DEF OfField, Dropping, AddColumn, AddField
<1>2. CASE f.key \notin DOMAIN E /\ s = AddField(k, id, f)
  BY <1>2 DEF OfField, Dropping, AddField
<1>3. CASE f.key \notin DOMAIN E /\ s = SeedMapping(k, f)
  BY <1>3 DEF OfField, Dropping, SeedMapping
<1>4. CASE f.key \in DOMAIN E /\ E[f.key].type # f.type /\ s = AlterColumn(k, id, f)
  BY <1>4 DEF OfField, Dropping, AlterColumn, AddField
<1>5. CASE f.key \in DOMAIN E /\ s = SetField(k, E[f.key].id, f)
  BY <1>5 DEF OfField, Dropping, SetField, AddField
<1> QED BY <1>1, <1>2, <1>3, <1>4, <1>5 DEF Keeps

LEMMA DropsFacts ==
  ASSUME NEW k, NEW E, NEW col, NEW s, Drops(k, E, col, s)
  PROVE  OfColumn(E, col, s)
<1>1. CASE s = DropColumn(k, col)
  BY <1>1 DEF OfColumn, Adding, DropColumn
<1>2. CASE s = DeleteField(k, col, E[col].id)
  BY <1>2 DEF OfColumn, Adding, DeleteField
<1>3. CASE s = UnmapColumn(k, col)
  BY <1>3 DEF OfColumn, Adding, UnmapColumn
<1> QED BY <1>1, <1>2, <1>3 DEF Drops

LEMMA BeforeOther ==
  ASSUME NEW s, NEW t, s.col # t.col, s.do \notin Dropping \/ t.do \notin Adding
  PROVE  Before(s, t)
BY DEF Before

LEMMA BeforeOwn ==
  ASSUME NEW s, NEW t, <<s.do, t.do>> \in Chain, s.do \notin Dropping \/ t.do \notin Adding
  PROVE  Before(s, t)
BY DEF Before

LEMMA KeptIs ==
  ASSUME NEW k, k \notin Protected, NEW id, NEW E, NEW f
  PROVE  /\ IsSeq(KeptBlock(k, id, E, f)) /\ Ordered(KeptBlock(k, id, E, f))
         /\ \A s : Member(s, KeptBlock(k, id, E, f)) <=> Keeps(k, id, E, f, s)
<1>1. CASE f.key \notin DOMAIN E
  <2>1. PICK a, b, c : a = AddColumn(k, id, f) /\ b = AddField(k, id, f) /\ c = SeedMapping(k, f)
    OBVIOUS
  <2>2. KeptBlock(k, id, E, f) = <<a, b, c>>
    BY <1>1, <2>1 DEF KeptBlock, Structural
  <2>3. a.do = "add column" /\ b.do = "add field" /\ c.do = "seed mapping"
    BY <2>1 DEF AddColumn, AddField, SeedMapping
  <2>4. Before(a, b) /\ Before(a, c) /\ Before(b, c)
    <3>1. <<a.do, b.do>> \in Chain /\ <<a.do, c.do>> \in Chain /\ <<b.do, c.do>> \in Chain
      BY <2>3 DEF Chain
    <3>2. a.do \notin Dropping /\ b.do \notin Dropping
      BY <2>3 DEF Dropping
    <3> QED BY <3>1, <3>2, BeforeOwn
  <2>5. \A s : Keeps(k, id, E, f, s) <=> s = a \/ s = b \/ s = c
    BY <1>1, <2>1 DEF Keeps
  <2> QED BY <2>2, <2>4, <2>5, TupleIsSeq, TupleOrdered
<1>2. CASE f.key \in DOMAIN E /\ E[f.key].type = f.type
  <2>1. PICK a : a = SetField(k, E[f.key].id, f)
    OBVIOUS
  <2>2. KeptBlock(k, id, E, f) = <<>> \o <<a>>
    BY <1>2, <2>1 DEF KeptBlock
  <2>3. IsSeq(<<>>) /\ IsSeq(<<a>>) /\ Ordered(<<>>) /\ Ordered(<<a>>)
        /\ (\A s : ~Member(s, <<>>)) /\ \A s : Member(s, <<a>>) <=> s = a
    BY TupleIsSeq, TupleOrdered
  <2>4. \A s : Keeps(k, id, E, f, s) <=> s = a
    BY <1>2, <2>1 DEF Keeps
  <2>5. IsSeq(<<>> \o <<a>>) /\ Ordered(<<>> \o <<a>>)
    BY <2>3, OrderedConcat, ConcatOf
  <2>6. \A s : Member(s, <<>> \o <<a>>) <=> s = a
    BY <2>3, ConcatOf, ConcatHas
  <2> QED BY <2>2, <2>4, <2>5, <2>6
<1>3. CASE f.key \in DOMAIN E /\ E[f.key].type # f.type
  <2>1. PICK a, b : a = AlterColumn(k, id, f) /\ b = SetField(k, E[f.key].id, f)
    OBVIOUS
  <2>2. KeptBlock(k, id, E, f) = <<a>> \o <<b>>
    BY <1>3, <2>1 DEF KeptBlock, Structural
  <2>3. /\ IsSeq(<<a>>) /\ IsSeq(<<b>>) /\ Ordered(<<a>>) /\ Ordered(<<b>>)
        /\ (\A s : Member(s, <<a>>) <=> s = a) /\ \A s : Member(s, <<b>>) <=> s = b
    BY TupleIsSeq, TupleOrdered
  <2>4. \A s : Keeps(k, id, E, f, s) <=> s = a \/ s = b
    BY <1>3, <2>1 DEF Keeps
  <2>5. Before(a, b)
    <3>1. a.do = "alter column" /\ b.do = "set field"
      BY <2>1 DEF AlterColumn, SetField, AddField
    <3>2. <<a.do, b.do>> \in Chain /\ a.do \notin Dropping
      BY <3>1 DEF Chain, Dropping
    <3> QED BY <3>2, BeforeOwn
  <2>6. IsSeq(<<a>> \o <<b>>) /\ Ordered(<<a>> \o <<b>>)
    BY <2>3, <2>5, OrderedConcat, ConcatOf
  <2>7. \A s : Member(s, <<a>> \o <<b>>) <=> s = a \/ s = b
    BY <2>3, ConcatOf, ConcatHas
  <2> QED BY <2>2, <2>4, <2>6, <2>7
<1> QED BY <1>1, <1>2, <1>3

LEMMA DroppedIs ==
  ASSUME NEW k, k \notin Protected, NEW E, NEW col
  PROVE  /\ IsSeq(DroppedBlock(k, E, col)) /\ Ordered(DroppedBlock(k, E, col))
         /\ \A s : Member(s, DroppedBlock(k, E, col)) <=> Drops(k, E, col, s)
<1>1. PICK a, b, c : a = DropColumn(k, col) /\ b = DeleteField(k, col, E[col].id) /\ c = UnmapColumn(k, col)
  OBVIOUS
<1>2. DroppedBlock(k, E, col) = <<a, b, c>>
  BY <1>1 DEF DroppedBlock, Structural
<1>3. Before(a, b) /\ Before(a, c) /\ Before(b, c)
  <2>1. a.do = "drop column" /\ b.do = "delete field" /\ c.do = "unmap column"
    BY <1>1 DEF DropColumn, DeleteField, UnmapColumn
  <2>2. <<a.do, b.do>> \in Chain /\ <<a.do, c.do>> \in Chain /\ <<b.do, c.do>> \in Chain
    BY <2>1 DEF Chain
  <2>3. b.do \notin Adding /\ c.do \notin Adding
    BY <2>1 DEF Adding
  <2> QED BY <2>2, <2>3, BeforeOwn
<1>4. \A s : Drops(k, E, col, s) <=> s = a \/ s = b \/ s = c
  BY <1>1 DEF Drops
<1> QED BY <1>2, <1>3, <1>4, TupleIsSeq, TupleOrdered

LEMMA UpdateIssues ==
  ASSUME NEW u, u.key \notin Protected, NEW id, NEW F, IsFiniteSet(DOMAIN F),
         NEW E, E = Without(F, Reserved), NEW g, g = desiredFields(u.fields, E), IsSeq(g),
         \A i, j \in DOMAIN g : g[i].key = g[j].key => i = j
  PROVE  LET plan == updatePlan(u, id, F)
         IN /\ IsSeq(plan) /\ Ordered(plan)
            /\ \A s : Member(s, plan) <=> Issues(u.key, id, E, g, s)
<1> DEFINE k == u.key
           gone == SetToSeq(DOMAIN E \ KeysOf(g))
           p == KeptBlocks(k, id, E, g)
           q == DroppedBlocks(k, E, gone)
<1>1. /\ IsSeq(gone)
      /\ \A x : Member(x, gone) <=> x \in DOMAIN E \ KeysOf(g)
      /\ \A i, j \in DOMAIN gone : gone[i] = gone[j] => i = j
  <2>1. IsFiniteSet(DOMAIN E \ KeysOf(g))
    <3>1. DOMAIN E \ KeysOf(g) \subseteq DOMAIN F
      BY DEF Without
    <3> QED BY <3>1, FS_Subset
  <2> QED BY <2>1, ListedOnce
<1> HIDE DEF gone
<1>2. /\ IsSeq(p) /\ DOMAIN p = DOMAIN g
      /\ \A i \in DOMAIN g : p[i] = KeptBlock(k, id, E, g[i])
  BY AlikeIsSeq DEF KeptBlocks
<1>3. /\ IsSeq(q) /\ DOMAIN q = DOMAIN gone
      /\ \A i \in DOMAIN gone : q[i] = DroppedBlock(k, E, gone[i])
  BY <1>1, AlikeIsSeq DEF DroppedBlocks
<1> HIDE DEF p, q
<1>4. \A i \in DOMAIN p : IsSeq(p[i]) /\ Ordered(p[i]) /\ \A s : Member(s, p[i]) <=> Keeps(k, id, E, g[i], s)
  BY <1>2, KeptIs
<1>5. \A i \in DOMAIN q : IsSeq(q[i]) /\ Ordered(q[i]) /\ \A s : Member(s, q[i]) <=> Drops(k, E, gone[i], s)
  BY <1>3, DroppedIs
<1>6. DOMAIN g = 1..Len(g) /\ DOMAIN gone = 1..Len(gone)
  BY <1>1 DEF IsSeq
<1>7. Blocks(p)
  <2> SUFFICES ASSUME NEW i \in DOMAIN p, NEW j \in DOMAIN p, i < j,
                      NEW x, NEW y, Member(x, p[i]), Member(y, p[j])
               PROVE  Before(x, y)
    BY <1>2, <1>4 DEF Blocks
  <2>1. Keeps(k, id, E, g[i], x) /\ Keeps(k, id, E, g[j], y)
    BY <1>4
  <2>2. x.col = g[i].key /\ y.col = g[j].key /\ x.do \notin Dropping
    <3>1. OfField(E, g[i], x) /\ OfField(E, g[j], y)
      BY <2>1, KeepsFacts
    <3> QED BY <3>1 DEF OfField
  <2>3. g[i].key # g[j].key
    BY <1>2, <1>6
  <2> QED BY <2>2, <2>3, BeforeOther
<1>8. Blocks(q)
  <2> SUFFICES ASSUME NEW i \in DOMAIN q, NEW j \in DOMAIN q, i < j,
                      NEW x, NEW y, Member(x, q[i]), Member(y, q[j])
               PROVE  Before(x, y)
    BY <1>3, <1>5 DEF Blocks
  <2>1. Drops(k, E, gone[i], x) /\ Drops(k, E, gone[j], y)
    BY <1>5
  <2>2. x.col = gone[i] /\ y.col = gone[j] /\ y.do \notin Adding
    <3>1. OfColumn(E, gone[i], x) /\ OfColumn(E, gone[j], y)
      BY <2>1, DropsFacts
    <3> QED BY <3>1 DEF OfColumn
  <2>3. gone[i] # gone[j]
    BY <1>1, <1>3, <1>6
  <2> QED BY <2>2, <2>3, BeforeOther
<1> DEFINE v == FlattenSeq(p)
           w == FlattenSeq(q)
<1>9. IsSeq(v) /\ Ordered(v) /\ \A s : Member(s, v) <=> \E i \in DOMAIN g : Keeps(k, id, E, g[i], s)
  BY <1>2, <1>4, <1>7, BlocksFlattened
<1>10. IsSeq(w) /\ Ordered(w)
       /\ \A s : Member(s, w) <=> \E col \in DOMAIN E \ KeysOf(g) : Drops(k, E, col, s)
  <2>1. IsSeq(w) /\ Ordered(w) /\ \A s : Member(s, w) <=> \E i \in DOMAIN q : Member(s, q[i])
    BY <1>8, BlocksFlattened
  <2>2. ASSUME NEW s PROVE Member(s, w) <=> \E col \in DOMAIN E \ KeysOf(g) : Drops(k, E, col, s)
    <3>1. Member(s, w) <=> \E i \in DOMAIN gone : Drops(k, E, gone[i], s)
      BY <1>3, <1>5, <2>1
    <3> QED BY <1>1, <3>1 DEF Member
  <2> QED BY <2>1, <2>2
<1>11. updatePlan(u, id, F) = v \o w
  <2>1. updatePlan(u, id, F) = FlattenSeq(KeptBlocks(u.key, id, E, g))
           \o FlattenSeq(DroppedBlocks(u.key, E, SetToSeq(DOMAIN E \ KeysOf(g))))
    BY ONLY UpdatePlanIs, E = Without(F, Reserved), g = desiredFields(u.fields, E), ZenonT(90)
  <2> QED BY <2>1 DEF p, q, gone
<1> HIDE DEF v, w
<1>12. Ordered(v \o w)
  <2>1. ASSUME NEW x, NEW y, Member(x, v), Member(y, w) PROVE Before(x, y)
    <3>1. PICK i \in DOMAIN g : Keeps(k, id, E, g[i], x)
      BY <1>9, <2>1
    <3>2. PICK col \in DOMAIN E \ KeysOf(g) : Drops(k, E, col, y)
      BY <1>10, <2>1
    <3>3. x.col = g[i].key /\ y.col = col /\ y.do \notin Adding
      <4>1. OfField(E, g[i], x) /\ OfColumn(E, col, y)
        BY <3>1, <3>2, KeepsFacts, DropsFacts
      <4> QED BY <4>1 DEF OfField, OfColumn
    <3>4. g[i].key # col
      BY <3>2 DEF KeysOf
    <3> QED BY <3>3, <3>4, BeforeOther
  <2> QED BY <1>9, <1>10, <2>1, OrderedConcat
<1>13. IsSeq(v \o w) /\ \A s : Member(s, v \o w) <=> Member(s, v) \/ Member(s, w)
  BY <1>9, <1>10, ConcatOf, ConcatHas
<1> QED BY <1>9, <1>10, <1>11, <1>12, <1>13 DEF Issues

\* Whatever is issued is for a field or for a column, and each of these has its due.
LEMMA IssuesFacts ==
  ASSUME NEW k, NEW id, NEW E, NEW g, NEW S, \A s : s \in S <=> Issues(k, id, E, g, s)
  PROVE  /\ \A s \in S : \/ \E i \in DOMAIN g : OfField(E, g[i], s)
                         \/ \E col \in DOMAIN E \ KeysOf(g) : OfColumn(E, col, s)
         /\ \A i \in DOMAIN g :
              /\ g[i].key \notin DOMAIN E => /\ Due(S, "add column", g[i].key)
                                             /\ Due(S, "add field", g[i].key)
              /\ g[i].key \in DOMAIN E => Due(S, "set field", g[i].key)
              /\ g[i].key \in DOMAIN E /\ E[g[i].key].type # g[i].type => Due(S, "alter column", g[i].key)
         /\ \A col \in DOMAIN E \ KeysOf(g) :
              Due(S, "drop column", col) /\ Due(S, "delete field", col) /\ Due(S, "unmap column", col)
<1>1. ASSUME NEW s \in S
      PROVE  \/ \E i \in DOMAIN g : OfField(E, g[i], s)
             \/ \E col \in DOMAIN E \ KeysOf(g) : OfColumn(E, col, s)
  BY KeepsFacts, DropsFacts DEF Issues
<1>2. ASSUME NEW i \in DOMAIN g
      PROVE  /\ g[i].key \notin DOMAIN E => /\ Due(S, "add column", g[i].key)
                                            /\ Due(S, "add field", g[i].key)
             /\ g[i].key \in DOMAIN E => Due(S, "set field", g[i].key)
             /\ g[i].key \in DOMAIN E /\ E[g[i].key].type # g[i].type => Due(S, "alter column", g[i].key)
  <2>0. \A s : Keeps(k, id, E, g[i], s) => s \in S
    BY DEF Issues
  <2> DEFINE f == g[i]
             a == AddColumn(k, id, f)
             b == AddField(k, id, f)
             c == AlterColumn(k, id, f)
             d == SetField(k, E[f.key].id, f)
  <2>1. a.do = "add column" /\ a.col = f.key
    BY DEF AddColumn, AddField
  <2>2. b.do = "add field" /\ b.col = f.key
    BY DEF AddField
  <2>3. c.do = "alter column" /\ c.col = f.key
    BY DEF AlterColumn, AddField
  <2>4. d.do = "set field" /\ d.col = f.key
    BY DEF SetField, AddField
  <2>5. /\ f.key \notin DOMAIN E => a \in S /\ b \in S
        /\ f.key \in DOMAIN E => d \in S
        /\ f.key \in DOMAIN E /\ E[f.key].type # f.type => c \in S
    BY <2>0 DEF Keeps
  <2> HIDE DEF a, b, c, d
  <2> QED BY <2>1, <2>2, <2>3, <2>4, <2>5 DEF Due
<1>3. ASSUME NEW col \in DOMAIN E \ KeysOf(g)
      PROVE  Due(S, "drop column", col) /\ Due(S, "delete field", col) /\ Due(S, "unmap column", col)
  <2>0. \A s : Drops(k, E, col, s) => s \in S
    BY DEF Issues
  <2> DEFINE a == DropColumn(k, col)
             b == DeleteField(k, col, E[col].id)
             c == UnmapColumn(k, col)
  <2>1. a.do = "drop column" /\ a.col = col
    BY DEF DropColumn
  <2>2. b.do = "delete field" /\ b.col = col
    BY DEF DeleteField
  <2>3. c.do = "unmap column" /\ c.col = col
    BY DEF UnmapColumn
  <2>4. a \in S /\ b \in S /\ c \in S
    BY <2>0 DEF Drops
  <2> HIDE DEF a, b, c
  <2> QED BY <2>1, <2>2, <2>3, <2>4 DEF Due
<1> QED BY <1>1, <1>2, <1>3

LEMMA EditBegins ==
  ASSUME NEW u, u.key \notin Protected, Submitted(u.fields),
         \A i, j \in DOMAIN u.fields : u.fields[i].key = u.fields[j].key /\ i # j => u.fields[i].key = <<>>,
         NEW F, IsFiniteSet(DOMAIN F), <<>> \notin DOMAIN F,
         NEW C, IsMap(C), Halfway(u, F, C), Agree(F, C) \/ Apart(u.fields), NEW id,
         NEW plan, plan = updatePlan(u, id, F)
  PROVE  /\ IsSeq(plan) /\ Ordered(plan)
         /\ Between(Listed(plan), F, C) /\ Again(u, Listed(plan), F, C)
         /\ \A m : MappedTo(m, F) => Mapped(Listed(plan), F, m)
<1> DEFINE E == Without(F, Reserved)
           f == u.fields
           g == desiredFields(f, E)
           S == Listed(plan)
           k == u.key
<1>1. DOMAIN E = DOMAIN F \ Reserved /\ \A c \in DOMAIN E : E[c] = F[c]
  BY DEF Without
<1>2. IsFiniteSet(DOMAIN E)
  <2>1. DOMAIN E \subseteq DOMAIN F
    BY <1>1
  <2> QED BY <2>1, FS_Subset
<1>3. AllNamed(g, f, E, Len(f))
  BY <1>2, DesiredAreNamed
<1>4. DOMAIN g = 1..Len(f) /\ DOMAIN f = 1..Len(f) /\ Len(f) \in Nat /\ IsSeq(g)
      /\ \A i \in DOMAIN g : Named(f[i], g[i], i, E, f, g) /\ IsName(nameOf(f[i]))
  BY <1>3 DEF AllNamed, Submitted, IsSeq
<1>5. \A i, j \in DOMAIN f : f[i].key = f[j].key /\ i # j => f[i].key \notin DOMAIN E
  BY <1>1
<1>6. \A i, j \in DOMAIN g : g[i].key = g[j].key => i = j
  BY <1>3, <1>5, NamesDiffer
<1>7. IsSeq(plan) /\ Ordered(plan) /\ \A s : Member(s, plan) <=> Issues(k, id, E, g, s)
  <2> HIDE DEF E
  <2>1. E = Without(F, Reserved)
    BY DEF E
  <2> HIDE DEF g
  <2>2. g = desiredFields(u.fields, E)
    BY DEF g
  <2> QED BY <1>4, <1>6, <2>1, <2>2, UpdateIssues
<1> HIDE DEF E, g, S
<1>8. \A s : s \in S <=> Issues(k, id, E, g, s)
  BY <1>7, ListedIs DEF S
<1>9. /\ \A s \in S : \/ \E i \in DOMAIN g : OfField(E, g[i], s)
                      \/ \E col \in DOMAIN E \ KeysOf(g) : OfColumn(E, col, s)
      /\ \A i \in DOMAIN g :
           /\ g[i].key \notin DOMAIN E => /\ Due(S, "add column", g[i].key)
                                          /\ Due(S, "add field", g[i].key)
           /\ g[i].key \in DOMAIN E => Due(S, "set field", g[i].key)
           /\ g[i].key \in DOMAIN E /\ E[g[i].key].type # g[i].type => Due(S, "alter column", g[i].key)
      /\ \A col \in DOMAIN E \ KeysOf(g) :
           Due(S, "drop column", col) /\ Due(S, "delete field", col) /\ Due(S, "unmap column", col)
  BY <1>8, IssuesFacts
<1>10. \A s \in S : s.do \in Adding \cup {"seed mapping"} => \E i \in DOMAIN g : OfField(E, g[i], s)
  BY <1>9 DEF OfColumn, Adding
<1>11. \A s \in S : s.do \in Dropping =>
         s.col \in DOMAIN E \ KeysOf(g) /\ (s.do = "delete field" => s.id = E[s.col].id)
  BY <1>9 DEF OfField, OfColumn
\* A field with a name that exists was asked for by that name.
<1>12. \A i \in DOMAIN g :
         /\ g[i].type = f[i].type
         /\ g[i].key \in DOMAIN E => f[i].key = g[i].key
         /\ g[i].key \notin DOMAIN E =>
              /\ f[i].key \notin DOMAIN E /\ g[i].key \notin DOMAIN F /\ g[i].key # <<>>
              /\ Family(BaseName(nameOf(f[i]), i), g[i].key)
              /\ Apart(f) => g[i].key = resolveColumnKey(nameOf(f[i]), i, DOMAIN E)
         /\ f[i].key \in DOMAIN E => g[i].key = f[i].key
  BY <1>1, <1>4 DEF Named
<1>13. ASSUME NEW i \in DOMAIN g, NEW c, NEW t, Apart(f), Newcomer(u, F, c, t), c = g[i].key, c \notin DOMAIN E
       PROVE  t = g[i].type
  <2>1. PICK j \in DOMAIN f : /\ f[j].key \notin DOMAIN E /\ t = f[j].type
                              /\ c = resolveColumnKey(nameOf(f[j]), j, DOMAIN E)
    BY <1>1, <1>13 DEF Newcomer
  <2>2. Family(BaseName(nameOf(f[j]), j), c)
    BY <1>2, <1>4, <2>1, ResolveFresh
  <2>3. Family(BaseName(nameOf(f[i]), i), c)
    BY <1>12, <1>13
  <2>4. i = j
    BY <1>4, <1>13, <2>2, <2>3, ApartFamilies
  <2> QED BY <1>12, <2>1, <2>4
<1>14. Paired(S)
  <2> SUFFICES ASSUME NEW s \in S
               PROVE  /\ s.do \in Singly
                      /\ s.do = "add column" => Due(S, "add field", s.col) /\ SameType(S, s, "add field")
                      /\ s.do = "alter column" => Due(S, "set field", s.col) /\ SameType(S, s, "set field")
                      /\ s.do = "drop column" => Due(S, "delete field", s.col)
                      /\ s.do = "delete field" => Due(S, "unmap column", s.col)
    BY DEF Paired
  <2>0. s.do \in Singly
    BY <1>9 DEF OfField, OfColumn, Singly
  <2>1. \A s1, s2 \in S : s1.do \in Adding /\ s2.do \in Adding /\ s1.col = s2.col => s1.type = s2.type
    <3> SUFFICES ASSUME NEW s1 \in S, NEW s2 \in S, s1.do \in Adding, s2.do \in Adding, s1.col = s2.col
                 PROVE  s1.type = s2.type
      OBVIOUS
    <3>1. PICK i, j \in DOMAIN g : OfField(E, g[i], s1) /\ OfField(E, g[j], s2)
      BY <1>10
    <3>2. g[i].key = g[j].key
      BY <3>1 DEF OfField
    <3> QED BY <1>6, <3>1, <3>2 DEF OfField, Adding
  <2>2. CASE s.do \in {"add column", "alter column"}
    <3>1. PICK i \in DOMAIN g : OfField(E, g[i], s)
      BY <1>10, <2>2 DEF Adding
    <3> QED BY <1>9, <2>0, <2>1, <2>2, <3>1 DEF OfField, SameType, Adding
  <2>3. CASE s.do \in {"drop column", "delete field"}
    BY <1>9, <1>11, <2>0, <2>3 DEF Dropping
  <2> QED BY <2>0, <2>2, <2>3
<1>15. Ready(S, F, C)
  <2>1. ASSUME NEW s \in S, s.do = "add field" PROVE CanAdd(S, s, F, C)
    <3>1. PICK i \in DOMAIN g : OfField(E, g[i], s)
      BY <1>10, <2>1 DEF Adding
    <3>2. s.col = g[i].key /\ s.type = g[i].type /\ s.col \notin DOMAIN E
      BY <2>1, <3>1 DEF OfField
    <3>3. s.col \notin DOMAIN F /\ s.col # <<>> /\ Due(S, "add column", s.col)
      BY <1>9, <1>12, <3>2
    <3>4. s.col \in DOMAIN C => C[s.col] = s.type
      <4> SUFFICES ASSUME s.col \in DOMAIN C PROVE C[s.col] = s.type
        OBVIOUS
      <4>1. ~Agree(F, C)
        BY <3>3 DEF Agree
      <4>2. Newcomer(u, F, s.col, C[s.col])
        BY <3>3 DEF Halfway
      <4> QED BY <1>13, <3>2, <4>1, <4>2
    <3> QED BY <3>3, <3>4 DEF CanAdd
  <2>2. ASSUME NEW s \in S, s.do = "set field" PROVE CanSet(S, s, F, C)
    <3>1. PICK i \in DOMAIN g : OfField(E, g[i], s)
      BY <1>10, <2>2 DEF Adding
    <3>2. s.col = g[i].key /\ s.type = g[i].type /\ s.col \in DOMAIN E /\ s.id = E[s.col].id
      BY <2>2, <3>1 DEF OfField
    <3>3. s.col \in DOMAIN F /\ s.col \notin Reserved /\ F[s.col] = E[s.col] /\ f[i].key = s.col
          /\ i \in DOMAIN f /\ s.type = f[i].type
      BY <1>1, <1>4, <1>12, <3>2
    <3>4. s.col \in DOMAIN C
      BY <3>3 DEF Halfway, Spared
    <3>5. C[s.col] = s.type \/ Due(S, "alter column", s.col)
      <4>1. CASE E[s.col].type # s.type
        BY <1>9, <3>2, <4>1
      <4>2. CASE E[s.col].type = s.type /\ F[s.col].type = C[s.col]
        BY <3>3, <4>2
      <4>3. CASE F[s.col].type # C[s.col]
        <5>1. Asked(u, s.col, C[s.col])
          BY <3>3, <3>4, <4>3 DEF Halfway
        <5>2. PICK j \in DOMAIN f : f[j].key = s.col /\ f[j].type = C[s.col]
          BY <5>1 DEF Asked
        <5>3. j = i
          BY <1>5, <3>2, <3>3, <5>2
        <5> QED BY <3>3, <5>2, <5>3
      <4> QED BY <4>1, <4>2, <4>3
    <3> QED BY <3>2, <3>3, <3>4, <3>5 DEF CanSet
  <2>3. ASSUME NEW s \in S, s.do = "delete field" PROVE CanDelete(S, s, F, C)
    BY <1>1, <1>9, <1>11, <2>3 DEF CanDelete, Dropping
  <2> QED BY <2>1, <2>2, <2>3 DEF Ready
\* A column that is not asked for by its name is dropped.
<1>16. \A c \in DOMAIN F : Spared(u, c) => c \in DOMAIN E \ KeysOf(g)
  <2> SUFFICES ASSUME NEW c \in DOMAIN F, Spared(u, c) PROVE c \notin KeysOf(g)
    BY <1>1 DEF Spared
  <2> SUFFICES ASSUME NEW i \in DOMAIN g, g[i].key = c PROVE FALSE
    BY DEF KeysOf
  <2>1. c \in DOMAIN E
    BY <1>1 DEF Spared
  <2> QED BY <1>4, <1>12, <2>1 DEF Spared
<1>17. Explained(S, F, C)
  <2>1. ASSUME NEW c \in DOMAIN C \ DOMAIN F PROVE Due(S, "add field", c)
    <3>1. Apart(f) /\ Newcomer(u, F, c, C[c])
      BY <2>1 DEF Agree, Halfway
    <3>2. PICK i \in DOMAIN f : f[i].key \notin DOMAIN E /\ c = resolveColumnKey(nameOf(f[i]), i, DOMAIN E)
      BY <1>1, <3>1 DEF Newcomer
    <3>3. i \in DOMAIN g /\ g[i].key \notin DOMAIN E
      BY <1>4, <1>12, <3>2
    <3>4. g[i].key = c
      BY <1>12, <3>1, <3>2, <3>3
    <3> QED BY <1>9, <3>3, <3>4
  <2>2. ASSUME NEW c \in DOMAIN F \ DOMAIN C PROVE Due(S, "delete field", c)
    <3>1. Spared(u, c)
      BY <2>2 DEF Halfway
    <3> QED BY <1>9, <1>16, <2>2, <3>1
  <2>3. ASSUME NEW c \in DOMAIN F \cap DOMAIN C, F[c].type # C[c] PROVE Due(S, "set field", c)
    <3>1. Asked(u, c, C[c])
      BY <2>3 DEF Halfway
    <3>2. PICK i \in DOMAIN f : f[i].key = c /\ c \in DOMAIN E
      BY <1>1, <2>3, <3>1 DEF Asked
    <3>3. i \in DOMAIN g /\ g[i].key = c
      BY <1>4, <1>12, <3>2
    <3> QED BY <1>9, <3>2, <3>3
  <2> QED BY <2>1, <2>2, <2>3 DEF Explained
<1>18. Wanted(u, S, F)
  <2> SUFFICES ASSUME NEW s \in S
               PROVE  /\ s.do \in {"alter column", "set field"} => Asked(u, s.col, s.type)
                      /\ s.do \in {"drop column", "delete field"} => Spared(u, s.col)
                      /\ s.do \in {"add column", "add field"} /\ Apart(u.fields) =>
                           Newcomer(u, F, s.col, s.type)
    BY DEF Wanted
  <2>1. CASE s.do \in Adding
    <3>1. PICK i \in DOMAIN g : OfField(E, g[i], s)
      BY <1>10, <2>1
    <3>2. s.col = g[i].key /\ s.type = g[i].type /\ i \in DOMAIN f /\ s.type = f[i].type
      BY <1>4, <1>12, <2>1, <3>1 DEF OfField, Adding
    <3>3. ASSUME s.do \in {"alter column", "set field"} PROVE Asked(u, s.col, s.type)
      <4>1. s.col \in DOMAIN E
        BY <3>1, <3>2, <3>3 DEF OfField
      <4> QED BY <1>1, <1>12, <3>2, <4>1 DEF Asked
    <3>4. ASSUME s.do \in {"add column", "add field"}, Apart(f) PROVE Newcomer(u, F, s.col, s.type)
      <4>1. s.col \notin DOMAIN E
        BY <3>1, <3>2, <3>4 DEF OfField
      <4>2. f[i].key \notin DOMAIN F \ Reserved
        BY <1>1, <1>12, <3>2, <4>1
      <4>3. s.col = resolveColumnKey(nameOf(f[i]), i, DOMAIN F \ Reserved)
        BY <1>1, <1>12, <3>2, <3>4, <4>1
      <4> QED BY <3>2, <4>2, <4>3 DEF Newcomer
    <3> QED BY <2>1, <3>3, <3>4 DEF Adding
  <2>2. CASE s.do \in {"drop column", "delete field"}
    <3>1. s.col \in DOMAIN E \ KeysOf(g)
      BY <1>11, <2>2 DEF Dropping
    <3>2. ASSUME NEW i \in DOMAIN f, f[i].key = s.col PROVE FALSE
      BY <1>4, <1>12, <3>1, <3>2 DEF KeysOf
    <3> QED BY <1>1, <2>2, <3>1, <3>2 DEF Spared
  <2> QED BY <2>1, <2>2 DEF Adding
<1>19. ASSUME NEW m, MappedTo(m, F) PROVE Mapped(S, F, m)
  <2>1. ASSUME NEW s \in S, s.do = "seed mapping" PROVE CanSeed(S, s, F, m)
    <3>1. PICK i \in DOMAIN g : OfField(E, g[i], s)
      BY <1>10, <2>1
    <3>2. s.col = g[i].key /\ s.col \notin DOMAIN E
      BY <2>1, <3>1 DEF OfField
    <3>3. s.col \notin DOMAIN F /\ s.col # <<>> /\ Due(S, "add field", s.col)
      BY <1>9, <1>12, <3>2
    <3> QED BY <1>19, <3>3 DEF MappedTo, CanSeed, Ignored
  <2> QED BY <1>19, <2>1 DEF MappedTo, Mapped
<1>20. Again(u, S, F, C)
  BY <1>18 DEF Again
<1> QED BY <1>7, <1>14, <1>15, <1>17, <1>19, <1>20 DEF S, Between

\* An edit of a built-in dataset.
LEMMA RefusingConcat ==
  ASSUME NEW p, NEW q, IsSeq(p), IsSeq(q), NEW F, Refusing(p, F), Refusing(q, F)
  PROVE  Refusing(p \o q, F)
<1> DEFINE r == p \o q
<1>1. IsSeq(r) /\ Len(r) = Len(p) + Len(q)
  BY Concat
<1>2. \A i \in DOMAIN r : r[i] = IF i <= Len(p) THEN p[i] ELSE q[i - Len(p)]
  BY Concat
<1>3. DOMAIN r = 1..Len(r) /\ DOMAIN p = 1..Len(p) /\ DOMAIN q = 1..Len(q)
      /\ Len(p) \in Nat /\ Len(q) \in Nat
  BY <1>1 DEF IsSeq
<1> HIDE DEF r
<1> SUFFICES ASSUME NEW j \in DOMAIN r
             PROVE  /\ r[j].do \in {"refuse", "set field"}
                    /\ r[j].do = "set field" =>
                         /\ r[j].col \in DOMAIN F
                         /\ (\A i \in DOMAIN r : i < j => r[i].do # "refuse") =>
                              F[r[j].col].type = r[j].type
  BY DEF Refusing, r
<1>4. CASE j <= Len(p)
  <2>1. j \in DOMAIN p /\ r[j] = p[j]
    BY <1>1, <1>2, <1>3, <1>4
  <2>2. \A i \in DOMAIN p : i < j => i \in DOMAIN r /\ r[i] = p[i]
    BY <1>1, <1>2, <1>3, <1>4
  <2> QED BY <2>1, <2>2, ZenonT(60) DEF Refusing
<1>5. CASE ~(j <= Len(p))
  <2>1. j - Len(p) \in DOMAIN q /\ r[j] = q[j - Len(p)]
    BY <1>1, <1>2, <1>3, <1>5
  <2>2. \A i \in DOMAIN q : i < j - Len(p) =>
          i + Len(p) \in DOMAIN r /\ i + Len(p) < j /\ r[i + Len(p)] = q[i]
    <3> SUFFICES ASSUME NEW i \in DOMAIN q, i < j - Len(p)
                 PROVE  i + Len(p) \in DOMAIN r /\ i + Len(p) < j /\ r[i + Len(p)] = q[i]
      OBVIOUS
    <3>1. i + Len(p) \in DOMAIN r /\ i + Len(p) < j /\ ~(i + Len(p) <= Len(p)) /\ (i + Len(p)) - Len(p) = i
      BY <1>1, <1>3
    <3> QED BY <1>2, <3>1
  <2> QED BY <2>1, <2>2, ZenonT(60) DEF Refusing
<1> QED BY <1>4, <1>5

LEMMA RefusingFlattened ==
  ASSUME NEW seqs, IsSeq(seqs), NEW F, \A i \in DOMAIN seqs : IsSeq(seqs[i]) /\ Refusing(seqs[i], F)
  PROVE  IsSeq(FlattenSeq(seqs)) /\ Refusing(FlattenSeq(seqs), F)
<1>0. Len(seqs) \in Nat /\ DOMAIN seqs = 1..Len(seqs)
  BY DEF IsSeq
<1>1. CASE Len(seqs) = 0
  <2>1. FlattenSeq(seqs) = seqs
    BY <1>1 DEF FlattenSeq
  <2>2. DOMAIN seqs = {}
    BY <1>0, <1>1
  <2> QED BY <2>1, <2>2 DEF Refusing
<1>2. CASE Len(seqs) # 0
  <2>1. PICK f : Flat(f, seqs, Len(seqs)) /\ FlattenSeq(seqs) = f[Len(seqs)]
    BY <1>0, <1>2, FlattenIs
  <2>2. f = [i \in 1..Len(seqs) |-> IF i = 1 THEN seqs[i] ELSE f[i - 1] \o seqs[i]]
    BY <2>1 DEF Flat
  <2> DEFINE G == {n \in Nat : n + 1 \in 1..Len(seqs) => IsSeq(f[n + 1]) /\ Refusing(f[n + 1], F)}
  <2>3. 0 \in G
    <3>1. f[1] = seqs[1] /\ 1 \in DOMAIN seqs
      BY <1>0, <1>2, <2>2
    <3> QED BY <3>1
  <2>4. ASSUME NEW n \in Nat, n \in G PROVE n + 1 \in G
    <3> SUFFICES ASSUME n + 2 \in 1..Len(seqs) PROVE IsSeq(f[n + 2]) /\ Refusing(f[n + 2], F)
      OBVIOUS
    <3>1. IsSeq(f[n + 1]) /\ Refusing(f[n + 1], F)
      BY <2>4, <1>0
    <3>2. f[n + 2] = f[n + 1] \o seqs[n + 2]
      <4>1. n + 2 # 1 /\ (n + 2) - 1 = n + 1
        OBVIOUS
      <4> QED BY <2>2, <4>1
    <3>3. IsSeq(seqs[n + 2]) /\ Refusing(seqs[n + 2], F)
      BY <1>0
    <3> QED BY <3>1, <3>2, <3>3, ConcatOf, RefusingConcat
  <2> HIDE DEF G
  <2>5. Len(seqs) - 1 \in G /\ Len(seqs) - 1 + 1 = Len(seqs) /\ Len(seqs) \in 1..Len(seqs)
    BY <1>0, <1>2, <2>3, <2>4, SetInduction
  <2> QED BY <2>1, <2>5 DEF G
<1> QED BY <1>1, <1>2

LEMMA RefusingOne ==
  /\ \A F : Refusing(<<>>, F)
  /\ \A s, F : s.do = "refuse" => Refusing(<<s>>, F)
  /\ \A s, F : s.do = "set field" /\ s.col \in DOMAIN F /\ F[s.col].type = s.type => Refusing(<<s>>, F)
  /\ \A r, s, F : r.do = "refuse" /\ s.do = "set field" /\ s.col \in DOMAIN F =>
       IsSeq(<<r>> \o <<s>>) /\ Refusing(<<r>> \o <<s>>, F)
<1>0. DOMAIN <<>> = {}
  BY NoneFinite
<1>1. \A F : Refusing(<<>>, F)
  BY <1>0 DEF Refusing
<1>2. \A s : DOMAIN <<s>> = {1} /\ Len(<<s>>) = 1 /\ <<s>>[1] = s
  OBVIOUS
<1>3. ASSUME NEW r, NEW s, NEW F, r.do = "refuse", s.do = "set field", s.col \in DOMAIN F
      PROVE  IsSeq(<<r>> \o <<s>>) /\ Refusing(<<r>> \o <<s>>, F)
  <2> DEFINE p == <<r>>
             q == <<s>>
             todo == p \o q
  <2>0. /\ IsSeq(p) /\ IsSeq(q) /\ Len(p) = 1 /\ Len(q) = 1 /\ DOMAIN p = {1} /\ DOMAIN q = {1}
        /\ p[1] = r /\ q[1] = s
    BY <1>2, TupleIsSeq
  <2> HIDE DEF p, q
  <2>1. /\ IsSeq(todo) /\ Len(todo) = 2
        /\ \A i \in DOMAIN todo : todo[i] = IF i <= 1 THEN p[i] ELSE q[i - 1]
    <3>1. /\ IsSeq(p \o q) /\ Len(p \o q) = Len(p) + Len(q)
          /\ \A i \in DOMAIN (p \o q) : (p \o q)[i] = IF i <= Len(p) THEN p[i] ELSE q[i - Len(p)]
      BY <2>0, Concat
    <3> QED BY <2>0, <3>1
  <2> HIDE DEF todo
  <2>2. DOMAIN todo = 1..2
    BY <2>1 DEF IsSeq
  <2>3. todo[1] = r /\ todo[2] = s
    BY <2>0, <2>1, <2>2
  <2>4. Refusing(todo, F)
    <3> SUFFICES ASSUME NEW j \in DOMAIN todo
                 PROVE  /\ todo[j].do \in {"refuse", "set field"}
                        /\ todo[j].do = "set field" =>
                             /\ todo[j].col \in DOMAIN F
                             /\ (\A i \in DOMAIN todo : i < j => todo[i].do # "refuse") =>
                                  F[todo[j].col].type = todo[j].type
      BY DEF Refusing
    <3>0. 1 \in DOMAIN todo /\ 1 < 2 /\ todo[1].do = "refuse"
      <4>1. 1 \in 1..2 /\ 1 < 2
        OBVIOUS
      <4> QED BY <1>3, <2>2, <2>3, <4>1
    <3>1. CASE j = 1
      BY <1>3, <2>3, <3>1
    <3>2. CASE j = 2
      BY <1>3, <2>3, <3>2, <3>0
    <3>3. j = 1 \/ j = 2
      BY <2>2
    <3> QED BY <3>1, <3>2, <3>3
  <2> QED BY <2>1, <2>4 DEF p, q, todo
<1>4. \A s, F : s.do = "refuse" => Refusing(<<s>>, F)
  BY <1>2 DEF Refusing
<1>5. \A s, F : s.do = "set field" /\ s.col \in DOMAIN F /\ F[s.col].type = s.type => Refusing(<<s>>, F)
  BY <1>2 DEF Refusing
<1> QED BY <1>1, <1>3, <1>4, <1>5

LEMMA RefusedKept ==
  ASSUME NEW k \in Protected, NEW id, NEW F, NEW E, E = Without(F, Reserved), NEW f
  PROVE  IsSeq(KeptBlock(k, id, E, f)) /\ Refusing(KeptBlock(k, id, E, f), F)
<1> DEFINE r == Refuse(k)
           s == SetField(k, E[f.key].id, f)
<1>1. r.do = "refuse" /\ s.do = "set field" /\ s.col = f.key /\ s.type = f.type
  BY DEF Refuse, SetField, AddField
<1>2. f.key \in DOMAIN E => f.key \in DOMAIN F /\ E[f.key] = F[f.key]
  BY DEF Without
<1>3. KeptBlock(k, id, E, f) = IF f.key \notin DOMAIN E THEN <<r>>
                               ELSE (IF E[f.key].type = f.type THEN <<>> ELSE <<r>>) \o <<s>>
  BY DEF KeptBlock, Structural
<1> HIDE DEF r, s
<1>4. CASE f.key \notin DOMAIN E
  BY <1>1, <1>3, <1>4, RefusingOne, TupleIsSeq
<1>5. CASE f.key \in DOMAIN E /\ E[f.key].type = f.type
  <2>1. KeptBlock(k, id, E, f) = <<>> \o <<s>>
    BY <1>3, <1>5
  <2>2. IsSeq(<<>>) /\ IsSeq(<<s>>) /\ Refusing(<<>>, F) /\ Refusing(<<s>>, F)
    BY <1>1, <1>2, <1>5, RefusingOne, TupleIsSeq
  <2> QED BY <2>1, <2>2, RefusingConcat, ConcatOf
<1>6. CASE f.key \in DOMAIN E /\ E[f.key].type # f.type
  <2>1. KeptBlock(k, id, E, f) = <<r>> \o <<s>>
    BY <1>3, <1>6
  <2>2. IsSeq(<<r>> \o <<s>>) /\ Refusing(<<r>> \o <<s>>, F)
    BY <1>1, <1>2, <1>6, RefusingOne
  <2> QED BY <2>1, <2>2
<1> QED BY <1>4, <1>5, <1>6

LEMMA RefusedPlan ==
  ASSUME NEW u, u.key \in Protected, Len(u.fields) \in Nat, NEW id, NEW F, IsFiniteSet(DOMAIN F)
  PROVE  Refusing(updatePlan(u, id, F), F)
<1> DEFINE k == u.key
           E == Without(F, Reserved)
           g == desiredFields(u.fields, E)
           gone == SetToSeq(DOMAIN E \ KeysOf(g))
           p == KeptBlocks(k, id, E, g)
           q == DroppedBlocks(k, E, gone)
<1>1. IsSeq(g)
  BY DesiredAreListed
<1>2. IsSeq(gone)
  <2>1. IsFiniteSet(DOMAIN E \ KeysOf(g))
    <3>1. DOMAIN E \ KeysOf(g) \subseteq DOMAIN F
      BY DEF Without
    <3> QED BY <3>1, FS_Subset
  <2> QED BY <2>1, ListedOnce
<1>3. updatePlan(u, id, F) = FlattenSeq(p) \o FlattenSeq(q)
  BY UpdatePlanIs
<1>4. E = Without(F, Reserved)
  OBVIOUS
<1> HIDE DEF E, g, gone
<1>5. IsSeq(p) /\ \A i \in DOMAIN p : p[i] = KeptBlock(k, id, E, g[i])
  BY <1>1, AlikeIsSeq DEF KeptBlocks
<1>6. IsSeq(q) /\ \A i \in DOMAIN q : q[i] = DroppedBlock(k, E, gone[i])
  BY <1>2, AlikeIsSeq DEF DroppedBlocks
<1> HIDE DEF p, q
<1>0. \A a : IsSeq(<<a>>) /\ Ordered(<<a>>) /\ \A s : Member(s, <<a>>) <=> s = a
  BY TupleIsSeq, TupleOrdered
<1>7. \A i \in DOMAIN p : IsSeq(p[i]) /\ Refusing(p[i], F)
  BY <1>4, <1>5, RefusedKept
<1>8. \A i \in DOMAIN q : IsSeq(q[i]) /\ Refusing(q[i], F)
  <2> DEFINE r == Refuse(k)
  <2>1. r.do = "refuse"
    BY DEF Refuse
  <2>2. \A i \in DOMAIN q : q[i] = <<r>>
    BY <1>6 DEF DroppedBlock, Structural
  <2> HIDE DEF r
  <2> QED BY <2>1, <2>2, RefusingOne, TupleIsSeq
<1>9. /\ IsSeq(FlattenSeq(p)) /\ Refusing(FlattenSeq(p), F)
      /\ IsSeq(FlattenSeq(q)) /\ Refusing(FlattenSeq(q), F)
  BY <1>5, <1>6, <1>7, <1>8, RefusingFlattened
<1> QED BY <1>3, <1>9, RefusingConcat

-----------------------------------------------------------------------------
(* The plan of a creation.                                                  *)

Adds(k, id, g) == FlattenSeq([i \in DOMAIN g |-> <<AddField(k, id, g[i])>>])
Seeds(k, g) == FlattenSeq([i \in DOMAIN g |-> <<SeedMapping(k, g[i])>>])
AddView(k) == [do |-> "add view", key |-> k, view |-> RegisterKey(k)]

LEMMA AddsAndSeeds ==
  ASSUME NEW k, NEW id, NEW g, IsSeq(g), \A i, j \in DOMAIN g : g[i].key = g[j].key => i = j
  PROVE  /\ IsSeq(Adds(k, id, g)) /\ Ordered(Adds(k, id, g))
         /\ \A s : Member(s, Adds(k, id, g)) <=> \E i \in DOMAIN g : s = AddField(k, id, g[i])
         /\ IsSeq(Seeds(k, g)) /\ Ordered(Seeds(k, g))
         /\ \A s : Member(s, Seeds(k, g)) <=> \E i \in DOMAIN g : s = SeedMapping(k, g[i])
<1> DEFINE p == [i \in DOMAIN g |-> <<AddField(k, id, g[i])>>]
           q == [i \in DOMAIN g |-> <<SeedMapping(k, g[i])>>]
<1>1. IsSeq(p) /\ DOMAIN p = DOMAIN g /\ \A i \in DOMAIN g : p[i] = <<AddField(k, id, g[i])>>
  BY AlikeIsSeq
<1>2. IsSeq(q) /\ DOMAIN q = DOMAIN g /\ \A i \in DOMAIN g : q[i] = <<SeedMapping(k, g[i])>>
  BY AlikeIsSeq
<1>3. DOMAIN g = 1..Len(g)
  BY DEF IsSeq
<1>4. \A f : /\ AddField(k, id, f).col = f.key /\ AddField(k, id, f).do = "add field"
             /\ SeedMapping(k, f).col = f.key /\ SeedMapping(k, f).do = "seed mapping"
  BY DEF AddField, SeedMapping
<1>5. \A i, j \in DOMAIN g : i < j => g[i].key # g[j].key
  BY <1>3
<1>6. FlattenSeq(p) = Adds(k, id, g) /\ FlattenSeq(q) = Seeds(k, g)
  BY DEF Adds, Seeds
<1> HIDE DEF p, q
<1>0. \A a : IsSeq(<<a>>) /\ Ordered(<<a>>) /\ \A s : Member(s, <<a>>) <=> s = a
  BY TupleIsSeq, TupleOrdered
<1>7. \A i \in DOMAIN p : IsSeq(p[i]) /\ Ordered(p[i]) /\ \A s : Member(s, p[i]) <=> s = AddField(k, id, g[i])
  BY <1>0, <1>1
<1>8. \A i \in DOMAIN q : IsSeq(q[i]) /\ Ordered(q[i]) /\ \A s : Member(s, q[i]) <=> s = SeedMapping(k, g[i])
  BY <1>0, <1>2
<1>9. Blocks(p)
  <2> SUFFICES ASSUME NEW i \in DOMAIN p, NEW j \in DOMAIN p, i < j, NEW x, NEW y, Member(x, p[i]), Member(y, p[j])
               PROVE  Before(x, y)
    BY <1>1, <1>7 DEF Blocks
  <2>1. x = AddField(k, id, g[i]) /\ y = AddField(k, id, g[j])
    BY <1>7
  <2>2. x.col = g[i].key /\ y.col = g[j].key /\ x.do = "add field" /\ g[i].key # g[j].key
    BY <1>1, <1>4, <1>5, <2>1
  <2>3. x.do \notin Dropping /\ x.col # y.col
    BY <2>2 DEF Dropping
  <2> QED BY <2>3, BeforeOther
<1>10. Blocks(q)
  <2> SUFFICES ASSUME NEW i \in DOMAIN q, NEW j \in DOMAIN q, i < j, NEW x, NEW y, Member(x, q[i]), Member(y, q[j])
               PROVE  Before(x, y)
    BY <1>2, <1>8 DEF Blocks
  <2>1. x = SeedMapping(k, g[i]) /\ y = SeedMapping(k, g[j])
    BY <1>8
  <2>2. x.col = g[i].key /\ y.col = g[j].key /\ x.do = "seed mapping" /\ g[i].key # g[j].key
    BY <1>2, <1>4, <1>5, <2>1
  <2>3. x.do \notin Dropping /\ x.col # y.col
    BY <2>2 DEF Dropping
  <2> QED BY <2>3, BeforeOther
<1> QED BY <1>1, <1>2, <1>6, <1>7, <1>8, <1>9, <1>10, BlocksFlattened

LEMMA SameSeq ==
  ASSUME NEW p, NEW q, IsSeq(p), IsSeq(q), Len(p) = Len(q), \A i \in DOMAIN p : p[i] = q[i]
  PROVE  p = q
<1>1. p = [i \in DOMAIN p |-> p[i]] /\ q = [i \in DOMAIN q |-> q[i]] /\ DOMAIN p = DOMAIN q
  BY DEF IsSeq
<1> QED BY <1>1

LEMMA TailIs ==
  ASSUME NEW q, IsSeq(q), q # <<>>
  PROVE  /\ IsSeq(Tail(q)) /\ Len(Tail(q)) = Len(q) - 1 /\ Head(q) = q[1]
         /\ \A i \in DOMAIN Tail(q) : Tail(q)[i] = q[i + 1]
<1>1. PICK S : q \in Seq(S)
  BY DEF IsSeq
<1>2. Tail(q) \in Seq(S) /\ Len(Tail(q)) = Len(q) - 1
  BY <1>1
<1>3. \A i \in DOMAIN Tail(q) : Tail(q)[i] = q[i + 1]
  BY <1>1
<1>4. Head(q) = q[1]
  BY <1>1
<1> QED BY <1>2, <1>3, <1>4 DEF IsSeq

LEMMA SubSeqIs ==
  ASSUME NEW q, IsSeq(q), NEW m \in 1..(Len(q) + 1), NEW n \in 0..Len(q), m <= n + 1
  PROVE  /\ IsSeq(SubSeq(q, m, n)) /\ Len(SubSeq(q, m, n)) = n - m + 1
         /\ \A i \in DOMAIN SubSeq(q, m, n) : SubSeq(q, m, n)[i] = q[i + m - 1]
<1>1. PICK S : q \in Seq(S)
  BY DEF IsSeq
<1>2. SubSeq(q, m, n) \in Seq(S) /\ Len(SubSeq(q, m, n)) = n - m + 1
  BY <1>1
<1>3. \A i \in DOMAIN SubSeq(q, m, n) : SubSeq(q, m, n)[i] = q[i + m - 1]
  BY <1>1
<1> QED BY <1>2, <1>3 DEF IsSeq

\* A plan that starts with x and y.
\* A sequence that starts with two and goes on with others.
Starts(p, x, y, g) ==
  /\ IsSeq(p) /\ IsSeq(g) /\ Len(p) = 2 + Len(g)
  /\ p # <<>> /\ p[1] = x /\ p[2] = y /\ Head(p) = x
  /\ IsSeq(Tail(p)) /\ Tail(p) # <<>> /\ Head(Tail(p)) = y /\ Tail(Tail(p)) = g
  /\ SubSeq(p, 1, 2) = <<x, y>> /\ SubSeq(p, 3, Len(p)) = g

LEMMA PairThen ==
  ASSUME NEW x, NEW y, NEW q, IsSeq(q), NEW r, IsSeq(r), NEW p, p = (<<x, y>> \o q) \o r
  PROVE  Starts(p, x, y, q \o r)
<1> SUFFICES /\ IsSeq(p) /\ IsSeq(q \o r) /\ Len(p) = 2 + Len(q \o r)
             /\ p # <<>> /\ p[1] = x /\ p[2] = y /\ Head(p) = x
             /\ IsSeq(Tail(p)) /\ Tail(p) # <<>> /\ Head(Tail(p)) = y /\ Tail(Tail(p)) = q \o r
             /\ SubSeq(p, 1, 2) = <<x, y>> /\ SubSeq(p, 3, Len(p)) = q \o r
  BY DEF Starts
<1> DEFINE e == <<x, y>>
           f == e \o q
           g == q \o r
<1>1. IsSeq(e) /\ Len(e) = 2 /\ e[1] = x /\ e[2] = y /\ DOMAIN e = 1..2
  BY TupleIsSeq DEF IsSeq
<1> HIDE DEF e
<1>2. /\ IsSeq(f) /\ Len(f) = Len(e) + Len(q)
      /\ \A i \in DOMAIN f : f[i] = IF i <= Len(e) THEN e[i] ELSE q[i - Len(e)]
  BY <1>1, Concat
<1>3. /\ IsSeq(g) /\ Len(g) = Len(q) + Len(r)
      /\ \A i \in DOMAIN g : g[i] = IF i <= Len(q) THEN q[i] ELSE r[i - Len(q)]
  BY Concat
<1>4. p = f \o r
  BY DEF e
<1> HIDE DEF f, g
<1>5. /\ IsSeq(p) /\ Len(p) = Len(f) + Len(r)
      /\ \A i \in DOMAIN p : p[i] = IF i <= Len(f) THEN f[i] ELSE r[i - Len(f)]
  <2>1. /\ IsSeq(f \o r) /\ Len(f \o r) = Len(f) + Len(r)
        /\ \A i \in DOMAIN (f \o r) : (f \o r)[i] = IF i <= Len(f) THEN f[i] ELSE r[i - Len(f)]
    BY <1>2, Concat
  <2> QED BY <1>4, <2>1
<1>6. /\ Len(q) \in Nat /\ Len(r) \in Nat /\ Len(p) \in Nat /\ Len(f) \in Nat /\ Len(g) \in Nat
      /\ DOMAIN p = 1..Len(p) /\ DOMAIN f = 1..Len(f) /\ DOMAIN g = 1..Len(g)
  BY <1>2, <1>3, <1>5 DEF IsSeq
<1>7. Len(f) = 2 + Len(q) /\ Len(p) = 2 + Len(g)
  BY <1>1, <1>2, <1>3, <1>5
<1>8. p[1] = x /\ p[2] = y
  BY <1>1, <1>2, <1>5, <1>6, <1>7
<1>9. \A i \in DOMAIN g : i + 2 \in DOMAIN p /\ p[i + 2] = g[i]
  <2> SUFFICES ASSUME NEW i \in DOMAIN g PROVE i + 2 \in DOMAIN p /\ p[i + 2] = g[i]
    OBVIOUS
  <2>1. i \in 1..Len(g) /\ i + 2 \in DOMAIN p
    BY <1>6, <1>7
  <2>2. CASE i <= Len(q)
    <3>0. i \in Nat /\ 1 <= i
      BY <2>1
    <3>1. i + 2 \in 1..Len(f) /\ i + 2 <= Len(f) /\ ~(i + 2 <= 2) /\ (i + 2) - 2 = i
      <4> HIDE DEF f
      <4>1. i + 2 <= Len(f) /\ Len(f) \in Nat
        BY <1>6, <1>7, <2>2, <3>0
      <4> QED BY <3>0, <4>1
    <3>2. p[i + 2] = f[i + 2]
      BY <1>5, <2>1, <3>1
    <3>3. f[i + 2] = q[i]
      BY <1>1, <1>2, <1>6, <3>1
    <3>4. g[i] = q[i]
      BY <1>3, <2>2
    <3> QED BY <2>1, <3>2, <3>3, <3>4
  <2>3. CASE ~(i <= Len(q))
    <3>1. ~(i + 2 <= Len(f)) /\ (i + 2) - Len(f) = i - Len(q)
      BY <1>6, <1>7, <2>1, <2>3
    <3> QED BY <1>3, <1>5, <2>1, <2>3, <3>1
  <2> QED BY <2>2, <2>3
<1>10. p # <<>> /\ IsSeq(Tail(p)) /\ Len(Tail(p)) = 1 + Len(g) /\ Head(p) = x
       /\ \A i \in DOMAIN Tail(p) : Tail(p)[i] = p[i + 1]
  <2>1. Len(p) # 0
    BY <1>6, <1>7
  <2>2. p # <<>>
    BY <2>1
  <2>3. /\ IsSeq(Tail(p)) /\ Len(Tail(p)) = Len(p) - 1 /\ Head(p) = p[1]
        /\ \A i \in DOMAIN Tail(p) : Tail(p)[i] = p[i + 1]
    BY <1>5, <2>2, TailIs
  <2>4. Len(p) - 1 = 1 + Len(g)
    BY <1>6, <1>7
  <2> QED BY <1>8, <2>2, <2>3, <2>4
<1>11. DOMAIN Tail(p) = 1..(1 + Len(g))
  BY <1>10 DEF IsSeq
<1>12. Tail(p) # <<>> /\ IsSeq(Tail(Tail(p))) /\ Len(Tail(Tail(p))) = Len(g) /\ Head(Tail(p)) = y
       /\ \A i \in DOMAIN Tail(Tail(p)) : Tail(Tail(p))[i] = Tail(p)[i + 1]
  <2>1. Len(Tail(p)) # 0
    BY <1>6, <1>10
  <2>2. Tail(p) # <<>>
    BY <2>1
  <2>3. /\ IsSeq(Tail(Tail(p))) /\ Len(Tail(Tail(p))) = Len(Tail(p)) - 1 /\ Head(Tail(p)) = Tail(p)[1]
        /\ \A i \in DOMAIN Tail(Tail(p)) : Tail(Tail(p))[i] = Tail(p)[i + 1]
    BY <1>10, <2>2, TailIs
  <2>4. 1 \in DOMAIN Tail(p) /\ 1 + 1 = 2 /\ Len(Tail(p)) - 1 = Len(g)
    BY <1>6, <1>10, <1>11
  <2>5. Tail(p)[1] = y
    BY <1>8, <1>10, <2>4
  <2> QED BY <2>2, <2>3, <2>4, <2>5
<1>13. DOMAIN Tail(Tail(p)) = 1..Len(g)
  BY <1>12 DEF IsSeq
<1>14. Tail(Tail(p)) = g
  <2>1. \A i \in DOMAIN Tail(Tail(p)) : Tail(Tail(p))[i] = g[i]
    <3> SUFFICES ASSUME NEW i \in 1..Len(g) PROVE Tail(Tail(p))[i] = g[i]
      BY <1>13
    <3>0. i + 1 \in 1..(1 + Len(g))
      BY <1>6
    <3>1. Tail(Tail(p))[i] = Tail(p)[i + 1] /\ i + 1 \in DOMAIN Tail(p)
      BY <1>11, <1>12, <1>13, <3>0
    <3>2. Tail(p)[i + 1] = p[(i + 1) + 1] /\ (i + 1) + 1 = i + 2
      BY <1>10, <3>1
    <3> QED BY <1>6, <1>9, <3>1, <3>2
  <2> QED BY <1>3, <1>12, <2>1, SameSeq
<1>15. SubSeq(p, 1, 2) = e
  <2>1. /\ IsSeq(SubSeq(p, 1, 2)) /\ Len(SubSeq(p, 1, 2)) = 2
        /\ \A i \in DOMAIN SubSeq(p, 1, 2) : SubSeq(p, 1, 2)[i] = p[i + 1 - 1]
    <3>1. 1 \in 1..(Len(p) + 1) /\ 2 \in 0..Len(p) /\ 1 <= 2 + 1 /\ 2 - 1 + 1 = 2
      BY <1>6, <1>7
    <3> QED BY <1>5, <3>1, SubSeqIs, ZenonT(60)
  <2>2. DOMAIN SubSeq(p, 1, 2) = 1..2
    BY <2>1 DEF IsSeq
  <2>3. \A i \in DOMAIN SubSeq(p, 1, 2) : SubSeq(p, 1, 2)[i] = e[i]
    <3> SUFFICES ASSUME NEW i \in 1..2 PROVE SubSeq(p, 1, 2)[i] = e[i]
      BY <2>2
    <3>1. i + 1 - 1 = i /\ (i = 1 \/ i = 2)
      OBVIOUS
    <3> QED BY <1>1, <1>8, <2>1, <2>2, <3>1
  <2> QED BY <1>1, <2>1, <2>3, SameSeq, ZenonT(60)
<1>16. SubSeq(p, 3, Len(p)) = g
  <2> DEFINE t == SubSeq(p, 3, Len(p))
  <2>1. IsSeq(t) /\ Len(t) = Len(g) /\ \A i \in DOMAIN t : t[i] = p[i + 3 - 1]
    <3>1. 3 \in 1..(Len(p) + 1) /\ Len(p) \in 0..Len(p) /\ 3 <= Len(p) + 1 /\ Len(p) - 3 + 1 = Len(g)
      BY <1>6, <1>7
    <3> HIDE DEF t
    <3>2. /\ IsSeq(SubSeq(p, 3, Len(p))) /\ Len(SubSeq(p, 3, Len(p))) = Len(p) - 3 + 1
          /\ \A i \in DOMAIN SubSeq(p, 3, Len(p)) : SubSeq(p, 3, Len(p))[i] = p[i + 3 - 1]
      BY <1>5, <3>1, SubSeqIs, ZenonT(60)
    <3> QED BY <3>1, <3>2 DEF t
  <2> HIDE DEF t
  <2>2. DOMAIN t = 1..Len(g)
    BY <2>1 DEF IsSeq
  <2>3. \A i \in DOMAIN t : t[i] = g[i]
    <3> SUFFICES ASSUME NEW i \in 1..Len(g) PROVE t[i] = g[i]
      BY <2>2
    <3>1. i + 3 - 1 = i + 2
      BY <1>6
    <3> QED BY <1>6, <1>9, <2>1, <2>2, <3>1
  <2>4. t = g
    BY <1>3, <2>1, <2>3, SameSeq
  <2> QED BY <2>4 DEF t
<1> QED BY <1>3, <1>5, <1>7, <1>8, <1>10, <1>12, <1>14, <1>15, <1>16 DEF e, g

-----------------------------------------------------------------------------
ColumnsFor(g) == [col \in KeysOf(g) |-> (CHOOSE f \in ToSet(g) : f.key = col).type]
MakeTable(k, g) == [do |-> "create table", key |-> k, columns |-> ColumnsFor(g)]
Register(c, g) ==
  [do |-> "register", key |-> c.key, source |-> c.source, keyColumn |-> c.keyColumn, fields |-> g]
Remaining(k, g) == Seeds(k, g) \o <<AddView(k)>>

LEMMA CreatePlanIs ==
  ASSUME NEW c, NEW g, g = desiredFields(c.fields, <<>>)
  PROVE  createPlan(c) = (<<MakeTable(c.key, g), Register(c, g)>> \o Seeds(c.key, g)) \o <<AddView(c.key)>>
BY DEF createPlan, resolveFields, Each, MakeTable, Register, ColumnsFor, Seeds, AddView

\* What a creation has still to do after its first two statements.
LEMMA CreateBegins ==
  ASSUME NEW k, NEW id, NEW fields, Submitted(fields), NEW g, g = desiredFields(fields, <<>>),
         NEW rest, rest = Adds(k, id, g) \o Remaining(k, g)
  PROVE  /\ IsSeq(g) /\ IsSeq(Seeds(k, g)) /\ IsSeq(Adds(k, id, g)) /\ IsSeq(rest) /\ Ordered(rest)
         /\ Between(Listed(rest), <<>>, ColumnsFor(g))
         /\ Mapped(Listed(rest), <<>>, <<>>)
<1>1. AllNamed(g, fields, <<>>, Len(fields))
  BY NoneFinite, DesiredAreNamed
<1>2. IsSeq(g) /\ DOMAIN g = 1..Len(fields) /\ \A i \in DOMAIN g : g[i].key # <<>>
  BY <1>1, NoneFinite DEF AllNamed, IsSeq, Named
<1>3. \A i, j \in DOMAIN g : g[i].key = g[j].key => i = j
  BY <1>1, NoneFinite, NamesDiffer
<1> DEFINE C == ColumnsFor(g)
           S == Listed(rest)
           p == Adds(k, id, g)
           q == Seeds(k, g)
           v == AddView(k)
<1>4. IsMap(C) /\ DOMAIN C = KeysOf(g) /\ \A i \in DOMAIN g : C[g[i].key] = g[i].type
  <2>1. IsMap(C) /\ DOMAIN C = KeysOf(g)
    BY DEF ColumnsFor, IsMap
  <2>2. ASSUME NEW i \in DOMAIN g PROVE C[g[i].key] = g[i].type
    <3> DEFINE f == CHOOSE f \in ToSet(g) : f.key = g[i].key
    <3>1. g[i].key \in KeysOf(g)
      BY DEF KeysOf
    <3>2. C[g[i].key] = f.type
      BY <3>1 DEF ColumnsFor
    <3>3. g[i] \in ToSet(g)
      BY DEF ToSet
    <3>4. f \in ToSet(g) /\ f.key = g[i].key
      BY <3>3
    <3> HIDE DEF f
    <3>5. PICK j \in DOMAIN g : f = g[j]
      BY <3>4 DEF ToSet
    <3> QED BY <1>3, <3>2, <3>4, <3>5
  <2> QED BY <2>1, <2>2
<1>5. /\ IsSeq(p) /\ Ordered(p) /\ IsSeq(q) /\ Ordered(q)
      /\ \A s : Member(s, p) <=> \E i \in DOMAIN g : s = AddField(k, id, g[i])
      /\ \A s : Member(s, q) <=> \E i \in DOMAIN g : s = SeedMapping(k, g[i])
  BY <1>2, <1>3, AddsAndSeeds
<1>6. /\ v.do = "add view"
      /\ \A f : /\ AddField(k, id, f).do = "add field" /\ AddField(k, id, f).col = f.key
                /\ AddField(k, id, f).type = f.type
                /\ SeedMapping(k, f).do = "seed mapping" /\ SeedMapping(k, f).col = f.key
  BY DEF AddView, AddField, SeedMapping
<1>7. IsSeq(<<v>>) /\ Ordered(<<v>>) /\ \A s : Member(s, <<v>>) <=> s = v
  BY TupleIsSeq, TupleOrdered
<1> HIDE DEF p, q, v, C, S
<1>8. IsSeq(q \o <<v>>) /\ Ordered(q \o <<v>>) /\ \A s : Member(s, q \o <<v>>) <=> Member(s, q) \/ s = v
  <2>1. \A x, y : Member(x, q) /\ Member(y, <<v>>) => Before(x, y)
    BY <1>5, <1>6, <1>7 DEF Before, OnColumn, Adding, Dropping
  <2> QED BY <1>5, <1>7, <2>1, OrderedConcat, ConcatOf, ConcatHas
<1>9. rest = p \o (q \o <<v>>)
  BY DEF Remaining, p, q, v
<1>10. IsSeq(rest) /\ Ordered(rest) /\ \A s : Member(s, rest) <=> Member(s, p) \/ Member(s, q) \/ s = v
  <2>1. \A x, y : Member(x, p) /\ Member(y, q \o <<v>>) => Before(x, y)
    <3> SUFFICES ASSUME NEW x, NEW y, Member(x, p), Member(y, q \o <<v>>) PROVE Before(x, y)
      OBVIOUS
    <3>1. x.do = "add field" /\ y.do \in {"seed mapping", "add view"}
      <4>1. x.do = "add field"
        <5>1. PICK i \in DOMAIN g : x = AddField(k, id, g[i])
          BY <1>5
        <5> QED BY <5>1 DEF AddField
      <4>2. ASSUME Member(y, q) PROVE y.do = "seed mapping"
        <5>1. PICK i \in DOMAIN g : y = SeedMapping(k, g[i])
          BY <1>5, <4>2
        <5> QED BY <5>1 DEF SeedMapping
      <4> QED BY <1>6, <1>8, <4>1, <4>2
    <3>2. CASE y.do = "seed mapping"
      BY <3>1, <3>2 DEF Before, Dropping, Chain
    <3>3. CASE y.do = "add view"
      BY <3>1, <3>3 DEF Before, OnColumn, Adding, Dropping
    <3> QED BY <3>1, <3>2, <3>3
  <2> HIDE DEF p, q, v
  <2> DEFINE r == q \o <<v>>
  <2>2. IsSeq(r) /\ Ordered(r) /\ \A s : Member(s, r) <=> Member(s, q) \/ s = v
    BY <1>8
  <2>3. \A x, y : Member(x, p) /\ Member(y, r) => Before(x, y)
    BY <2>1
  <2> HIDE DEF r
  <2>4. Ordered(p \o r) /\ IsSeq(p \o r) /\ \A s : Member(s, p \o r) <=> Member(s, p) \/ Member(s, r)
    BY <1>5, <2>2, <2>3, OrderedConcat, ConcatOf, ConcatHas
  <2>5. rest = p \o r
    BY <1>9 DEF r
  <2> QED BY <2>2, <2>4, <2>5
<1>11. \A s : s \in S <=> \/ \E i \in DOMAIN g : s = AddField(k, id, g[i])
                          \/ \E i \in DOMAIN g : s = SeedMapping(k, g[i])
                          \/ s = v
  BY <1>5, <1>10, ListedIs DEF S
<1>12. \A s \in S : /\ s.do \in {"add field", "seed mapping", "add view"}
                    /\ s.do = "add field" => \E i \in DOMAIN g : s = AddField(k, id, g[i])
                    /\ s.do = "seed mapping" => \E i \in DOMAIN g : s = SeedMapping(k, g[i])
  <2> SUFFICES ASSUME NEW s \in S
               PROVE  /\ s.do \in {"add field", "seed mapping", "add view"}
                      /\ s.do = "add field" => \E i \in DOMAIN g : s = AddField(k, id, g[i])
                      /\ s.do = "seed mapping" => \E i \in DOMAIN g : s = SeedMapping(k, g[i])
    OBVIOUS
  <2>1. CASE \E i \in DOMAIN g : s = AddField(k, id, g[i])
    <3>1. s.do = "add field"
      BY <1>6, <2>1
    <3> QED BY <2>1, <3>1
  <2>2. CASE \E i \in DOMAIN g : s = SeedMapping(k, g[i])
    <3>1. s.do = "seed mapping"
      BY <1>6, <2>2
    <3> QED BY <2>2, <3>1
  <2>3. CASE s = v
    <3>1. s.do = "add view"
      BY <1>6, <2>3
    <3> QED BY <3>1
  <2> QED BY <1>11, <2>1, <2>2, <2>3
<1>13. \A i \in DOMAIN g : Due(S, "add field", g[i].key)
  BY <1>6, <1>11, ZenonT(60) DEF Due
<1>14. \A c \in DOMAIN C : Due(S, "add field", c)
  BY <1>4, <1>13 DEF KeysOf
<1>15. Ready(S, <<>>, C)
  <2>1. ASSUME NEW s \in S, s.do = "add field" PROVE CanAdd(S, s, <<>>, C)
    <3>1. PICK i \in DOMAIN g : s = AddField(k, id, g[i])
      BY <1>12, <2>1
    <3>1a. s.col = g[i].key /\ s.type = g[i].type
      BY <3>1 DEF AddField
    <3>2. s.col = g[i].key /\ s.type = g[i].type /\ s.col \in DOMAIN C
      BY <1>4, <3>1a DEF KeysOf
    <3> QED BY <1>2, <1>4, <3>2, NoneFinite DEF CanAdd
  <2> QED BY <1>12, <2>1 DEF Ready
<1>16. Explained(S, <<>>, C) /\ Paired(S)
  BY <1>12, <1>14, NoneFinite DEF Explained, Paired, Singly
<1>17. Mapped(S, <<>>, <<>>)
  <2>1. ASSUME NEW s \in S, s.do = "seed mapping" PROVE CanSeed(S, s, <<>>, <<>>)
    <3>1. PICK i \in DOMAIN g : s = SeedMapping(k, g[i])
      BY <1>12, <2>1
    <3>2. s.col = g[i].key
      BY <1>6, <3>1
    <3> QED BY <1>2, <1>13, <3>2, NoneFinite DEF CanSeed
  <2> QED BY <2>1, NoneFinite DEF Mapped, Apiece
<1> QED BY <1>2, <1>4, <1>5, <1>10, <1>15, <1>16, <1>17, NoneFinite DEF Between, C, S, p, q

-----------------------------------------------------------------------------
(* What a statement does to the fields, the columns and the mapping of its  *)
(* own dataset.                                                             *)

KeepsDataset(d, e, k) ==
  /\ k \in DOMAIN e.registry <=> k \in DOMAIN d.registry
  /\ k \in DOMAIN d.registry => e.registry[k].id = d.registry[k].id
Misses(s, F, G) == s.do = "set field" /\ ~(s.col \in DOMAIN F /\ F[s.col].id = s.id) => G = F
Whole(d) == DOMAIN d = DbParts /\ d.deleted \in Nat /\ RowsFinite(d) /\ Tabled(d)

FieldsBecome(d, e, k, G) ==
  /\ k \in DOMAIN d.registry /\ DOMAIN d.registry[k] = {"id", "source", "fields"}
  /\ e.registry = [d.registry EXCEPT ![k] = [d.registry[k] EXCEPT !.fields = G]]
ColumnsBecome(d, e, k, C) ==
  /\ DOMAIN d = DbParts /\ k \in DOMAIN d.tables
  /\ \E rows : e = [d EXCEPT !.tables[k] = [columns |-> C, rows |-> rows]]

LEMMA FieldsSet ==
  ASSUME NEW d, NEW e, NEW k, NEW G, FieldsBecome(d, e, k, G)
  PROVE  KeepsDataset(d, e, k) /\ fieldsOf(e, k) = G
<1>0. k \in DOMAIN d.registry /\ DOMAIN d.registry[k] = {"id", "source", "fields"}
  BY DEF FieldsBecome
<1> DEFINE r == d.registry
           new == [r[k] EXCEPT !.fields = G]
<1>1. new.id = r[k].id /\ new.fields = G
  BY <1>0
<1> HIDE DEF new
<1>2. e.registry = [r EXCEPT ![k] = new]
  BY DEF new, FieldsBecome
<1>3. DOMAIN e.registry = DOMAIN r /\ e.registry[k] = new
  BY <1>0, <1>2
<1> QED BY <1>0, <1>1, <1>3 DEF KeepsDataset, fieldsOf

LEMMA FieldsMove ==
  ASSUME NEW d, Whole(d), NEW s, Works(d, s), s.do \in {"settings", "add field", "set field", "delete field"},
         NEW e, e = Effect(d, s), NEW k, k = s.key
  PROVE  /\ KeepsDataset(d, e, k)
         /\ MovesFields(s, fieldsOf(d, k), fieldsOf(e, k)) /\ Misses(s, fieldsOf(d, k), fieldsOf(e, k))
<1> DEFINE r == d.registry
           old == fieldsOf(d, k)
<1>0. DOMAIN d = DbParts /\ \A j \in DOMAIN r : DOMAIN r[j] = {"id", "source", "fields"}
  BY DEF Whole, RowsFinite
<1>1. e = EffectOnRegistry(d, s)
  BY Dispatch DEF RegistryStatements
<1>2. IsField(d, s) => s.key \in DOMAIN r
  BY NoneFinite DEF IsField, fieldsOf
<1>3. CASE s.do = "settings"
  <2>1. CASE IsDataset(d, s)
    <3>1. e = [d EXCEPT !.registry[s.key].source = s.source]
      BY <1>1, <1>3, <2>1 DEF EffectOnRegistry
    <3>2. e.registry = [r EXCEPT ![k] = [r[k] EXCEPT !.source = s.source]]
      BY <1>0, <3>1 DEF DbParts
    <3>3. k \in DOMAIN r
      BY <2>1 DEF IsDataset
    <3>4. KeepsDataset(d, e, k) /\ fieldsOf(e, k) = old
      <4> DEFINE new == [r[k] EXCEPT !.source = s.source]
      <4>1. new.id = r[k].id /\ new.fields = r[k].fields
        BY <1>0, <3>3
      <4> HIDE DEF new
      <4>2. e.registry = [r EXCEPT ![k] = new]
        BY <3>2 DEF new
      <4>3. DOMAIN e.registry = DOMAIN r /\ e.registry[k] = new
        BY <3>3, <4>2
      <4> QED BY <3>3, <4>1, <4>3 DEF KeepsDataset, fieldsOf
    <3> QED BY <1>3, <3>4 DEF MovesFields, Misses
  <2>2. CASE ~IsDataset(d, s)
    <3>1. e = d
      BY <1>1, <1>3, <2>2 DEF EffectOnRegistry
    <3> QED BY <1>3, <3>1 DEF KeepsDataset, MovesFields, Misses
  <2> QED BY <2>1, <2>2
<1>4. CASE s.do = "add field"
  <2> DEFINE x == [label |-> s.label, type |-> s.type, id |-> d.deleted]
             G == Put(old, s.col, x)
  <2>1. IsDataset(d, s)
    BY <1>4 DEF Works
  <2>2. e = [d EXCEPT !.registry[s.key].fields = G]
    BY <1>1, <1>4 DEF EffectOnRegistry
  <2>3. x.type = s.type
    OBVIOUS
  <2> HIDE DEF x
  <2>4. /\ DOMAIN G = DOMAIN old \cup {s.col} /\ G[s.col] = x
        /\ \A c \in DOMAIN old \ {s.col} : G[c] = old[c]
    BY DEF Put
  <2> HIDE DEF G
  <2>5. e.registry = [r EXCEPT ![k] = [r[k] EXCEPT !.fields = G]]
    BY <1>0, <2>2 DEF DbParts
  <2>6. k \in DOMAIN r
    BY <2>1 DEF IsDataset
  <2>7. KeepsDataset(d, e, k) /\ fieldsOf(e, k) = G
    <3>1. FieldsBecome(d, e, k, G)
      BY <1>0, <2>5, <2>6 DEF FieldsBecome
    <3> QED BY <3>1, FieldsSet
  <2>8. MovesFields(s, old, G)
    BY <1>4, <2>3, <2>4 DEF MovesFields
  <2> QED BY <1>4, <2>7, <2>8 DEF Misses
<1>5. CASE s.do = "set field"
  <2>1. CASE IsField(d, s)
    <3> DEFINE x == [label |-> s.label, type |-> s.type, id |-> s.id]
               G == Put(old, s.col, x)
    <3>1. e = [d EXCEPT !.registry[s.key].fields = G]
      BY <1>1, <1>5, <2>1 DEF EffectOnRegistry
    <3>2. x.type = s.type /\ x.id = s.id
      OBVIOUS
    <3> HIDE DEF x
    <3>3. s.col \in DOMAIN old /\ old[s.col].id = s.id
      BY <2>1 DEF IsField
    <3>4. /\ DOMAIN G = DOMAIN old /\ G[s.col] = x
          /\ \A c \in DOMAIN old \ {s.col} : G[c] = old[c]
      BY <3>3 DEF Put
    <3> HIDE DEF G
    <3>5. e.registry = [r EXCEPT ![k] = [r[k] EXCEPT !.fields = G]]
      BY <1>0, <3>1 DEF DbParts
    <3>6. KeepsDataset(d, e, k) /\ fieldsOf(e, k) = G
      <4>1. FieldsBecome(d, e, k, G)
        BY <1>0, <1>2, <2>1, <3>5 DEF FieldsBecome
      <4> QED BY <4>1, FieldsSet
    <3>7. MovesFields(s, old, G)
      BY <1>5, <3>2, <3>4 DEF MovesFields
    <3> QED BY <3>3, <3>6, <3>7 DEF Misses
  <2>2. CASE ~IsField(d, s)
    <3>1. e = d
      BY <1>1, <1>5, <2>2 DEF EffectOnRegistry
    <3>2. ~(s.col \in DOMAIN old /\ old[s.col].id = s.id)
      BY <2>2 DEF IsField
    <3>3. MovesFields(s, old, old)
      BY <1>5, <3>2 DEF MovesFields
    <3> QED BY <3>1, <3>3 DEF KeepsDataset, Misses
  <2> QED BY <2>1, <2>2
<1>6. CASE s.do = "delete field"
  <2>1. CASE IsField(d, s)
    <3> DEFINE G == Without(old, {s.col})
    <3>1. e = Deleting([d EXCEPT !.registry[s.key].fields = G])
      BY <1>1, <1>6, <2>1 DEF EffectOnRegistry
    <3>2. DOMAIN G = DOMAIN old \ {s.col} /\ \A c \in DOMAIN G : G[c] = old[c]
      BY DEF Without
    <3> HIDE DEF G
    <3>3. e.registry = [r EXCEPT ![k] = [r[k] EXCEPT !.fields = G]]
      BY <1>0, <3>1 DEF DbParts, Deleting
    <3>4. KeepsDataset(d, e, k) /\ fieldsOf(e, k) = G
      <4>1. FieldsBecome(d, e, k, G)
        BY <1>0, <1>2, <2>1, <3>3 DEF FieldsBecome
      <4> QED BY <4>1, FieldsSet
    <3>5. MovesFields(s, old, G)
      BY <1>6, <3>2 DEF MovesFields
    <3> QED BY <1>6, <3>4, <3>5 DEF Misses
  <2>2. CASE ~IsField(d, s)
    <3>1. e = d
      BY <1>1, <1>6, <2>2 DEF EffectOnRegistry
    <3>2. MovesFields(s, old, old)
      BY <1>6, <2>2 DEF MovesFields, IsField
    <3> QED BY <1>6, <3>1, <3>2 DEF KeepsDataset, Misses
  <2> QED BY <2>1, <2>2
<1> QED BY <1>3, <1>4, <1>5, <1>6

LEMMA ColumnsSet ==
  ASSUME NEW d, NEW e, NEW k, NEW C, ColumnsBecome(d, e, k, C)
  PROVE  columnsOf(e, k) = C
<1>0. DOMAIN d = DbParts /\ k \in DOMAIN d.tables
  BY DEF ColumnsBecome
<1> PICK rows : e = [d EXCEPT !.tables[k] = [columns |-> C, rows |-> rows]]
  BY DEF ColumnsBecome
<1> DEFINE new == [columns |-> C, rows |-> rows]
<1>1. new.columns = C
  OBVIOUS
<1> HIDE DEF new
<1>2. e.tables = [d.tables EXCEPT ![k] = new]
  BY <1>0 DEF DbParts, new
<1>3. DOMAIN e.tables = DOMAIN d.tables /\ e.tables[k] = new
  BY <1>0, <1>2
<1> QED BY <1>0, <1>1, <1>3 DEF columnsOf

LEMMA ColumnsMove ==
  ASSUME NEW d, Whole(d), NEW s, Works(d, s),
         s.do \in {"add column", "alter column", "drop column", "upsert"},
         NEW e, e = Effect(d, s), NEW k, k = s.key
  PROVE  MovesColumns(s, columnsOf(d, k), columnsOf(e, k))
<1> DEFINE t == d.tables[k]
           C == columnsOf(d, k)
<1>0. DOMAIN d = DbParts /\ \A j \in DOMAIN d.tables : DOMAIN d.tables[j] = {"columns", "rows"}
  BY DEF Whole, Tabled
<1>1. e = EffectOnTable(d, s)
  BY Dispatch, ZenonT(90) DEF TableStatements
<1>2. k \in DOMAIN d.tables
  BY NoneFinite DEF Works, columnsOf
<1>3. C = t.columns
  BY <1>2 DEF columnsOf
<1>4. ASSUME NEW D, e = [d EXCEPT !.tables[k] = WithColumns(t, D)] PROVE columnsOf(e, k) = D
  <2> DEFINE rows == [n \in DOMAIN t.rows |-> [c \in DOMAIN D |->
                        IF c \in DOMAIN t.columns THEN t.rows[n][c] ELSE Null]]
  <2>1. WithColumns(t, D) = [columns |-> D, rows |-> rows]
    BY DEF WithColumns
  <2> HIDE DEF rows
  <2>2. e = [d EXCEPT !.tables[k] = [columns |-> D, rows |-> rows]]
    BY <1>4, <2>1
  <2>3. ColumnsBecome(d, e, k, D)
    BY <1>0, <1>2, <2>2 DEF ColumnsBecome
  <2> QED BY <2>3, ColumnsSet
<1>5. IsMap(Put(C, s.col, s.type)) /\ DOMAIN Put(C, s.col, s.type) = DOMAIN C \cup {s.col}
      /\ Put(C, s.col, s.type)[s.col] = s.type
      /\ \A c \in DOMAIN C \ {s.col} : Put(C, s.col, s.type)[c] = C[c]
  BY DEF Put, IsMap
<1>6. CASE s.do = "add column"
  <2>1. e = IF s.col \in DOMAIN C THEN d
            ELSE [d EXCEPT !.tables[k] = WithColumns(t, Put(C, s.col, s.type))]
    BY <1>1, <1>3, <1>6 DEF EffectOnTable
  <2>2. CASE s.col \in DOMAIN C
    BY <1>6, <2>1, <2>2 DEF MovesColumns
  <2>3. CASE s.col \notin DOMAIN C
    <3>1. columnsOf(e, k) = Put(C, s.col, s.type)
      BY <1>4, <2>1, <2>3
    <3> QED BY <1>5, <1>6, <2>3, <3>1 DEF MovesColumns
  <2> QED BY <2>2, <2>3
<1>7. CASE s.do = "alter column"
  <2>1. e = [d EXCEPT !.tables[k] = WithColumns(t, Put(C, s.col, s.type))]
    BY <1>1, <1>3, <1>7 DEF EffectOnTable
  <2>2. columnsOf(e, k) = Put(C, s.col, s.type) /\ s.col \in DOMAIN C
    BY <1>4, <1>7, <2>1 DEF Works
  <2> QED BY <1>5, <1>7, <2>2 DEF MovesColumns
<1>8. CASE s.do = "drop column"
  <2>1. e = [d EXCEPT !.tables[k] = WithColumns(t, Without(C, {s.col}))]
    BY <1>1, <1>3, <1>8 DEF EffectOnTable
  <2>2. columnsOf(e, k) = Without(C, {s.col})
    BY <1>4, <2>1
  <2>3. IsMap(Without(C, {s.col})) /\ DOMAIN Without(C, {s.col}) = DOMAIN C \ {s.col}
        /\ \A c \in DOMAIN Without(C, {s.col}) : Without(C, {s.col})[c] = C[c]
    BY DEF Without, IsMap
  <2> QED BY <1>8, <2>2, <2>3 DEF MovesColumns
<1>9. CASE s.do = "upsert"
  <2>1. e = [d EXCEPT !.tables[k] = Upserted(t, s.rows)]
    BY <1>1, <1>9 DEF EffectOnTable
  <2> DEFINE new == Upserted(t, s.rows)
  <2>2. \E rows : new = [t EXCEPT !.rows = rows]
    BY DEF Upserted
  <2>3. new.columns = t.columns
    BY <1>0, <1>2, <2>2
  <2> HIDE DEF new
  <2>4. e.tables = [d.tables EXCEPT ![k] = new]
    BY <1>0, <2>1 DEF DbParts, new
  <2>5. DOMAIN e.tables = DOMAIN d.tables /\ e.tables[k] = new
    BY <1>2, <2>4
  <2>6. columnsOf(e, k) = C
    BY <1>2, <1>3, <2>3, <2>5 DEF columnsOf
  <2> QED BY <1>9, <2>6 DEF MovesColumns
<1> QED BY <1>6, <1>7, <1>8, <1>9

\* Setting what a label is mapped onto.
Sets(s, m, n) ==
  IF s.label \in DOMAIN m /\ m[s.label].id = s.id
  THEN /\ DOMAIN n = DOMAIN m /\ n[s.label].col = s.col /\ n[s.label].id = s.id
       /\ \A l \in DOMAIN m \ {s.label} : n[l] = m[l]
  ELSE n = m

MappingMoved(d, s, e) ==
  /\ s.do # "set mapping" => MovesMapping(s, d.mapping[s.key], e.mapping[s.key])
  /\ s.do = "set mapping" => Sets(s, d.mapping[s.key], e.mapping[s.key])

Maps(d, s) == s.do \in {"seed mapping", "set mapping", "unmap column"} /\ s.key \in DOMAIN d.mapping

LEMMA MappingMoves ==
  ASSUME NEW d, Whole(d), NEW s, Maps(d, s)
  PROVE  MappingMoved(d, s, Effect(d, s))
<1> DEFINE e == Effect(d, s)
           k == s.key
           m == d.mapping[k]
<1>0. DOMAIN d = DbParts /\ s.do \in {"seed mapping", "set mapping", "unmap column"} /\ k \in DOMAIN d.mapping
  BY DEF Whole, Maps
<1>1. e = EffectOnMapping(d, s)
  BY <1>0, Dispatch DEF MappingStatements
<1>2. ASSUME NEW new, e = [d EXCEPT !.mapping[k] = new] \/ e = Deleting([d EXCEPT !.mapping[k] = new])
      PROVE  e.mapping[k] = new
  <2>1. e.mapping = [d.mapping EXCEPT ![k] = new]
    <3>1. CASE e = [d EXCEPT !.mapping[k] = new]
      BY <1>0, <3>1 DEF DbParts
    <3>2. CASE e = Deleting([d EXCEPT !.mapping[k] = new])
      BY <1>0, <3>2 DEF DbParts, Deleting
    <3> QED BY <1>2, <3>1, <3>2
  <2> QED BY <1>0, <2>1
<1>3. CASE s.do = "seed mapping"
  <2> DEFINE x == [col |-> s.col, id |-> d.deleted]
             new == Put(m, s.label, x)
  <2>1. e = IF s.label \in DOMAIN m THEN d ELSE [d EXCEPT !.mapping[k] = new]
    BY <1>1, <1>3 DEF EffectOnMapping
  <2>2. x.col = s.col
    OBVIOUS
  <2> HIDE DEF x
  <2>3. DOMAIN new = DOMAIN m \cup {s.label} /\ new[s.label] = x /\ \A l \in DOMAIN m \ {s.label} : new[l] = m[l]
    BY DEF Put
  <2> HIDE DEF new
  <2>4. CASE s.label \in DOMAIN m
    BY <1>3, <2>1, <2>4 DEF MovesMapping, MappingMoved
  <2>5. CASE s.label \notin DOMAIN m
    <3>1. e.mapping[k] = new
      BY <1>2, <2>1, <2>5
    <3> QED BY <1>3, <2>2, <2>3, <2>5, <3>1 DEF MovesMapping, MappingMoved
  <2> QED BY <2>4, <2>5
<1>4. CASE s.do = "set mapping"
  <2> DEFINE x == [col |-> s.col, id |-> s.id]
             new == Put(m, s.label, x)
  <2>1. e = IF s.label \in DOMAIN m /\ m[s.label].id = s.id THEN [d EXCEPT !.mapping[k] = new] ELSE d
    BY <1>1, <1>4 DEF EffectOnMapping
  <2>2. x.col = s.col /\ x.id = s.id
    OBVIOUS
  <2> HIDE DEF x
  <2>3. DOMAIN new = DOMAIN m \cup {s.label} /\ new[s.label] = x /\ \A l \in DOMAIN m \ {s.label} : new[l] = m[l]
    BY DEF Put
  <2> HIDE DEF new
  <2>4. CASE s.label \in DOMAIN m /\ m[s.label].id = s.id
    <3>1. e.mapping[k] = new
      BY <1>2, <2>1, <2>4
    <3> QED BY <1>4, <2>2, <2>3, <2>4, <3>1 DEF Sets, MappingMoved
  <2>5. CASE ~(s.label \in DOMAIN m /\ m[s.label].id = s.id)
    BY <1>4, <2>1, <2>5 DEF Sets, MappingMoved
  <2> QED BY <2>4, <2>5
<1>5. CASE s.do = "unmap column"
  <2> DEFINE of == {l \in DOMAIN m : m[l].col = s.col}
             new == Without(m, of)
  <2>1. e = IF of = {} THEN d ELSE Deleting([d EXCEPT !.mapping[k] = new])
    BY <1>1, <1>5 DEF EffectOnMapping
  <2>2. DOMAIN new = {l \in DOMAIN m : m[l].col # s.col} /\ \A l \in DOMAIN new : new[l] = m[l]
    BY DEF Without
  <2>3. of = {} => DOMAIN m = {l \in DOMAIN m : m[l].col # s.col}
    OBVIOUS
  <2> HIDE DEF new, of
  <2>4. CASE of = {}
    BY <1>5, <2>1, <2>3, <2>4 DEF MovesMapping, MappingMoved
  <2>5. CASE of # {}
    <3>1. e.mapping[k] = new
      BY <1>2, <2>1, <2>5
    <3> QED BY <1>5, <2>2, <3>1 DEF MovesMapping, MappingMoved
  <2> QED BY <2>4, <2>5
<1> QED BY <1>0, <1>3, <1>4, <1>5

\* Any statement but those that make or remove the dataset, and set its mapping.
Moved(d, s, e) ==
  /\ s.do \notin {"register", "unregister"} =>
       /\ KeepsDataset(d, e, s.key)
       /\ MovesFields(s, fieldsOf(d, s.key), fieldsOf(e, s.key))
       /\ Misses(s, fieldsOf(d, s.key), fieldsOf(e, s.key))
  /\ s.do \notin {"create table", "drop table"} =>
       MovesColumns(s, columnsOf(d, s.key), columnsOf(e, s.key))
  /\ s.key \in DOMAIN d.mapping =>
       /\ s.do \notin {"set mapping", "unmap"} => MovesMapping(s, d.mapping[s.key], e.mapping[s.key])
       /\ s.do = "set mapping" => Sets(s, d.mapping[s.key], e.mapping[s.key])

LEMMA EffectMoves ==
  ASSUME NEW d, Whole(d), NEW s, Works(d, s), NEW e, e = Effect(d, s)
  PROVE  Moved(d, s, e)
<1>0. Parts(d, s, e)
  BY EffectParts DEF Whole
<1>1. s.do \notin {"register", "unregister"} =>
        /\ KeepsDataset(d, e, s.key)
        /\ MovesFields(s, fieldsOf(d, s.key), fieldsOf(e, s.key))
        /\ Misses(s, fieldsOf(d, s.key), fieldsOf(e, s.key))
  <2>1. CASE s.do \in {"settings", "add field", "set field", "delete field"}
    BY <2>1, FieldsMove
  <2>2. CASE s.do \notin RegistryStatements
    <3>1. e.registry = d.registry
      BY <1>0, <2>2 DEF Parts
    <3> QED BY <2>2, <3>1 DEF RegistryStatements, KeepsDataset, fieldsOf, MovesFields, Misses
  <2> QED BY <2>1, <2>2 DEF RegistryStatements
<1>2. s.do \notin {"create table", "drop table"} =>
        MovesColumns(s, columnsOf(d, s.key), columnsOf(e, s.key))
  <2>1. CASE s.do \in {"add column", "alter column", "drop column", "upsert"}
    BY <2>1, ColumnsMove
  <2>2. CASE s.do \notin TableStatements
    <3>1. e.tables = d.tables
      BY <1>0, <2>2 DEF Parts
    <3> QED BY <2>2, <3>1 DEF TableStatements, columnsOf, MovesColumns
  <2> QED BY <2>1, <2>2 DEF TableStatements
<1>3. ASSUME s.key \in DOMAIN d.mapping
      PROVE  /\ s.do \notin {"set mapping", "unmap"} => MovesMapping(s, d.mapping[s.key], e.mapping[s.key])
             /\ s.do = "set mapping" => Sets(s, d.mapping[s.key], e.mapping[s.key])
  <2>1. CASE s.do \in {"seed mapping", "set mapping", "unmap column"}
    <3>1. MappingMoved(d, s, Effect(d, s))
      BY <1>3, <2>1, MappingMoves DEF Maps
    <3> QED BY <2>1, <3>1 DEF MappingMoved
  <2>2. CASE s.do \notin MappingStatements
    <3>1. e.mapping = d.mapping
      BY <1>0, <2>2 DEF Parts
    <3> QED BY <2>2, <3>1 DEF MappingStatements, MovesMapping
  <2> QED BY <2>1, <2>2 DEF MappingStatements
<1> QED BY <1>1, <1>2, <1>3 DEF Moved

-----------------------------------------------------------------------------
(* An edit of a built-in dataset, and the mapping of a built-in dataset.    *)

Refused(todo, s, C, G) == s.do = "set field" /\ Refusing(Tail(todo), G) /\ Agree(G, C)

LEMMA RefusingStep ==
  ASSUME NEW todo, IsSeq(todo), todo # <<>>, NEW s, s = Head(todo),
         NEW F, NEW C, Refusing(todo, F), Agree(F, C), NEW G, MovesFields(s, F, G), Misses(s, F, G)
  PROVE  s.do = "refuse" \/ (Refused(todo, s, C, G) /\ DOMAIN G = DOMAIN F)
<1> SUFFICES ASSUME s.do # "refuse"
             PROVE  /\ s.do = "set field" /\ Refusing(Tail(todo), G) /\ Agree(G, C)
                    /\ DOMAIN G = DOMAIN F
  BY DEF Refused
<1>1. 1 \in DOMAIN todo /\ todo[1] = s /\ \A i \in DOMAIN todo : ~(i < 1)
  BY FirstPlace
<1>2. s.do = "set field" /\ s.col \in DOMAIN F /\ F[s.col].type = s.type
  BY <1>1 DEF Refusing
<1>3. DOMAIN G = DOMAIN F /\ \A c \in DOMAIN F : G[c].type = F[c].type
  <2>1. CASE F[s.col].id = s.id
    BY <1>2, <2>1 DEF MovesFields
  <2>2. CASE F[s.col].id # s.id
    BY <1>2, <2>2 DEF Misses
  <2> QED BY <2>1, <2>2
<1>4. IsSeq(Tail(todo)) /\ Len(Tail(todo)) = Len(todo) - 1
      /\ \A j \in DOMAIN Tail(todo) : Tail(todo)[j] = todo[j + 1]
  BY TailIs
<1>5. DOMAIN Tail(todo) = 1..(Len(todo) - 1) /\ DOMAIN todo = 1..Len(todo) /\ Len(todo) \in Nat
  BY <1>4 DEF IsSeq
<1>6. Refusing(Tail(todo), G)
  <2> DEFINE t == Tail(todo)
  <2> SUFFICES ASSUME NEW j \in DOMAIN t
               PROVE  /\ t[j].do \in {"refuse", "set field"}
                      /\ t[j].do = "set field" =>
                           /\ t[j].col \in DOMAIN G
                           /\ (\A i \in DOMAIN t : i < j => t[i].do # "refuse") => G[t[j].col].type = t[j].type
    BY DEF Refusing
  <2>1. j + 1 \in DOMAIN todo /\ t[j] = todo[j + 1]
    BY <1>4, <1>5
  <2>2. ASSUME \A i \in DOMAIN t : i < j => t[i].do # "refuse"
        PROVE  \A i \in DOMAIN todo : i < j + 1 => todo[i].do # "refuse"
    <3> SUFFICES ASSUME NEW i \in DOMAIN todo, i < j + 1 PROVE todo[i].do # "refuse"
      OBVIOUS
    <3>1. CASE i = 1
      BY <1>1, <1>2, <3>1
    <3>2. CASE i # 1
      <4>1. i - 1 \in DOMAIN t /\ i - 1 < j /\ (i - 1) + 1 = i
        BY <1>5, <3>2
      <4>2. t[i - 1] = todo[i]
        BY <1>4, <4>1
      <4> QED BY <2>2, <4>1, <4>2
    <3> QED BY <3>1, <3>2
  <2> HIDE DEF t
  <2> QED BY <1>3, <2>1, <2>2, ZenonT(60) DEF Refusing
<1>7. Agree(G, C)
  <2>1. [c \in DOMAIN F |-> F[c].type] = [c \in DOMAIN G |-> G[c].type]
    BY <1>3
  <2> QED BY <2>1 DEF Agree
<1> QED BY <1>2, <1>3, <1>6, <1>7

\* A label is set as long as it is the one whose row was read.
LEMMA RemapsStep ==
  ASSUME NEW todo, IsSeq(todo), todo # <<>>, NEW s, s = Head(todo),
         NEW F, NEW m, Remaps(todo, F, m), NEW n, Sets(s, m, n)
  PROVE  Remaps(Tail(todo), F, n)
<1> DEFINE t == Tail(todo)
<1>1. 1 \in DOMAIN todo /\ todo[1] = s
  BY FirstPlace
<1>2. IsSeq(t) /\ Len(t) = Len(todo) - 1 /\ \A j \in DOMAIN t : t[j] = todo[j + 1]
  BY TailIs
<1>3. DOMAIN t = 1..(Len(todo) - 1) /\ DOMAIN todo = 1..Len(todo) /\ Len(todo) \in Nat
  BY <1>2 DEF IsSeq
<1>4. \A j \in DOMAIN t : j + 1 \in DOMAIN todo /\ j + 1 # 1 /\ t[j] = todo[j + 1]
  BY <1>2, <1>3
<1>5. \A i \in DOMAIN todo : i = 1 \/ \E j \in DOMAIN t : t[j] = todo[i]
  <2> SUFFICES ASSUME NEW i \in DOMAIN todo, i # 1 PROVE \E j \in DOMAIN t : t[j] = todo[i]
    OBVIOUS
  <2>1. i - 1 \in DOMAIN t /\ (i - 1) + 1 = i
    BY <1>3
  <2> QED BY <1>2, <2>1
<1> HIDE DEF t
<1>6. /\ DOMAIN n = DOMAIN m /\ s.label \in DOMAIN m /\ n[s.label].col = s.col /\ n[s.label].id = s.id
      /\ \A l \in DOMAIN m : l # s.label => n[l] = m[l]
      /\ s.col # Ignored => s.col \in DOMAIN F
      /\ \A i \in DOMAIN todo : i # 1 =>
           todo[i].label # s.label /\ (s.col # Ignored => todo[i].col # s.col)
  BY <1>1 DEF Remaps, Sets
<1>7. \A l : Unset(t, l) /\ l # s.label => Unset(todo, l)
  BY <1>1, <1>5 DEF Unset
<1>8. ASSUME NEW i \in DOMAIN t
      PROVE  /\ t[i].label \in DOMAIN n /\ n[t[i].label].id = t[i].id
             /\ t[i].col # Ignored => t[i].col \in DOMAIN F
             /\ \A j \in DOMAIN t : i # j =>
                  t[i].label # t[j].label /\ (t[i].col # Ignored => t[i].col # t[j].col)
  <2>1. \A j \in DOMAIN t : i # j => i + 1 # j + 1
    BY <1>3
  <2> QED BY <1>4, <1>6, <2>1 DEF Remaps
<1>9. ASSUME NEW l \in DOMAIN n, n[l].col # Ignored, Unset(t, l)
      PROVE  /\ n[l].col \in DOMAIN F
             /\ \A i \in DOMAIN t : t[i].col # n[l].col
             /\ \A o \in DOMAIN n : Unset(t, o) /\ n[o].col = n[l].col => o = l
  <2>1. CASE l = s.label
    <3>1. n[l].col = s.col /\ s.col \in DOMAIN F /\ s.col # Ignored
      BY <1>6, <1>9, <2>1
    <3>2. \A i \in DOMAIN t : t[i].col # s.col
      BY <1>4, <1>6, <3>1
    <3>3. ASSUME NEW o \in DOMAIN n, Unset(t, o), n[o].col = s.col, o # s.label PROVE FALSE
      <4>1. Unset(todo, o) /\ o \in DOMAIN m /\ m[o].col = s.col
        BY <1>6, <1>7, <3>3
      <4> QED BY <1>1, <3>1, <4>1 DEF Remaps
    <3> QED BY <2>1, <3>1, <3>2, <3>3
  <2>2. CASE l # s.label
    <3>1. Unset(todo, l) /\ l \in DOMAIN m /\ n[l] = m[l]
      BY <1>6, <1>7, <1>9, <2>2
    <3>2. /\ m[l].col \in DOMAIN F
          /\ \A i \in DOMAIN todo : todo[i].col # m[l].col
          /\ \A o \in DOMAIN m : Unset(todo, o) /\ m[o].col = m[l].col => o = l
      BY <1>9, <3>1 DEF Remaps
    <3>3. s.col # m[l].col
      BY <1>1, <3>2
    <3>4. ASSUME NEW o \in DOMAIN n, Unset(t, o), n[o].col = n[l].col PROVE o = l
      <4>1. o # s.label
        BY <1>6, <3>1, <3>3, <3>4
      <4> QED BY <1>6, <1>7, <3>1, <3>2, <3>4, <4>1
    <3> QED BY <1>4, <3>1, <3>2, <3>4
  <2> QED BY <2>1, <2>2
<1> QED BY <1>8, <1>9 DEF Remaps, t

LEMMA RemapsEnds ==
  ASSUME NEW F, NEW m, Remaps(<<>>, F, m)
  PROVE  MappedTo(m, F)
BY NoneFinite DEF Remaps, Unset, MappedTo, Apiece

LEMMA RemapsBegins ==
  ASSUME NEW k, NEW set, IsFiniteSet(DOMAIN set), NEW m, m = db.mapping[k], DOMAIN set \subseteq DOMAIN m,
         NEW F, MappedTo(m, F),
         \A l \in DOMAIN set : set[l] # Ignored => set[l] \in DOMAIN F,
         \A l, o \in DOMAIN set : set[l] # Ignored /\ set[l] = set[o] => l = o,
         \A l \in DOMAIN m \ DOMAIN set : \A o \in DOMAIN set : m[l].col # Ignored => set[o] # m[l].col
  PROVE  Remaps(MappingPlan(k, set), F, m)
<1> DEFINE labels == SetToSeq(DOMAIN set)
           plan == MappingPlan(k, set)
<1>1. /\ IsSeq(labels) /\ \A x : Member(x, labels) <=> x \in DOMAIN set
      /\ \A i, j \in DOMAIN labels : labels[i] = labels[j] => i = j
  BY ListedOnce
<1>2. /\ DOMAIN plan = DOMAIN labels
      /\ \A i \in DOMAIN labels : plan[i] = SetMapping(k, labels[i], set[labels[i]])
  BY DEF MappingPlan
<1>3. \A l : SetMapping(k, l, set[l]).label = l /\ SetMapping(k, l, set[l]).id = m[l].id
             /\ SetMapping(k, l, set[l]).col = set[l]
  BY DEF SetMapping
<1> HIDE DEF labels, plan
<1>4. \A i \in DOMAIN plan : /\ plan[i].label = labels[i] /\ plan[i].id = m[labels[i]].id
                             /\ plan[i].col = set[labels[i]]
                             /\ labels[i] \in DOMAIN set /\ labels[i] \in DOMAIN m
  BY <1>1, <1>2, <1>3 DEF Member
<1>5. \A l : Unset(plan, l) => l \notin DOMAIN set
  BY <1>1, <1>2, <1>4 DEF Unset, Member
<1>6. ASSUME NEW i \in DOMAIN plan
      PROVE  /\ plan[i].label \in DOMAIN m /\ m[plan[i].label].id = plan[i].id
             /\ plan[i].col # Ignored => plan[i].col \in DOMAIN F
             /\ \A j \in DOMAIN plan : i # j =>
                  plan[i].label # plan[j].label /\ (plan[i].col # Ignored => plan[i].col # plan[j].col)
  BY <1>1, <1>2, <1>4
<1>7. ASSUME NEW l \in DOMAIN m, m[l].col # Ignored, Unset(plan, l)
      PROVE  /\ m[l].col \in DOMAIN F
             /\ \A i \in DOMAIN plan : plan[i].col # m[l].col
             /\ \A o \in DOMAIN m : Unset(plan, o) /\ m[o].col = m[l].col => o = l
  <2>1. l \in DOMAIN m \ DOMAIN set
    BY <1>5, <1>7
  <2> QED BY <1>4, <1>7, <2>1 DEF MappedTo, Apiece
<1> QED BY <1>6, <1>7 DEF Remaps, plan

-----------------------------------------------------------------------------
(* What happens elsewhere leaves a dataset as it is.                        *)

Still(k) ==
  /\ SameAt(db'.registry, db.registry, k) /\ columnsOf(db', k) = columnsOf(db, k)
  /\ db'.mapping[k] = db.mapping[k]
  /\ hist'.hurt[k] = hist.hurt[k] /\ (k \in hist'.loose <=> k \in hist.loose)

LEMMA StillFacts ==
  ASSUME NEW k, Still(k)
  PROVE  /\ k \in DOMAIN db'.registry <=> k \in DOMAIN db.registry
         /\ k \in DOMAIN db.registry => db'.registry[k] = db.registry[k]
         /\ fieldsOf(db', k) = fieldsOf(db, k) /\ columnsOf(db', k) = columnsOf(db, k)
         /\ db'.mapping[k] = db.mapping[k]
         /\ hist'.hurt[k] = hist.hurt[k] /\ (k \in hist'.loose <=> k \in hist.loose)
         /\ Steady(k)' <=> Steady(k)
         /\ Sound(k)' <=> Sound(k)
BY DEF Still, SameAt, fieldsOf, Steady, Sound

LEMMA StillSettled ==
  ASSUME NEW k, Still(k), Settled(k)
  PROVE  Settled(k)'
BY StillFacts DEF Settled

LEMMA StillOnCourse ==
  ASSUME NEW o, NEW p, p.kind = o.kind, p.key = o.key, p.request = o.request, p.todo = o.todo,
         Still(o.key), OnCourse(o)
  PROVE  OnCourse(p)'
<1> DEFINE k == o.key
<1>1. /\ k \in DOMAIN db'.registry <=> k \in DOMAIN db.registry
      /\ k \in DOMAIN db.registry => db'.registry[k] = db.registry[k]
      /\ fieldsOf(db', k) = fieldsOf(db, k) /\ columnsOf(db', k) = columnsOf(db, k)
      /\ db'.mapping[k] = db.mapping[k]
      /\ hist'.hurt[k] = hist.hurt[k] /\ (k \in hist'.loose <=> k \in hist.loose)
      /\ Steady(k)' <=> Steady(k)
      /\ Sound(k)' <=> Sound(k)
  BY StillFacts
<1>2. CASE o.kind = "update"
  <2>1. k \in DOMAIN db.registry /\ Reading(o) => Reading(p)'
    BY <1>1 DEF Reading
  <2>2. Editing(p)'
    BY <1>1, <1>2, <2>1 DEF OnCourse, Editing
  <2> QED BY <1>2, <2>2 DEF OnCourse
<1>3. CASE o.kind = "create"
  <2>1. Making(p)'
    BY <1>1, <1>3 DEF OnCourse, Making
  <2> QED BY <1>3, <2>1 DEF OnCourse
<1>4. CASE o.kind = "mapping"
  <2>1. Mapping(p)'
    BY <1>1, <1>4 DEF OnCourse, Mapping
  <2> QED BY <1>4, <2>1 DEF OnCourse
<1>5. CASE o.kind = "remove"
  <2>1. Leaving(p)'
    BY <1>1, <1>5 DEF OnCourse, Leaving, Awaits
  <2> QED BY <1>5, <2>1 DEF OnCourse
<1>6. CASE o.kind \notin {"update", "create", "mapping", "remove"}
  BY <1>6 DEF OnCourse
<1> QED BY <1>2, <1>3, <1>4, <1>5, <1>6

-----------------------------------------------------------------------------
(* What an operation finds when it begins.                                  *)

\* A dataset that no operation was on, or none that shapes it.
LEMMA Unshared ==
  ASSUME Tally, NEW k \in Keys, ~Shared(k)
  PROVE  Settled(k)
BY DEF Tally, Shared, Changing

LEMMA CreateOnCourse ==
  ASSUME Shape, Tally, NEW a \in Admins, NEW c \in Creates, create(a, c), NEW p, p = ops'[a]
  PROVE  p.key \in Keys /\ (~p.shared => OnCourse(p))
<1> DEFINE plan == createPlan(c)
<1>1. c.key \notin DOMAIN db.registry /\ Begin(a, "create", c.key, c, plan)
  BY DEF create
<1>2. PlanFits("create", c.key, plan)
  BY SubmittedAssumption, CreatePlanFits
<1> HIDE DEF plan
<1>3. /\ p.kind = "create" /\ p.key = c.key /\ p.request = c /\ p.todo = plan
  BY <1>1, BeginOp
<1>4. p.shared = Shared(c.key)
  BY <1>1, JoinedCarries DEF Begin
<1>5. c.key \in Keys
  BY NamesAssumption
<1>6. ~Shared(c.key) => Settled(c.key)
  BY <1>5, Unshared
<1>7. ~p.shared => (c.key \notin hist.loose => db.mapping[c.key] = <<>>)
  BY <1>1, <1>4, <1>6 DEF Settled
<1>8. ~p.shared => Making(p)
  BY <1>3, <1>7 DEF Making, plan
<1> QED BY <1>3, <1>5, <1>8 DEF OnCourse

LEMMA UpdateOnCourse ==
  ASSUME Shape, Tally, NEW a \in Admins, NEW u \in Updates, update(a, u), NEW p, p = ops'[a]
  PROVE  p.kind # "create" /\ (~p.shared => OnCourse(p))
<1> DEFINE k == u.key
           todo == <<Settings(u, db.registry[k].id), ReadFields(u, db.registry[k].id)>>
<1>1. k \in DOMAIN db.registry /\ Begin(a, "update", k, u, todo)
  BY DEF update, Settings, ReadFields
<1> HIDE DEF todo
<1>2. /\ p.kind = "update" /\ p.key = k /\ p.request = u /\ p.todo = todo
  BY <1>1, BeginOp
<1>3. p.shared = Shared(k)
  BY <1>1, JoinedCarries DEF Begin
<1>4. k \in Keys
  BY <1>1 DEF Tally
<1>5. ~Shared(k) => Settled(k)
  BY <1>4, Unshared
<1>6. ASSUME ~p.shared, hist.hurt[k] \subseteq {u}, hist.hurt[k] = {} \/ Repeats(k, u)
      PROVE  Reading(p)
  <2>1. Steady(k)
    BY <1>6 DEF Steady
  <2>2. Sound(k) /\ (k \notin hist.loose => MappedTo(db.mapping[k], fieldsOf(db, k)))
    BY <1>1, <1>3, <1>5, <1>6, <2>1 DEF Settled
  <2> QED BY <1>2, <2>2 DEF Reading, todo
<1>7. ~p.shared => Editing(p)
  BY <1>1, <1>2, <1>6 DEF Editing
<1> QED BY <1>2, <1>7 DEF OnCourse

LEMMA RemoveOnCourse ==
  ASSUME Shape, NEW a \in Admins, NEW k, remove(a, k), NEW p, p = ops'[a]
  PROVE  p.kind # "create" /\ OnCourse(p)
<1> DEFINE id == db.registry[k].id
           todo == removePlan(k, id)
           cs == chartsOn(db, placesOf(db, k))
<1>1. Begin(a, "remove", k, cs, todo)
  BY DEF remove
<1>2. \A do \in RemoveDuty : \E s : Member(s, todo) /\ s.do = do /\ s.id = id
  BY RemovePlanFits
<1> HIDE DEF todo, cs
<1>3. /\ p.kind = "remove" /\ p.key = k /\ p.todo = todo
  BY <1>1, BeginOp
<1>4. "unmap" \in RemoveDuty /\ "unregister" \in RemoveDuty
  BY DEF RemoveDuty
<1>5. Leaving(p)
  BY <1>2, <1>3, <1>4 DEF Leaving, Awaits
<1> QED BY <1>3, <1>5 DEF OnCourse

\* The columns a field may be mapped onto are fields of the built-in dataset.
LEMMA TargetsAreFields ==
  ASSUME NEW k \in Protected, Sound(k), NEW c \in targetColumns
  PROVE  c \in DOMAIN fieldsOf(db, k)
<1>1. \A j \in Protected : j = k
  BY NamesAssumption
<1>2. c \in DOMAIN columnsOf(db, k)
  BY <1>1 DEF targetColumns
<1>3. Agree(fieldsOf(db, k), columnsOf(db, k))
  BY DEF Sound
<1> QED BY <1>2, <1>3 DEF Agree

\* A choice of columns that save and autoMap accept.
Chosen(k, set) ==
  LET m == db.mapping[k]
  IN /\ IsFiniteSet(DOMAIN set) /\ DOMAIN set \subseteq DOMAIN m /\ set # <<>>
     /\ \A l \in DOMAIN set : set[l] # Ignored => set[l] \in targetColumns
     /\ \A l, o \in DOMAIN set : set[l] # Ignored /\ set[l] = set[o] => l = o
     /\ \A l \in DOMAIN m \ DOMAIN set : \A o \in DOMAIN set : m[l].col # Ignored => set[o] # m[l].col

LEMMA ChosenOnCourse ==
  ASSUME Shape, Tally, NEW a \in Admins, NEW k \in Keys, NEW set, Chosen(k, set),
         Begin(a, "mapping", k, Null, MappingPlan(k, set)), NEW p, p = ops'[a]
  PROVE  p.kind # "create" /\ (~p.shared => OnCourse(p))
<1> DEFINE todo == MappingPlan(k, set)
           m == db.mapping[k]
           F == fieldsOf(db, k)
<1>1. Begin(a, "mapping", k, Null, todo)
  OBVIOUS
<1> HIDE DEF todo
<1>2. /\ p.kind = "mapping" /\ p.key = k /\ p.todo = todo
  BY <1>1, BeginOp
<1>3. p.shared = Shared(k)
  BY <1>1, JoinedCarries DEF Begin
<1>4. ~p.shared => Settled(k)
  BY <1>3, Unshared
<1>5. ASSUME ~p.shared, k \in Protected, k \notin hist.loose PROVE k \in DOMAIN db.registry
  <2>1. SUFFICES ASSUME k \notin DOMAIN db.registry PROVE FALSE
    OBVIOUS
  <2>2. m = <<>>
    BY <1>4, <1>5, <2>1 DEF Settled
  <2>3. DOMAIN set = {}
    BY <2>2, NoneFinite DEF Chosen
  <2> QED BY <2>3 DEF Chosen
<1>6. ASSUME ~p.shared, k \in Protected, k \notin hist.loose, Steady(k) PROVE Remaps(todo, F, m)
  <2>1. Sound(k) /\ MappedTo(m, F)
    BY <1>4, <1>5, <1>6 DEF Settled
  <2>2. \A l \in DOMAIN set : set[l] # Ignored => set[l] \in DOMAIN F
    BY <1>6, <2>1, TargetsAreFields DEF Chosen
  <2> QED BY <2>1, <2>2, RemapsBegins DEF Chosen, todo
<1>7. ~p.shared => Mapping(p)
  BY <1>2, <1>4, <1>5, <1>6 DEF Mapping, Settled
<1> QED BY <1>2, <1>7 DEF OnCourse

LEMMA AutoIsChosen ==
  ASSUME Finite, NEW k \in Keys, NEW set, set = autoMapped(k), set # <<>>
  PROVE  Chosen(k, set)
<1> DEFINE m == db.mapping[k]
           free == targetColumns \ {m[l].col : l \in DOMAIN m}
           named(l) == m[l].col = Ignored /\ NormalizeKey[l] \in free
           pick(l) == CHOOSE x \in {y \in DOMAIN m : named(y) /\ NormalizeKey[y] = NormalizeKey[l]} : TRUE
           first(l) == \A o \in DOMAIN m : named(o) /\ NormalizeKey[o] = NormalizeKey[l] => l = pick(l)
           L == {l \in DOMAIN m : named(l) /\ first(l)}
<1>1. set = [label \in L |-> NormalizeKey[label]]
  BY ZenonT(30) DEF autoMapped
<1>2. \A l \in L : l = pick(l)
  OBVIOUS
<1>3. \A l, o \in L : NormalizeKey[l] = NormalizeKey[o] => pick(l) = pick(o)
  OBVIOUS
<1>4. L \subseteq DOMAIN m /\ \A l \in L : NormalizeKey[l] \in free
  OBVIOUS
<1> HIDE DEF pick, L
<1>5. \A l, o \in L : NormalizeKey[l] = NormalizeKey[o] => l = o
  BY <1>2, <1>3
<1>6. IsFiniteSet(L)
  BY <1>4, FS_Subset DEF Finite
<1>7. DOMAIN set = L /\ \A l \in L : set[l] = NormalizeKey[l]
  BY <1>1
<1> QED BY <1>4, <1>5, <1>6, <1>7, SMTT(40) DEF Chosen

LEMMA SaveIsChosen ==
  ASSUME NEW a, NEW e \in Mappings, saveMapping(a, e.key, e.set)
  PROVE  Chosen(e.key, e.set)
<1>1. IsFiniteSet(DOMAIN e.set)
  BY SubmittedAssumption
<1> QED BY <1>1 DEF Chosen, saveMapping

LEMMA RequestOnCourse ==
  ASSUME AdminInv, Tally, NEW a \in Admins, Request(a), NEW p, p = ops'[a]
  PROVE  /\ p.kind = "create" => p.key \in Keys
         /\ p.key \in Keys /\ ~p.shared => OnCourse(p)
<1>0. Shape /\ Finite
  BY DEF AdminInv
<1>1. CASE \E c \in Creates : create(a, c)
  BY <1>0, <1>1, CreateOnCourse
<1>2. CASE \E u \in Updates : update(a, u)
  BY <1>0, <1>2, UpdateOnCourse
<1>3. CASE \E k \in Keys : remove(a, k)
  BY <1>0, <1>3, RemoveOnCourse
<1>4. CASE \E k \in Keys : autoMap(a, k)
  <2>1. PICK k \in Keys : autoMapped(k) # <<>> /\ Begin(a, "mapping", k, Null, MappingPlan(k, autoMapped(k)))
    BY <1>4 DEF autoMap
  <2>2. Chosen(k, autoMapped(k))
    BY <1>0, <2>1, AutoIsChosen
  <2> QED BY <1>0, <2>1, <2>2, ChosenOnCourse
<1>5. CASE \E m \in Mappings : saveMapping(a, m.key, m.set)
  <2>1. PICK m \in Mappings : saveMapping(a, m.key, m.set)
    BY <1>5
  <2>2. Chosen(m.key, m.set)
    BY <2>1, SaveIsChosen
  <2>3. Begin(a, "mapping", m.key, Null, MappingPlan(m.key, m.set))
    BY <2>1 DEF saveMapping
  <2>4. p.key = m.key /\ p.kind = "mapping"
    BY <1>0, <2>3, BeginOp
  <2>5. m.key \in Keys => p.kind # "create" /\ (~p.shared => OnCourse(p))
    BY <1>0, <2>2, <2>3, ChosenOnCourse
  <2> QED BY <2>4, <2>5
<1>6. CASE \E kind, k, request, todo : kind \in {"import", "view", "unview"} /\ Begin(a, kind, k, request, todo)
  <2>1. p.kind \in {"import", "view", "unview"}
    BY <1>0, <1>6, BeginOp
  <2> QED BY <2>1 DEF OnCourse
<1>7. CASE \E f \in Files : importRows(a, f)
  BY <1>6, <1>7 DEF importRows
<1>8. CASE \E k \in Keys, name \in Names : createView(a, k, name)
  <2>1. PICK k \in Keys, name \in Names : createView(a, k, name)
    BY <1>8
  <2> DEFINE free == {n \in 1..(Cardinality(DOMAIN db.views) + 1) : <<name, n>> \notin DOMAIN db.views}
             v == IF <<name>> \in DOMAIN db.views THEN <<name, Min(free)>> ELSE <<name>>
             todo == <<[do |-> "add view", key |-> k, view |-> v]>>
  <2>2. Begin(a, "view", k, Null, todo)
    BY <2>1 DEF createView
  <2> HIDE DEF todo
  <2> QED BY <1>6, <2>2
<1>9. CASE \E v \in DOMAIN db.views : deleteView(a, v)
  <2>1. PICK v : deleteView(a, v)
    BY <1>9
  <2> DEFINE k == db.views[v].of
             todo == <<[do |-> "find charts", key |-> k, places |-> {<<"view", v>>}],
                       [do |-> "delete view", key |-> k, view |-> v, id |-> db.views[v].id]>>
  <2>2. Begin(a, "unview", k, Null, todo)
    BY <2>1 DEF deleteView
  <2> HIDE DEF k, todo
  <2> QED BY <1>6, <2>2
<1> QED BY <1>1, <1>2, <1>3, <1>4, <1>5, <1>7, <1>8, <1>9 DEF Request

LEMMA TallyRequest ==
  ASSUME AdminInv, Tally, NEW a \in Admins, Request(a)
  PROVE  Tally'
<1>1. PICK kind, k, request, todo : Begun(a, kind, k, request, todo)
  BY Requested DEF AdminInv
<1>2. db' = db /\ hist' = hist /\ Shape
  BY <1>1 DEF Begun, Begin, AdminInv
<1>3. \A j : Still(j)
  BY <1>2 DEF Still, SameAt
<1>4. \A b \in Admins \ {a} : Carried(ops[b], ops'[b])
  BY <1>1, <1>2, BegunOps
<1>5. ops[a] = Idle /\ ops'[a] # Idle
  BY <1>1, <1>2, BegunOps DEF Begun
<1>6. ASSUME NEW j \in Keys, ~Changing(j)' PROVE Settled(j)'
  <2>1. \A b \in Admins : ops[b] # Idle => ops'[b] # Idle /\ ops'[b].key = ops[b].key /\ ops'[b].kind = ops[b].kind
    BY <1>4, <1>5, CarriedFacts
  <2>2. ~Changing(j)
    BY <1>6, <2>1 DEF Changing
  <2>3. Settled(j)
    BY <2>2 DEF Tally
  <2> QED BY <1>3, <2>3, StillSettled
<1>7. ASSUME NEW b \in Admins, ops'[b] # Idle
      PROVE  /\ ops'[b].kind = "create" => ops'[b].key \in Keys
             /\ ops'[b].key \in Keys /\ ~ops'[b].shared => OnCourse(ops[b])'
  <2>1. PICK o, p : o = ops[b] /\ p = ops'[b]
    OBVIOUS
  <2>2. CASE b = a
    <3>1. /\ p.kind = "create" => p.key \in Keys
          /\ p.key \in Keys /\ ~p.shared => OnCourse(p)
      BY <2>1, <2>2, RequestOnCourse
    <3>2. OnCourse(p) => OnCourse(p)'
      BY <1>3, StillOnCourse
    <3>3. OnCourse(p)' => OnCourse(ops[b])'
      BY <2>1 DEF OnCourse, Editing, Making, Mapping, Leaving, Reading, Awaits
    <3> QED BY <2>1, <3>1, <3>2, <3>3
  <2>3. CASE b # a
    <3>1. /\ o # Idle /\ p.kind = o.kind /\ p.key = o.key /\ p.request = o.request /\ p.todo = o.todo
          /\ o.shared => p.shared
      BY <1>4, <1>7, <2>1, <2>3, CarriedFacts
    <3>2. /\ o.kind = "create" => o.key \in Keys
          /\ o.key \in Keys /\ ~o.shared => OnCourse(o)
      BY <2>1, <3>1 DEF Tally
    <3>3. OnCourse(o) => OnCourse(p)'
      BY <1>3, <3>1, StillOnCourse
    <3>4. OnCourse(p)' => OnCourse(ops[b])'
      BY <2>1 DEF OnCourse, Editing, Making, Mapping, Leaving, Reading, Awaits
    <3> QED BY <2>1, <3>1, <3>2, <3>3, <3>4
  <2> QED BY <2>2, <2>3
<1>8. DOMAIN hist'.hurt = Keys /\ DOMAIN db'.registry \subseteq Keys
  BY <1>2 DEF Tally
<1> QED BY <1>6, <1>7, <1>8 DEF Tally

-----------------------------------------------------------------------------
(* A statement of an operation that has its dataset for itself.             *)

\* The statement s of op, which goes on as p.
Goes(op, s, p) ==
  /\ Whole(db) /\ DOMAIN db.mapping = Keys /\ op.key \in Keys
  /\ IsSeq(op.todo) /\ op.todo # <<>> /\ s = Head(op.todo) /\ s.key = op.key
  /\ Fits(op.kind, op.key, s) /\ Works(db, s) /\ db' = Effect(db, s)
  /\ Parts(db, s, db') /\ Moved(db, s, db') /\ Continues(op, s, p.todo)
  /\ p.kind = op.kind /\ p.key = op.key /\ p.request = op.request
  /\ p.todo = Found(db, s) \o Tail(op.todo)
  /\ hist'.hurt[op.key] = hist.hurt[op.key] /\ (op.key \in hist'.loose <=> op.key \in hist.loose)

LEMMA NothingBefore ==
  ASSUME NEW t, IsSeq(t)
  PROVE  <<>> \o t = t
<1> DEFINE r == <<>> \o t
<1>1. IsSeq(<<>>) /\ Len(<<>>) = 0
  BY TupleIsSeq
<1>2. /\ IsSeq(r) /\ Len(r) = Len(<<>>) + Len(t)
      /\ \A i \in DOMAIN r : r[i] = IF i <= Len(<<>>) THEN <<>>[i] ELSE t[i - Len(<<>>)]
  BY <1>1, Concat
<1> HIDE DEF r
<1>3. Len(t) \in Nat /\ DOMAIN r = 1..Len(r)
  BY <1>2 DEF IsSeq
<1>4. Len(r) = 0 + Len(t) /\ \A i \in DOMAIN r : r[i] = IF i <= 0 THEN <<>>[i] ELSE t[i - 0]
  BY <1>1, <1>2
<1>5. Len(r) = Len(t)
  BY <1>3, <1>4
<1>6. \A i \in DOMAIN r : r[i] = t[i]
  <2> SUFFICES ASSUME NEW i \in DOMAIN r PROVE r[i] = t[i]
    OBVIOUS
  <2>1. i \in Nat /\ ~(i <= 0) /\ i - 0 = i
    BY <1>3, <1>5
  <2> QED BY <1>4, <2>1
<1>7. r = t
  BY <1>2, <1>5, <1>6, SameSeq
<1> QED BY <1>7 DEF r

LEMMA NothingFound ==
  ASSUME NEW q, IsSeq(q), q # <<>>, NEW d, NEW s,
         s.do \notin {"register", "read fields", "find matviews", "find views", "find charts"}
  PROVE  Found(d, s) \o Tail(q) = Tail(q)
<1>1. Found(d, s) = <<>>
  BY DEF Found
<1>2. IsSeq(Tail(q))
  BY TailIs
<1> QED BY <1>1, <1>2, NothingBefore

LEMMA AndNoMore ==
  ASSUME NEW p, IsSeq(p), NEW x
  PROVE  p \o Tail(<<x>>) = p
<1>1. Tail(<<x>>) = <<>>
  OBVIOUS
<1>2. p \o <<>> = p
  BY DEF IsSeq
<1> QED BY <1>1, <1>2

LEMMA ReadingGoes ==
  ASSUME NEW op, NEW s, NEW p, Goes(op, s, p), op.kind = "update",
         NEW k, k = op.key, k \in DOMAIN db.registry, NEW u, u = op.request,
         hist.hurt[k] \subseteq {u}, hist.hurt[k] = {} \/ Repeats(k, u), Reading(op)
  PROVE  Editing(p)'
<1> DEFINE F == fieldsOf(db, k)
           C == columnsOf(db, k)
           m == db.mapping[k]
           id == db.registry[k].id
<1>0. s = Head(op.todo)
  BY DEF Goes
<1>1. /\ u \in Updates /\ u.key = k /\ Sound(k)
      /\ op.todo \in {<<Settings(u, id), ReadFields(u, id)>>, <<ReadFields(u, id)>>}
      /\ k \notin hist.loose => MappedTo(m, F)
  BY DEF Reading
<1>2. s.do \in {"settings", "read fields"}
  <2>1. Settings(u, id).do = "settings" /\ ReadFields(u, id).do = "read fields"
    BY DEF Settings, ReadFields
  <2>2. \A x, y : Head(<<x, y>>) = x /\ Head(<<x>>) = x
    OBVIOUS
  <2>3. s = Settings(u, id) \/ s = ReadFields(u, id)
    BY <1>0, <1>1, <2>2
  <2> QED BY <2>1, <2>3
<1>3. /\ k \in DOMAIN db'.registry /\ db'.registry[k].id = id
      /\ fieldsOf(db', k) = F /\ columnsOf(db', k) = C /\ db'.mapping[k] = m
      /\ hist'.hurt[k] = hist.hurt[k] /\ (k \in hist'.loose <=> k \in hist.loose)
  BY <1>2, ZenonT(90) DEF Goes, Moved, KeepsDataset, MovesFields, MovesColumns, MovesMapping
<1>4. p.key = k /\ p.request = u
  BY DEF Goes
<1>5. CASE op.todo = <<Settings(u, id), ReadFields(u, id)>>
  <2>1. s.do = "settings" /\ Tail(op.todo) = <<ReadFields(u, id)>>
    <3>1. \A x, y : Head(<<x, y>>) = x /\ Tail(<<x, y>>) = <<y>>
      OBVIOUS
    <3>2. s = Settings(u, id)
      BY <1>0, <1>5, <3>1
    <3> QED BY <1>5, <3>1, <3>2 DEF Settings
  <2>2. p.todo = <<ReadFields(u, id)>>
    BY <2>1, NothingFound DEF Goes
  <2>3. Sound(k)'
    BY <1>1, <1>3 DEF Sound
  <2>4. Reading(p)'
    BY <1>1, <1>3, <1>4, <2>2, <2>3 DEF Reading
  <2> QED BY <1>3, <1>4, <2>4 DEF Editing
<1>6. CASE op.todo = <<ReadFields(u, id)>>
  <2> DEFINE plan == updatePlan(u, id, F)
  <2>1. s = ReadFields(u, id)
    <3>1. \A x : Head(<<x>>) = x
      OBVIOUS
    <3> QED BY <1>0, <1>6, <3>1
  <2>2. Found(db, s) = plan
    BY <1>1, <2>1 DEF Found, ReadFields, IsDataset
  <2>3. Len(u.fields) \in Nat /\ Submitted(u.fields)
    BY <1>1, SubmittedAssumption, NamesAssumption DEF Submitted
  <2>4. IsFiniteSet(DOMAIN F)
    BY DEF Goes, Whole, RowsFinite, fieldsOf
  <2>5. PlanFits("update", k, plan)
    BY <1>1, <2>3, <2>4, UpdatePlanFits, SMTT(40)
  <2> HIDE DEF plan, F, C, m
  <2>6. p.todo = plan
    BY <1>6, <2>2, <2>5, AndNoMore, ZenonT(60) DEF Goes, PlanFits
  <2>7. IsMap(C) /\ <<>> \notin DOMAIN F /\ (hist.hurt[k] = {} \/ k \in Protected => Agree(F, C))
        /\ \A x \in hist.hurt[k] : Apart(x.fields) => Halfway(x, F, C)
    BY <1>1 DEF Sound, F, C
  <2>8. CASE k \in Protected
    <3>1. Refusing(plan, F)
      BY <1>1, <2>3, <2>4, <2>8, RefusedPlan DEF plan
    <3> QED BY <1>1, <1>3, <1>4, <2>6, <2>7, <2>8, <3>1 DEF Editing
  <2>9. CASE k \notin Protected
    <3>1. Agree(F, C) => Halfway(u, F, C)
      BY DEF Agree, Halfway
    <3>2. Halfway(u, F, C) /\ (Agree(F, C) \/ Apart(u.fields))
      BY <2>7, <2>9, <3>1 DEF Repeats
    <3>3. \A i, j \in DOMAIN u.fields : u.fields[i].key = u.fields[j].key /\ i # j => u.fields[i].key = <<>>
      BY <1>1, SubmittedAssumption
    <3>4. /\ Ordered(plan) /\ Between(Listed(plan), F, C) /\ Again(u, Listed(plan), F, C)
          /\ MappedTo(m, F) => Mapped(Listed(plan), F, m)
      BY <1>1, <2>3, <2>4, <2>7, <2>9, <3>2, <3>3, EditBegins DEF plan
    <3> QED BY <1>1, <1>3, <1>4, <2>6, <2>9, <3>4 DEF Editing
  <2> QED BY <2>8, <2>9, SMTT(40)
<1> QED BY <1>1, <1>5, <1>6

LEMMA EditGoes ==
  ASSUME NEW op, NEW s, NEW p, Goes(op, s, p), op.kind = "update", Editing(op)
  PROVE  Editing(p)'
<1> DEFINE k == op.key
           u == op.request
           F == fieldsOf(db, k)
           C == columnsOf(db, k)
           m == db.mapping[k]
           G == fieldsOf(db', k)
           D == columnsOf(db', k)
           n == db'.mapping[k]
           rest == Tail(op.todo)
<1>1. s.do \notin {"register", "unregister", "create table", "drop table", "set mapping", "unmap"}
  BY DEF Goes, Fits, Duty
<1>2. /\ p.key = k /\ p.request = u /\ k \in DOMAIN db.registry /\ k \in DOMAIN db'.registry
      /\ MovesFields(s, F, G) /\ Misses(s, F, G) /\ MovesColumns(s, C, D) /\ MovesMapping(s, m, n)
      /\ hist'.hurt[k] = hist.hurt[k] /\ (k \in hist'.loose <=> k \in hist.loose)
  BY <1>1 DEF Goes, Moved, KeepsDataset, Editing
<1>3. IsSeq(op.todo) /\ op.todo # <<>> /\ s = Head(op.todo) /\ p.todo = Found(db, s) \o rest
  BY DEF Goes
<1>4. CASE ~(hist.hurt[k] \subseteq {u} /\ (hist.hurt[k] = {} \/ Repeats(k, u)))
  BY <1>2, <1>4 DEF Editing, Repeats
<1>5. CASE hist.hurt[k] \subseteq {u} /\ (hist.hurt[k] = {} \/ Repeats(k, u)) /\ Reading(op)
  BY <1>2, <1>5, ReadingGoes
<1>6. CASE /\ k \in Protected /\ <<>> \notin DOMAIN F /\ Agree(F, C) /\ Refusing(op.todo, F)
           /\ k \notin hist.loose => MappedTo(m, F)
  <2>1. s.do # "refuse"
    BY DEF Goes, Works
  <2>2. s.do = "set field" /\ Refusing(rest, G) /\ Agree(G, C) /\ DOMAIN G = DOMAIN F
    <3>1. PICK todo : todo = op.todo
      OBVIOUS
    <3>2. IsSeq(todo) /\ todo # <<>> /\ s = Head(todo)
      BY <1>3, <3>1
    <3>3. Refusing(todo, F) /\ Agree(F, C) /\ MovesFields(s, F, G) /\ Misses(s, F, G)
      BY <1>2, <1>6, <3>1
    <3> HIDE DEF F, C, G
    <3>4. s.do = "refuse" \/ (Refused(todo, s, C, G) /\ DOMAIN G = DOMAIN F)
      BY <3>2, <3>3, RefusingStep
    <3> QED BY <2>1, <3>1, <3>4 DEF Refused
  <2>3. D = C /\ n = m
    BY <1>2, <2>2 DEF MovesColumns, MovesMapping
  <2>4. p.todo = rest
    BY <1>3, <2>2, NothingFound
  <2>5. MappedTo(m, F) => MappedTo(n, G)
    BY <2>2, <2>3 DEF MappedTo
  <2> HIDE DEF F, C, m, rest
  <2> QED BY <1>2, <1>6, <2>2, <2>3, <2>4, <2>5, ZenonT(60) DEF Editing
<1>7. CASE /\ k \notin Protected /\ Ordered(op.todo)
           /\ Between(Listed(op.todo), F, C) /\ Again(u, Listed(op.todo), F, C) /\ u \in Updates
           /\ k \notin hist.loose => Mapped(Listed(op.todo), F, m)
  <2> DEFINE S == Listed(op.todo)
             T == Listed(rest)
  <2>1. Then(S, s, T) /\ Ordered(rest)
    BY <1>3, <1>7, RestOf
  <2>2. s \in S
    BY <2>1 DEF Then
  <2>3. s.do \in Singly
    BY <1>7, <2>2 DEF Between, Paired
  <2>4. p.todo = rest
    BY <1>3, <2>3, NothingFound, ZenonT(60) DEF Singly
  <2>5. IsFiniteSet(DOMAIN F)
    BY <1>2 DEF Goes, Whole, RowsFinite, fieldsOf
  <2>6. Submitted(u.fields)
    BY <1>7, SubmittedAssumption, NamesAssumption DEF Submitted
  <2> HIDE DEF F, C, m, G, D, n, S, T, rest, u, k
  <2>7. Between(S, F, C) /\ Again(u, S, F, C)
    BY <1>7 DEF S
  <2>8. Between(T, G, D)
    BY <1>2, <2>1, <2>7, BetweenStep
  <2>9. Again(u, T, G, D)
    BY <1>2, <2>1, <2>5, <2>6, <2>7, AgainStep
  <2>10. k \notin hist.loose => Mapped(T, G, n)
    BY <1>2, <1>7, <2>1, <2>7, MappedStep DEF S
  <2> QED BY <1>2, <1>7, <2>1, <2>4, <2>8, <2>9, <2>10 DEF Editing, T, G, D, n
<1> QED BY <1>4, <1>5, <1>6, <1>7 DEF Editing

LEMMA CreateTableGoes ==
  ASSUME NEW d, DOMAIN d = DbParts, NEW s
  PROVE  s.do = "create table" => columnsOf(Effect(d, s), s.key) = s.columns
<1> SUFFICES ASSUME s.do = "create table", NEW k, k = s.key
             PROVE  columnsOf(Effect(d, s), k) = s.columns
  OBVIOUS
<1> DEFINE e == Effect(d, s)
           new == [columns |-> s.columns, rows |-> <<>>]
<1>1. e = EffectOnTable(d, s)
  BY Dispatch DEF TableStatements
<1>2. e = [d EXCEPT !.tables = Put(@, s.key, new)]
  BY <1>1 DEF EffectOnTable
<1>3. new.columns = s.columns
  OBVIOUS
<1> HIDE DEF e, new
<1>4. e.tables = Put(d.tables, k, new)
  BY <1>2 DEF DbParts
<1>5. k \in DOMAIN e.tables /\ e.tables[k] = new
  BY <1>4 DEF Put
<1> QED BY <1>3, <1>5 DEF columnsOf, e

LEMMA RegisterGoes ==
  ASSUME NEW d, DOMAIN d = DbParts, NEW s, s.do = "register", NEW k, k = s.key
  PROVE  /\ k \in DOMAIN Effect(d, s).registry /\ fieldsOf(Effect(d, s), k) = <<>>
         /\ Effect(d, s).registry[k].id = d.deleted
<1> DEFINE e == Effect(d, s)
           new == [id |-> d.deleted, source |-> s.source, fields |-> <<>>]
<1>1. e = EffectOnRegistry(d, s)
  BY Dispatch DEF RegistryStatements
<1>2. e = [d EXCEPT !.registry = Put(@, s.key, new)]
  BY <1>1 DEF EffectOnRegistry
<1>3. new.fields = <<>> /\ new.id = d.deleted
  OBVIOUS
<1> HIDE DEF e, new
<1>4. e.registry = Put(d.registry, k, new)
  BY <1>2 DEF DbParts
<1>5. k \in DOMAIN e.registry /\ e.registry[k] = new
  BY <1>4 DEF Put
<1> QED BY <1>3, <1>5 DEF fieldsOf, e

\* The beginning of a creation: its table, its row, and what comes then.
LEMMA CreationIs ==
  ASSUME NEW c, Submitted(c.fields), NEW k, k = c.key, NEW g, g = desiredFields(c.fields, <<>>),
         NEW plan, plan = createPlan(c)
  PROVE  Starts(plan, MakeTable(k, g), Register(c, g), Remaining(k, g))
<1> DEFINE q == Seeds(k, g)
           r == <<AddView(k)>>
           x == MakeTable(k, g)
           y == Register(c, g)
<1>1. IsSeq(q) /\ IsSeq(r)
  BY CreateBegins, TupleIsSeq
<1>2. plan = (<<x, y>> \o q) \o r
  BY CreatePlanIs
<1> HIDE DEF q, r, x, y
<1>3. Starts(plan, x, y, q \o r)
  BY <1>1, <1>2, PairThen
<1> QED BY <1>3 DEF q, r, x, y, Remaining

LEMMA MakingGoes ==
  ASSUME NEW op, NEW s, NEW p, Goes(op, s, p), op.kind = "create", Making(op)
  PROVE  Making(p)'
<1> DEFINE k == op.key
           c == op.request
           g == desiredFields(c.fields, <<>>)
           plan == createPlan(c)
           F == fieldsOf(db, k)
           C == columnsOf(db, k)
           m == db.mapping[k]
           G == fieldsOf(db', k)
           D == columnsOf(db', k)
           n == db'.mapping[k]
           rest == Tail(op.todo)
<1>1. c \in Creates /\ c.key = k /\ Submitted(c.fields)
  BY SubmittedAssumption, NamesAssumption DEF Making, Submitted
<1>2. /\ IsSeq(plan) /\ plan # <<>> /\ Head(plan) = MakeTable(k, g) /\ plan[1] = Head(plan)
      /\ Tail(plan) # <<>> /\ Head(Tail(plan)) = Register(c, g)
      /\ Tail(Tail(plan)) = Remaining(k, g)
  <2>1. Starts(plan, MakeTable(k, g), Register(c, g), Remaining(k, g))
    BY <1>1, CreationIs
  <2> QED BY <2>1 DEF Starts
<1>3. /\ p.key = k /\ p.request = c /\ IsSeq(op.todo) /\ op.todo # <<>> /\ s = Head(op.todo) /\ s.key = k
      /\ p.todo = Found(db, s) \o rest /\ (k \in hist'.loose <=> k \in hist.loose)
  BY DEF Goes
<1>4. CASE op.todo = plan /\ (k \notin hist.loose => m = <<>>)
  <2>1. s.do = "create table" /\ s.columns = plan[1].columns
    <3>1. s = MakeTable(k, g) /\ plan[1] = s
      BY <1>2, <1>3, <1>4
    <3>2. MakeTable(k, g).do = "create table"
      BY DEF MakeTable
    <3> QED BY <3>1, <3>2
  <2>2. D = plan[1].columns
    <3>1. db' = Effect(db, s) /\ DOMAIN db = DbParts
      BY DEF Goes, Whole
    <3>2. columnsOf(Effect(db, s), k) = s.columns
      BY <1>3, <2>1, <3>1, CreateTableGoes
    <3> QED BY <2>1, <3>1, <3>2
  <2>3. n = m
    BY <2>1 DEF Goes, Parts, MappingStatements
  <2>4. p.todo = Tail(plan)
    BY <1>3, <1>4, <2>1, NothingFound
  <2> HIDE DEF plan, m, n, D
  <2> QED BY <1>1, <1>3, <1>4, <2>2, <2>3, <2>4 DEF Making, plan, n, D
<1>5. CASE op.todo = Tail(plan) /\ C = plan[1].columns /\ (k \notin hist.loose => m = <<>>)
  <2>1. s = Register(c, g)
    BY <1>2, <1>3, <1>5
  <2>2. s.do = "register" /\ s.fields = g
    BY <2>1 DEF Register
  <2>3. k \in DOMAIN db'.registry /\ G = <<>>
    BY <1>3, <2>2, RegisterGoes DEF Goes, Whole
  <2>4. D = C /\ n = m
    BY <1>3, <2>2 DEF Goes, Parts, TableStatements, MappingStatements, columnsOf
  <2>5. C = ColumnsFor(g)
    <3>1. plan[1] = MakeTable(k, g) /\ MakeTable(k, g).columns = ColumnsFor(g)
      BY <1>2, ZenonT(60) DEF MakeTable
    <3> QED BY <1>5, <3>1
  <2>6. p.todo = Adds(k, db.deleted, g) \o Remaining(k, g)
    <3>1. Found(db, s) = Adds(k, db.deleted, g)
      BY <1>3, <2>2, ZenonT(30) DEF Found, Adds, Each
    <3> QED BY <1>2, <1>3, <1>5, <3>1, ZenonT(30)
  <2> HIDE DEF g, F, C, m, G, D, n, plan
  <2>7. /\ Ordered(p.todo) /\ Between(Listed(p.todo), <<>>, ColumnsFor(g))
        /\ Mapped(Listed(p.todo), <<>>, <<>>)
    BY <1>1, <2>6, CreateBegins DEF g
  <2> QED BY <1>1, <1>3, <1>5, <2>3, <2>4, <2>5, <2>7 DEF Making, G, D, n
<1>6. CASE /\ k \in DOMAIN db.registry /\ Ordered(op.todo) /\ Between(Listed(op.todo), F, C)
           /\ k \notin hist.loose => Mapped(Listed(op.todo), F, m)
  <2> DEFINE S == Listed(op.todo)
             T == Listed(rest)
  <2>1. Then(S, s, T) /\ Ordered(rest)
    BY <1>3, <1>6, RestOf
  <2>2. s \in S
    BY <2>1 DEF Then
  <2>3. s.do \in Singly
    BY <1>6, <2>2 DEF Between, Paired
  <2>4. p.todo = rest
    BY <1>3, <2>3, NothingFound, ZenonT(90) DEF Singly
  <2>5. /\ k \in DOMAIN db'.registry
        /\ MovesFields(s, F, G) /\ MovesColumns(s, C, D) /\ MovesMapping(s, m, n)
    BY <1>6, <2>3 DEF Goes, Moved, KeepsDataset, Singly
  <2> HIDE DEF F, C, m, G, D, n, S, T, rest, c, k
  <2>6. Between(S, F, C)
    BY <1>6 DEF S
  <2>7. Between(T, G, D)
    BY <2>1, <2>5, <2>6, BetweenStep
  <2>8. k \notin hist.loose => Mapped(T, G, n)
    BY <1>6, <2>1, <2>5, <2>6, MappedStep DEF S
  <2> QED BY <1>1, <1>3, <2>1, <2>4, <2>5, <2>7, <2>8 DEF Making, T, G, D, n
<1> QED BY <1>4, <1>5, <1>6 DEF Making

LEMMA MappingGoes ==
  ASSUME NEW op, NEW s, NEW p, Goes(op, s, p), op.kind = "mapping", Mapping(op)
  PROVE  Mapping(p)'
<1> DEFINE k == op.key
           F == fieldsOf(db, k)
           m == db.mapping[k]
           n == db'.mapping[k]
           rest == Tail(op.todo)
<1>1. s.do = "set mapping"
  BY DEF Goes, Fits, Duty
<1>2. /\ db'.registry = db.registry /\ columnsOf(db', k) = columnsOf(db, k) /\ Sets(s, m, n)
      /\ p.key = k /\ hist'.hurt[k] = hist.hurt[k] /\ (k \in hist'.loose <=> k \in hist.loose)
  BY <1>1 DEF Goes, Parts, Moved, RegistryStatements, TableStatements, columnsOf
<1>3. fieldsOf(db', k) = F /\ (Steady(k)' <=> Steady(k)) /\ (Sound(k)' <=> Sound(k))
  BY <1>2 DEF fieldsOf, Steady, Sound
<1>4. IsSeq(op.todo) /\ op.todo # <<>> /\ s = Head(op.todo)
  BY DEF Goes
<1>5. p.todo = rest
  BY <1>1, <1>4, NothingFound DEF Goes
<1>6. Remaps(op.todo, F, m) => Remaps(rest, F, n)
  <2> HIDE DEF F, m, n
  <2> QED BY <1>2, <1>4, RemapsStep
<1> HIDE DEF F, m, n, rest
<1> QED BY <1>2, <1>3, <1>5, <1>6 DEF Mapping, F, m, n

LEMMA LeavingGoes ==
  ASSUME NEW op, NEW s, NEW p, Goes(op, s, p), op.kind = "remove", Leaving(op)
  PROVE  Leaving(p)'
<1> DEFINE k == op.key
<1>1. s.key = k /\ p.key = k /\ k \in DOMAIN db.mapping /\ Parts(db, s, db')
      /\ \A x : Member(x, op.todo) => x = s \/ Member(x, p.todo)
  BY DEF Goes, Continues
<1>2. /\ s.do \notin {"register", "settings", "add field", "set field", "delete field"}
      /\ s.do \notin {"seed mapping", "set mapping", "unmap column"}
  BY DEF Goes, Fits, Duty
<1>3. ASSUME db'.mapping[k] # <<>> PROVE Awaits(p, "unmap")
  <2>1. s.do # "unmap" /\ db'.mapping = db.mapping
    BY <1>1, <1>2, <1>3 DEF Parts, MappingStatements
  <2>2. PICK x : Member(x, op.todo) /\ x.do = "unmap"
    BY <1>3, <2>1 DEF Leaving, Awaits
  <2> QED BY <1>1, <2>1, <2>2 DEF Awaits
<1>4. ASSUME k \in DOMAIN db'.registry
      PROVE  \E x : Member(x, p.todo) /\ x.do = "unregister" /\ x.id = db'.registry[k].id
  <2>1. db'.registry = db.registry /\ ~(s.do = "unregister" /\ IsDataset(db, s))
    BY <1>1, <1>2, <1>4 DEF Parts, RegistryStatements
  <2>2. PICK x : Member(x, op.todo) /\ x.do = "unregister" /\ x.id = db.registry[k].id
    BY <1>4, <2>1 DEF Leaving
  <2>3. x # s
    BY <1>1, <1>4, <2>1, <2>2 DEF IsDataset
  <2> QED BY <1>1, <2>1, <2>2, <2>3
<1> QED BY <1>1, <1>3, <1>4 DEF Leaving, Awaits

\* A statement of an operation that does not shape its dataset.
LEMMA OthersKeep ==
  ASSUME NEW op, NEW s, Fits(op.kind, op.key, s), op.kind \notin shaping,
         Parts(db, s, db'), Moved(db, s, db'), s.key = op.key,
         hist'.hurt = hist.hurt, hist'.loose = hist.loose
  PROVE  Still(op.key)
<1>1. s.do \in {"upsert", "add view", "find charts", "drop matview", "delete charts", "delete view"}
  BY DEF Fits, Duty, shaping
<1>2. db'.registry = db.registry /\ db'.mapping = db.mapping
  BY <1>1 DEF Parts, RegistryStatements, MappingStatements
<1>3. columnsOf(db', op.key) = columnsOf(db, op.key)
  BY <1>1 DEF Moved, MovesColumns
<1> QED BY <1>2, <1>3 DEF Still, SameAt

LEMMA TallyStatement ==
  ASSUME AdminInv, Tally, NEW a \in Admins, Statement(a)
  PROVE  Tally'
<1>1. PICK op, s, p : op = ops[a] /\ s = Head(op.todo) /\ p = ops'[a]
  OBVIOUS
<1>2. Stepped(a, op, s)
  BY <1>1, StatementFacts, SMTT(30)
<1>3. Continues(op, s, p.todo)
  BY <1>1, <1>2, StatementTodo DEF Stepped
<1>4. Shape /\ Finite /\ IsSeq(op.todo) /\ op.todo # <<>>
  BY <1>1 DEF AdminInv, Planned, Statement
<1>5. hist'.hurt = hist.hurt /\ hist'.loose = hist.loose
  BY <1>4 DEF Statement, Shape, HistParts
<1>6. Whole(db)
  BY <1>4 DEF Whole, Shape, Finite
<1>7. Moved(db, s, db')
  BY <1>2, <1>6, EffectMoves DEF Stepped
<1>8. ASSUME NEW j, j # op.key PROVE Still(j)
  <2>1. SameAt(db'.tables, db.tables, j) /\ SameAt(db'.registry, db.registry, j) /\ db'.mapping[j] = db.mapping[j]
    BY <1>2, <1>8 DEF Stepped, Frame
  <2> QED BY <1>5, <2>1 DEF Still, SameAt, columnsOf
<1>9. op.kind \notin shaping => Still(op.key)
  BY <1>2, <1>5, <1>7, OthersKeep DEF Stepped
<1>10. ASSUME NEW j \in Keys, ~Changing(j)' PROVE Settled(j)'
  <2>1. \A b \in Admins : ops[b] # Idle => ops'[b] # Idle /\ ops'[b].key = ops[b].key /\ ops'[b].kind = ops[b].kind
    BY <1>1, <1>2 DEF Stepped
  <2>2. ~Changing(j)
    BY <1>10, <2>1 DEF Changing
  <2>3. Settled(j)
    BY <2>2 DEF Tally
  <2>4. op # Idle
    BY <1>2 DEF Stepped
  <2>5. j = op.key => op.kind \notin shaping
    BY <1>1, <2>2, <2>4 DEF Changing
  <2> QED BY <1>8, <1>9, <2>3, <2>5, StillSettled, SMTT(30)
<1>11. ASSUME op.key \in Keys, ~op.shared PROVE OnCourse(p)'
  <2>1. OnCourse(op)
    BY <1>1, <1>2, <1>11, SMTT(30) DEF Tally, Stepped
  <2>2. Goes(op, s, p)
    BY <1>1, <1>2, <1>3, <1>4, <1>5, <1>6, <1>7, <1>11 DEF Goes, Stepped, Shape
  <2>3. p.kind = op.kind /\ p.key = op.key /\ p.request = op.request
    BY <2>2 DEF Goes
  <2>4. CASE op.kind = "update"
    BY <2>1, <2>2, <2>3, <2>4, EditGoes DEF OnCourse
  <2>5. CASE op.kind = "create"
    BY <2>1, <2>2, <2>3, <2>5, MakingGoes DEF OnCourse
  <2>6. CASE op.kind = "mapping"
    BY <2>1, <2>2, <2>3, <2>6, MappingGoes DEF OnCourse
  <2>7. CASE op.kind = "remove"
    BY <2>1, <2>2, <2>3, <2>7, LeavingGoes DEF OnCourse
  <2>8. CASE op.kind \notin {"update", "create", "mapping", "remove"}
    BY <2>3, <2>8 DEF OnCourse
  <2> QED BY <2>4, <2>5, <2>6, <2>7, <2>8, SMTT(30)
<1>12. ASSUME NEW b \in Admins, ops'[b] # Idle
       PROVE  /\ ops'[b].kind = "create" => ops'[b].key \in Keys
              /\ ops'[b].key \in Keys /\ ~ops'[b].shared => OnCourse(ops[b])'
  <2>1. CASE b = a
    <3>1. /\ op # Idle /\ p.kind = op.kind /\ p.key = op.key /\ p.shared = op.shared
      BY <1>1, <1>2 DEF Stepped
    <3>2. op.kind = "create" => op.key \in Keys
      BY <1>1, <3>1, SMTT(30) DEF Tally
    <3>3. OnCourse(p)' => OnCourse(ops[b])'
      BY <1>1, <2>1 DEF OnCourse, Editing, Making, Mapping, Leaving, Reading, Awaits
    <3> QED BY <1>1, <1>11, <2>1, <3>1, <3>2, <3>3, SMTT(30)
  <2>2. CASE b # a
    <3>1. PICK o : o = ops[b] /\ o = ops'[b] /\ o # Idle
      BY <1>2, <1>12, <2>2 DEF Stepped
    <3>2. /\ o.kind = "create" => o.key \in Keys
          /\ o.key \in Keys /\ ~o.shared => OnCourse(o)
      BY <3>1 DEF Tally
    <3>3. o.key = op.key => o.shared
      BY <1>1, <1>2, <2>2, <3>1 DEF AdminInv, Noticed, Stepped
    <3>4. o.key # op.key /\ OnCourse(o) => OnCourse(o)'
      BY <1>8, StillOnCourse
    <3>5. OnCourse(o)' => OnCourse(ops[b])'
      BY <3>1 DEF OnCourse, Editing, Making, Mapping, Leaving, Reading, Awaits
    <3> QED BY <3>1, <3>2, <3>3, <3>4, <3>5
  <2> QED BY <2>1, <2>2
<1>13. DOMAIN hist'.hurt = Keys
  BY <1>5 DEF Tally
<1>14. DOMAIN db'.registry \subseteq Keys
  <2> SUFFICES ASSUME NEW j \in DOMAIN db'.registry, j \notin DOMAIN db.registry PROVE j \in Keys
    BY DEF Tally
  <2>1. j = op.key
    BY <1>8 DEF Still, SameAt
  <2>2. s.key = op.key /\ Fits(op.kind, op.key, s) /\ Parts(db, s, db') /\ op # Idle
    BY <1>2 DEF Stepped
  <2>3. s.do \notin {"register", "unregister"} => FALSE
    BY <1>7, <2>1, <2>2 DEF Moved, KeepsDataset
  <2>4. s.do # "unregister"
    BY <2>1, <2>2 DEF Parts
  <2>5. op.kind = "create"
    BY <2>2, <2>3, <2>4 DEF Fits, Duty
  <2> QED BY <1>1, <2>1, <2>2, <2>5 DEF Tally
<1> QED BY <1>10, <1>12, <1>13, <1>14 DEF Tally

-----------------------------------------------------------------------------
(* An operation ends.                                                       *)

\* Operation op, which had its dataset for itself, is done or has failed.
Ending(op, ended) ==
  /\ op.kind \in shaping /\ ~op.shared /\ (ended <=> op.todo = <<>>) /\ ended \in BOOLEAN
  /\ db' = db /\ hist'.hurt[op.key] = Left(op, ended)
  /\ op.key \in hist'.loose <=>
       Loosens(op, ended) \/ (op.key \in hist.loose /\ ~(ended /\ op.kind = "remove"))

LEMMA OverlapLasts ==
  ASSUME NEW k, Overlap \in hist'.hurt[k]
  PROVE  ~Steady(k)'
BY NamesAssumption DEF Steady

LEMMA AgreedHalfway ==
  ASSUME NEW u, NEW F, NEW C, Agree(F, C)
  PROVE  IsMap(C) /\ Halfway(u, F, C)
BY DEF Agree, Halfway, IsMap

LEMMA ListedNone == Listed(<<>>) = {}
BY DEF Listed

LEMMA EditEnds ==
  ASSUME NEW op, NEW ended, Ending(op, ended), op.kind = "update", Editing(op)
  PROVE  Settled(op.key)'
<1> DEFINE k == op.key
           u == op.request
           F == fieldsOf(db, k)
           C == columnsOf(db, k)
           h == hist.hurt[k]
<1>1. /\ k \in DOMAIN db'.registry /\ fieldsOf(db', k) = F /\ columnsOf(db', k) = C
      /\ db'.mapping[k] = db.mapping[k]
  BY DEF Ending, Editing
<1>2. /\ k \in hist.loose => k \in hist'.loose
      /\ k \in hist'.loose => k \in hist.loose \/ (k \notin Protected /\ ~ended)
      /\ ~ended /\ k \notin Protected => k \in hist'.loose
  BY DEF Ending, Loosens
<1>3. SUFFICES ASSUME Steady(k)'
               PROVE  Sound(k)' /\ (k \notin hist'.loose => MappedTo(db.mapping[k], F))
  BY <1>1 DEF Settled
<1>4. CASE ended
  <2>1. hist'.hurt[k] = IF h \subseteq {u} /\ (h = {} \/ Apart(u.fields)) THEN {} ELSE h \cup {Overlap}
    BY <1>4 DEF Ending, Left, shaping
  <2>2. h \subseteq {u} /\ (h = {} \/ Apart(u.fields)) /\ hist'.hurt[k] = {}
    BY <1>3, <2>1, OverlapLasts
  <2>3. h \subseteq {u} /\ (h = {} \/ Repeats(k, u))
    BY <2>2 DEF Repeats
  <2>4. op.todo = <<>>
    BY <1>4 DEF Ending
  <2>5. ~Reading(op)
    BY <2>4 DEF Reading
  <2>6. <<>> \notin DOMAIN F /\ Agree(F, C) /\ (k \notin hist.loose => MappedTo(db.mapping[k], F))
    <3>1. CASE k \in Protected /\ <<>> \notin DOMAIN F /\ Agree(F, C)
               /\ (k \notin hist.loose => MappedTo(db.mapping[k], F))
      BY <3>1
    <3>2. CASE /\ Between(Listed(op.todo), F, C)
               /\ k \notin hist.loose => Mapped(Listed(op.todo), F, db.mapping[k])
      <4>1. Between({}, F, C) /\ (k \notin hist.loose => Mapped({}, F, db.mapping[k]))
        BY <2>4, <3>2, ListedNone
      <4>2. <<>> \notin DOMAIN F
        BY <4>1 DEF Between
      <4> QED BY <4>1, <4>2, BetweenEnds, MappedEnds
    <3> QED BY <2>3, <2>5, <3>1, <3>2 DEF Editing
  <2>7. IsMap(C)
    BY <2>6, AgreedHalfway
  <2> QED BY <1>1, <1>2, <2>2, <2>6, <2>7 DEF Sound
<1>5. CASE ~ended
  <2>1. hist'.hurt[k] = h \cup {u}
    BY <1>5 DEF Ending, Left, shaping
  <2>2. h \subseteq {u} /\ Repeats(k, u) /\ hist'.hurt[k] = {u}
    BY <1>3, <2>1 DEF Steady
  <2>3. /\ IsMap(C) /\ <<>> \notin DOMAIN F /\ (k \in Protected => Agree(F, C))
        /\ Apart(u.fields) => Halfway(u, F, C)
        /\ k \in Protected /\ k \notin hist.loose => MappedTo(db.mapping[k], F)
    <3>1. CASE Reading(op)
      <4>1. Sound(k) /\ (k \notin hist.loose => MappedTo(db.mapping[k], F))
        BY <3>1 DEF Reading
      <4>2. IsMap(C) /\ <<>> \notin DOMAIN F /\ (h = {} \/ k \in Protected => Agree(F, C))
        BY <4>1 DEF Sound
      <4>3. ASSUME Apart(u.fields) PROVE Halfway(u, F, C)
        <5>1. CASE h = {}
          BY <4>2, <5>1, AgreedHalfway
        <5>2. CASE h # {}
          <6>1. u \in h
            BY <2>2, <5>2
          <6> QED BY <4>1, <4>3, <6>1 DEF Sound
        <5> QED BY <5>1, <5>2
      <4> QED BY <4>1, <4>2, <4>3
    <3>2. CASE k \in Protected /\ <<>> \notin DOMAIN F /\ Agree(F, C)
               /\ (k \notin hist.loose => MappedTo(db.mapping[k], F))
      BY <3>2, AgreedHalfway
    <3>3. CASE k \notin Protected /\ Between(Listed(op.todo), F, C) /\ Again(u, Listed(op.todo), F, C)
      BY <3>3 DEF Between, Again
    <3> QED BY <2>2, <3>1, <3>2, <3>3 DEF Editing
  <2> QED BY <1>1, <1>2, <1>5, <2>2, <2>3 DEF Sound
<1>6. ended \in BOOLEAN
  BY DEF Ending
<1> QED BY <1>4, <1>5, <1>6

\* What failed without being an edit leaves the dataset out of account.
LEMMA FailureHurts ==
  ASSUME NEW op, Ending(op, FALSE), op.kind # "update"
  PROVE  Settled(op.key)'
<1>1. Overlap \in hist'.hurt[op.key]
  BY DEF Ending, Left
<1>2. op.key \in hist'.loose
  BY DEF Ending, Loosens
<1> QED BY <1>1, <1>2, OverlapLasts DEF Settled

LEMMA MakingEnds ==
  ASSUME NEW op, Ending(op, TRUE), op.kind = "create", Making(op)
  PROVE  Settled(op.key)'
<1> DEFINE k == op.key
           c == op.request
           F == fieldsOf(db, k)
           C == columnsOf(db, k)
<1>1. op.todo = <<>> /\ db' = db
  BY DEF Ending
<1>2. hist'.hurt[k] = {}
  BY DEF Ending, Left, shaping
<1>3. k \in hist'.loose <=> k \in hist.loose
  BY DEF Ending, Loosens
<1>4. createPlan(c) # <<>> /\ Tail(createPlan(c)) # <<>>
  <2>1. c \in Creates /\ Submitted(c.fields)
    BY SubmittedAssumption, NamesAssumption DEF Making, Submitted
  <2>2. PICK x, y, g : Starts(createPlan(c), x, y, g)
    BY <2>1, CreationIs
  <2> QED BY <2>2 DEF Starts
<1>5. /\ k \in DOMAIN db.registry /\ Between({}, F, C)
      /\ k \notin hist.loose => Mapped({}, F, db.mapping[k])
  BY <1>1, <1>4, ListedNone DEF Making
<1>6. Agree(F, C) /\ IsMap(C) /\ <<>> \notin DOMAIN F
  <2>1. Agree(F, C)
    BY <1>5, BetweenEnds
  <2> QED BY <1>5, <2>1 DEF Between
<1>7. Sound(k)'
  BY <1>1, <1>2, <1>6 DEF Sound
<1>8. k \notin hist'.loose => MappedTo(db'.mapping[k], fieldsOf(db', k))
  BY <1>1, <1>3, <1>5, MappedEnds
<1> QED BY <1>1, <1>5, <1>7, <1>8 DEF Settled

LEMMA MappingEnds ==
  ASSUME NEW op, Ending(op, TRUE), op.kind = "mapping", Mapping(op)
  PROVE  Settled(op.key)'
<1> DEFINE k == op.key
<1>1. op.todo = <<>> /\ db' = db
  BY DEF Ending
<1>2. hist'.hurt[k] = hist.hurt[k]
  BY DEF Ending, Left, shaping
<1>3. (k \notin Protected => k \in hist'.loose) /\ (k \in hist.loose => k \in hist'.loose)
  BY DEF Ending, Loosens, shaping
<1>4. (Steady(k)' <=> Steady(k)) /\ (Sound(k)' <=> Sound(k))
  BY <1>1, <1>2 DEF Steady, Sound
<1>5. k \in DOMAIN db.registry /\ Steady(k) => Sound(k)
  BY DEF Mapping
<1>6. k \notin hist'.loose => k \in DOMAIN db.registry /\ (Steady(k) => MappedTo(db.mapping[k], fieldsOf(db, k)))
  BY <1>1, <1>3, RemapsEnds DEF Mapping
<1> QED BY <1>1, <1>4, <1>5, <1>6 DEF Settled

LEMMA LeavingEnds ==
  ASSUME NEW op, Ending(op, TRUE), op.kind = "remove", Leaving(op)
  PROVE  Settled(op.key)'
<1>1. op.todo = <<>> /\ db' = db
  BY DEF Ending
<1>2. \A s : ~Member(s, op.todo)
  BY <1>1, TupleIsSeq
<1>3. db.mapping[op.key] = <<>> /\ op.key \notin DOMAIN db.registry
  BY <1>2 DEF Leaving, Awaits
<1> QED BY <1>1, <1>3 DEF Settled

LEMMA EndingSettles ==
  ASSUME NEW op, NEW ended \in BOOLEAN, Ending(op, ended), OnCourse(op)
  PROVE  Settled(op.key)'
<1>1. CASE op.kind = "update"
  BY <1>1, EditEnds DEF OnCourse
<1>2. CASE op.kind # "update" /\ ended = FALSE
  BY <1>2, FailureHurts
<1>3. CASE op.kind = "create" /\ ended = TRUE
  BY <1>3, MakingEnds DEF OnCourse
<1>4. CASE op.kind = "mapping" /\ ended = TRUE
  BY <1>4, MappingEnds DEF OnCourse
<1>5. CASE op.kind = "remove" /\ ended = TRUE
  BY <1>5, LeavingEnds DEF OnCourse
<1>6. op.kind \in {"create", "update", "remove", "mapping"}
  BY DEF Ending, shaping
<1> QED BY <1>1, <1>2, <1>3, <1>4, <1>5, <1>6

\* What Done and Fails leave on record.
Ends(a, ended) ==
  LET op == ops[a]
  IN /\ op # Idle /\ (ended <=> op.todo = <<>>)
     /\ ops' = [ops EXCEPT ![a] = Idle] /\ db' = db /\ syncing' = syncing
     /\ DOMAIN hist'.hurt = DOMAIN hist.hurt
     /\ op.key \in DOMAIN hist.hurt => hist'.hurt[op.key] = Left(op, ended)
     /\ \A k \in DOMAIN hist.hurt : k # op.key => hist'.hurt[k] = hist.hurt[k]
     /\ \A k : k # op.key => (k \in hist'.loose <=> k \in hist.loose)
     /\ op.key \in hist'.loose <=>
          Loosens(op, ended) \/ (op.key \in hist.loose /\ ~(ended /\ op.kind = "remove"))

LEMMA EndsIs ==
  ASSUME DOMAIN hist = HistParts, NEW a, Done(a) \/ Fails(a)
  PROVE  \E ended \in BOOLEAN : Ends(a, ended)
<1>1. CASE Done(a)
  <2>1. ops[a] # Idle /\ ops[a].todo = <<>> /\ ops' = [ops EXCEPT ![a] = Idle] /\ db' = db /\ syncing' = syncing
    BY <1>1 DEF Done
  <2>2. PICK stale, l, loose :
          /\ l = Left(ops[a], TRUE)
          /\ loose = IF Loosens(ops[a], TRUE) THEN hist.loose \cup {ops[a].key}
                     ELSE IF ops[a].kind = "remove" THEN hist.loose \ {ops[a].key} ELSE hist.loose
          /\ hist' = [hist EXCEPT !.hurt[ops[a].key] = l, !.stale = stale, !.loose = loose]
    BY <1>1 DEF Done
  <2>3. hist'.hurt = [hist.hurt EXCEPT ![ops[a].key] = l] /\ hist'.loose = loose
    BY <2>2 DEF HistParts
  <2>4. loose = IF Loosens(ops[a], TRUE) THEN hist.loose \cup {ops[a].key}
                   ELSE IF ops[a].kind = "remove" THEN hist.loose \ {ops[a].key} ELSE hist.loose
    BY <2>2
  <2>5. /\ DOMAIN hist'.hurt = DOMAIN hist.hurt
        /\ ops[a].key \in DOMAIN hist.hurt => hist'.hurt[ops[a].key] = l
        /\ \A k \in DOMAIN hist.hurt : k # ops[a].key => hist'.hurt[k] = hist.hurt[k]
    BY <2>3
  <2>6. \A k : k # ops[a].key => (k \in hist'.loose <=> k \in hist.loose)
    BY <2>3, <2>4
  <2>7. ops[a].key \in hist'.loose <=>
          Loosens(ops[a], TRUE) \/ (ops[a].key \in hist.loose /\ ~(TRUE /\ ops[a].kind = "remove"))
    BY <2>3, <2>4
  <2>8. Ends(a, TRUE)
    BY <2>1, <2>2, <2>5, <2>6, <2>7 DEF Ends
  <2> QED BY <2>8
<1>2. CASE Fails(a)
  <2>1. ops[a] # Idle /\ ops[a].todo # <<>> /\ ops' = [ops EXCEPT ![a] = Idle] /\ db' = db /\ syncing' = syncing
    BY <1>2 DEF Fails
  <2>2. PICK stale, l, loose :
          /\ l = Left(ops[a], FALSE)
          /\ loose = IF Loosens(ops[a], FALSE) THEN hist.loose \cup {ops[a].key} ELSE hist.loose
          /\ hist' = [hist EXCEPT !.hurt[ops[a].key] = l, !.loose = loose, !.stale = stale]
    BY <1>2 DEF Fails
  <2>3. hist'.hurt = [hist.hurt EXCEPT ![ops[a].key] = l] /\ hist'.loose = loose
    BY <2>2 DEF HistParts
  <2>4. loose = IF Loosens(ops[a], FALSE) THEN hist.loose \cup {ops[a].key} ELSE hist.loose
    BY <2>2
  <2>5. /\ DOMAIN hist'.hurt = DOMAIN hist.hurt
        /\ ops[a].key \in DOMAIN hist.hurt => hist'.hurt[ops[a].key] = l
        /\ \A k \in DOMAIN hist.hurt : k # ops[a].key => hist'.hurt[k] = hist.hurt[k]
    BY <2>3
  <2>6. \A k : k # ops[a].key => (k \in hist'.loose <=> k \in hist.loose)
    BY <2>3, <2>4
  <2>7. ops[a].key \in hist'.loose <=>
          Loosens(ops[a], FALSE) \/ (ops[a].key \in hist.loose /\ ~(FALSE /\ ops[a].kind = "remove"))
    BY <2>3, <2>4
  <2>8. Ends(a, FALSE)
    BY <2>1, <2>2, <2>5, <2>6, <2>7 DEF Ends
  <2> QED BY <2>8
<1> QED BY <1>1, <1>2

LEMMA TallyEnds ==
  ASSUME AdminInv, Tally, NEW a \in Admins, Done(a) \/ Fails(a)
  PROVE  Tally'
<1>1. PICK ended \in BOOLEAN : Ends(a, ended)
  BY EndsIs DEF AdminInv, Shape
<1>2. PICK op : op = ops[a]
  OBVIOUS
<1>3. /\ DOMAIN hist'.hurt = DOMAIN hist.hurt /\ DOMAIN hist.hurt = Keys /\ db' = db
      /\ \A k : k # op.key => (k \in hist'.loose <=> k \in hist.loose)
      /\ \A k \in Keys : k # op.key => hist'.hurt[k] = hist.hurt[k]
      /\ op # Idle /\ ops' = [ops EXCEPT ![a] = Idle] /\ syncing' = syncing
  BY <1>1, <1>2 DEF Ends, Tally
<1>4. ops'[a] = Idle /\ \A b \in Admins \ {a} : ops'[b] = ops[b]
  BY <1>3, EndedOps
<1>5. \A j \in Keys : j # op.key => Still(j)
  BY <1>3 DEF Still, SameAt
<1>6. op.kind \notin shaping /\ op.key \in Keys => Still(op.key)
  <2>1. ASSUME op.kind \notin shaping, op.key \in Keys PROVE Still(op.key)
    <3>1. hist'.hurt[op.key] = hist.hurt[op.key]
      BY <1>1, <1>2, <1>3, <2>1 DEF Ends, Left
    <3>2. op.key \in hist'.loose <=> op.key \in hist.loose
      BY <1>1, <1>2, <2>1 DEF Ends, Loosens, shaping
    <3> QED BY <1>3, <3>1, <3>2 DEF Still, SameAt
  <2> QED BY <2>1
<1>7. ASSUME op.kind \in shaping, op.key \in Keys, ~op.shared PROVE Settled(op.key)'
  <2>1. OnCourse(op)
    BY <1>2, <1>3, <1>7 DEF Tally
  <2>2. Ending(op, ended)
    BY <1>1, <1>2, <1>3, <1>7 DEF Ends, Ending
  <2> QED BY <2>1, <2>2, EndingSettles
<1>8. ASSUME op.kind \in shaping, op.key \in Keys, op.shared PROVE Settled(op.key)'
  <2>1. Overlap \in hist'.hurt[op.key] /\ op.key \in hist'.loose
    BY <1>1, <1>2, <1>3, <1>8 DEF Ends, Left, Loosens
  <2> QED BY <2>1, OverlapLasts DEF Settled
<1>9. ASSUME NEW j \in Keys, ~Changing(j)' PROVE Settled(j)'
  <2>1. CASE j = op.key /\ op.kind \in shaping
    BY <1>7, <1>8, <1>9, <2>1
  <2>2. CASE ~(j = op.key /\ op.kind \in shaping)
    <3>1. ~Changing(j)
      BY <1>2, <1>4, <1>9, <2>2 DEF Changing
    <3>2. Settled(j) /\ Still(j)
      BY <1>5, <1>6, <1>9, <2>2, <3>1 DEF Tally
    <3> QED BY <3>2, StillSettled
  <2> QED BY <2>1, <2>2
<1>10. ASSUME NEW b \in Admins, ops'[b] # Idle
       PROVE  /\ ops'[b].kind = "create" => ops'[b].key \in Keys
              /\ ops'[b].key \in Keys /\ ~ops'[b].shared => OnCourse(ops[b])'
  <2>1. PICK o : o = ops[b] /\ o = ops'[b] /\ o # Idle /\ b # a
    BY <1>4, <1>10
  <2>2. /\ o.kind = "create" => o.key \in Keys
        /\ o.key \in Keys /\ ~o.shared => OnCourse(o)
    BY <2>1 DEF Tally
  <2>3. o.key = op.key => o.shared
    BY <1>2, <1>3, <2>1 DEF AdminInv, Noticed
  <2>4. o.key \in Keys /\ o.key # op.key /\ OnCourse(o) => OnCourse(o)'
    BY <1>5, StillOnCourse
  <2>5. OnCourse(o)' => OnCourse(ops[b])'
    BY <2>1 DEF OnCourse, Editing, Making, Mapping, Leaving, Reading, Awaits
  <2> QED BY <2>1, <2>2, <2>3, <2>4, <2>5
<1> QED BY <1>3, <1>9, <1>10 DEF Tally

\* The other steps leave the fields, columns and mappings, and what is on record.
LEMMA TallyElse ==
  ASSUME AdminInv, Tally, db'.tables = db.tables, db'.registry = db.registry, db'.mapping = db.mapping,
         hist'.hurt = hist.hurt, hist'.loose = hist.loose,
         \A b \in Admins : Carried(ops[b], ops'[b])
  PROVE  Tally'
<1>1. \A j : Still(j)
  BY DEF Still, SameAt, columnsOf
<1>2. ASSUME NEW j \in Keys, ~Changing(j)' PROVE Settled(j)'
  <2>1. ~Changing(j)
    BY <1>2, CarriedFacts DEF Changing
  <2>2. Settled(j)
    BY <2>1 DEF Tally
  <2> QED BY <1>1, <2>2, StillSettled
<1>3. ASSUME NEW b \in Admins, ops'[b] # Idle
      PROVE  /\ ops'[b].kind = "create" => ops'[b].key \in Keys
             /\ ops'[b].key \in Keys /\ ~ops'[b].shared => OnCourse(ops[b])'
  <2>1. PICK o, p : o = ops[b] /\ p = ops'[b]
    OBVIOUS
  <2>2. /\ o # Idle /\ p.kind = o.kind /\ p.key = o.key /\ p.request = o.request /\ p.todo = o.todo
        /\ o.shared => p.shared
    BY <1>3, <2>1, CarriedFacts
  <2>3. /\ o.kind = "create" => o.key \in Keys
        /\ o.key \in Keys /\ ~o.shared => OnCourse(o)
    BY <2>1, <2>2 DEF Tally
  <2>4. OnCourse(o) => OnCourse(p)'
    BY <1>1, <2>2, StillOnCourse
  <2>5. OnCourse(p)' => OnCourse(ops[b])'
    BY <2>1 DEF OnCourse, Editing, Making, Mapping, Leaving, Reading, Awaits
  <2> QED BY <2>1, <2>2, <2>3, <2>4, <2>5
<1>4. DOMAIN hist'.hurt = Keys /\ DOMAIN db'.registry \subseteq Keys
  BY DEF Tally
<1> QED BY <1>2, <1>3, <1>4 DEF Tally

-----------------------------------------------------------------------------
(* The first states have nothing to settle.                                 *)

\* Dataset j is as it was at first.
AsFirst(d, j) ==
  /\ SameAt(d.registry, AtFirst.registry, j) /\ SameAt(d.tables, AtFirst.tables, j)
  /\ d.mapping[j] = AtFirst.mapping[j]

LEMMA FirstParts ==
  /\ DOMAIN AtFirst = DbParts /\ AtFirst.deleted = 0
  /\ DOMAIN AtFirst.tables = Protected /\ DOMAIN AtFirst.registry = Protected
  /\ \A j \in Protected :
       /\ AtFirst.tables[j].columns = [c \in DOMAIN BuiltIn |-> BuiltIn[c].type]
       /\ AtFirst.registry[j].fields = BuiltIn
  /\ \A j \in Keys \ Protected : AtFirst.mapping[j] = <<>>
  /\ \A j \in Keys \cap Protected : \A l \in DOMAIN AtFirst.mapping[j] : AtFirst.mapping[j][l].col = Ignored
<1> DEFINE d == AtFirst
           m == [l \in {BuiltIn[c].label : c \in DOMAIN BuiltIn \ Reserved} |-> [col |-> Ignored, id |-> 0]]
           t == [columns |-> [c \in DOMAIN BuiltIn |-> BuiltIn[c].type], rows |-> <<>>]
           r == [id |-> 0, source |-> TRUE, fields |-> BuiltIn]
<1>1. /\ DOMAIN d = DbParts /\ d.deleted = 0
      /\ d.mapping = [k \in Keys |-> IF k \in Protected THEN m ELSE <<>>]
      /\ d.registry = [k \in Protected |-> r] /\ d.tables = [k \in Protected |-> t]
  BY DEF AtFirst, DbParts
<1>2. /\ t.columns = [c \in DOMAIN BuiltIn |-> BuiltIn[c].type] /\ r.fields = BuiltIn
      /\ \A l \in DOMAIN m : m[l].col = Ignored
  OBVIOUS
<1> HIDE DEF d, m, t, r
<1>3. /\ \A j \in Keys \ Protected : d.mapping[j] = <<>>
      /\ \A j \in Keys \cap Protected : d.mapping[j] = m
      /\ \A j \in Protected : d.tables[j] = t /\ d.registry[j] = r
  BY <1>1
<1> QED BY <1>1, <1>2, <1>3 DEF d

LEMMA FirstSettled ==
  ASSUME NEW j \in Keys, AsFirst(db, j), hist.hurt[j] = {}, j \notin hist.loose
  PROVE  Settled(j)
<1>1. CASE j \in Protected
  <2>1. /\ j \in DOMAIN db.registry /\ db.registry[j].fields = BuiltIn
        /\ j \in DOMAIN db.tables /\ db.tables[j].columns = [c \in DOMAIN BuiltIn |-> BuiltIn[c].type]
        /\ \A l \in DOMAIN db.mapping[j] : db.mapping[j][l].col = Ignored
    BY <1>1, FirstParts DEF AsFirst, SameAt
  <2>2. fieldsOf(db, j) = BuiltIn /\ columnsOf(db, j) = [c \in DOMAIN BuiltIn |-> BuiltIn[c].type]
    BY <2>1 DEF fieldsOf, columnsOf
  <2>3. Agree(fieldsOf(db, j), columnsOf(db, j)) /\ <<>> \notin DOMAIN fieldsOf(db, j)
    BY <2>2, NamesAssumption DEF Agree
  <2>4. IsMap(columnsOf(db, j))
    BY <2>3, AgreedHalfway
  <2>5. Sound(j)
    BY <2>3, <2>4 DEF Sound
  <2>6. MappedTo(db.mapping[j], fieldsOf(db, j))
    BY <2>1 DEF MappedTo, Apiece
  <2> QED BY <2>1, <2>5, <2>6 DEF Settled
<1>2. CASE j \notin Protected
  <2>1. j \notin DOMAIN db.registry /\ db.mapping[j] = <<>>
    BY <1>2, FirstParts DEF AsFirst, SameAt
  <2> QED BY <2>1 DEF Settled
<1> QED BY <1>1, <1>2

\* A creation, once it has made the table and the row of dataset k: what it has
\* still to do, S, and one statement of that.
Founded(d, k, S) ==
  /\ Fresh(d) /\ k \in DOMAIN d.registry /\ d.registry[k].id = 0
  /\ Between(S, fieldsOf(d, k), columnsOf(d, k)) /\ Mapped(S, fieldsOf(d, k), d.mapping[k])
  /\ DOMAIN d.registry \subseteq Keys /\ \A j \in Keys \ {k} : AsFirst(d, j)
Builds(k, s) ==
  /\ s.key = k /\ s.do \in {"add field", "seed mapping", "add view"}
  /\ s.do = "add field" => s.id = 0
  /\ s.do = "add view" => s.view = RegisterKey(k)

\* What a statement of a creation on k leaves alone.
Apartness(d, e, k) ==
  \A j : j # k => /\ SameAt(e.registry, d.registry, j) /\ SameAt(e.tables, d.tables, j)
                  /\ e.mapping[j] = d.mapping[j]

LEMMA CreationApart ==
  ASSUME NEW d, Fresh(d), NEW k, NEW s, Fits("create", k, s)
  PROVE  Apartness(d, Effect(d, s), k) /\ Fresh(Effect(d, s))
<1> DEFINE e == Effect(d, s)
<1>1. s.key = k /\ s.do \in {"create table", "register", "add field", "seed mapping", "add view"}
  BY DEF Fits, Duty
<1>2. DOMAIN d = DbParts /\ d.deleted \in Nat /\ RowsFinite(d) /\ Parts(d, s, e)
  BY EffectParts DEF Fresh
<1>3. Fresh(e)
  <2>1. Fits("create", s.key, s)
    BY <1>1
  <2> QED BY <2>1, EffectFresh
<1>4. \A j : j # k => SameAt(e.tables, d.tables, j)
  <2>1. CASE s.do \in TableStatements
    BY <1>1, <1>2, <2>1, TableEffect
  <2>2. CASE s.do \notin TableStatements
    <3>1. e.tables = d.tables
      BY <1>2, <2>2 DEF Parts
    <3> QED BY <3>1 DEF SameAt
  <2> QED BY <2>1, <2>2
<1>5. \A j : j # k => SameAt(e.registry, d.registry, j)
  <2>1. CASE s.do \in RegistryStatements
    BY <1>1, <1>2, <2>1, RegistryEffect
  <2>2. CASE s.do \notin RegistryStatements
    <3>1. e.registry = d.registry
      BY <1>2, <2>2 DEF Parts
    <3> QED BY <3>1 DEF SameAt
  <2> QED BY <2>1, <2>2
<1>6. \A j : j # k => e.mapping[j] = d.mapping[j]
  <2>1. CASE s.do \in MappingStatements
    <3>1. \A j : j # s.key => e.mapping[j] = d.mapping[j]
      <4> HIDE DEF e
      <4>1. \A j : j # s.key => Effect(d, s).mapping[j] = d.mapping[j]
        BY <1>2, <2>1, MappingEffect
      <4> QED BY <4>1 DEF e
    <3> QED BY <1>1, <3>1
  <2>2. CASE s.do \notin MappingStatements
    BY <1>2, <2>2 DEF Parts
  <2> QED BY <2>1, <2>2
<1> QED BY <1>3, <1>4, <1>5, <1>6 DEF Apartness

LEMMA FoundedStep ==
  ASSUME NEW d, NEW k \in Keys, NEW S, Founded(d, k, S), NEW s, NEW T, Then(S, s, T), Builds(k, s)
  PROVE  Founded(Effect(d, s), k, T)
<1> DEFINE e == Effect(d, s)
           F == fieldsOf(d, k)
           C == columnsOf(d, k)
           m == d.mapping[k]
           G == fieldsOf(e, k)
           D == columnsOf(e, k)
           n == e.mapping[k]
<1>1. Fits("create", k, s)
  BY DEF Builds, Fits, Duty
<1>2. Fresh(d) /\ k \in DOMAIN d.registry /\ d.registry[k].id = 0 /\ Between(S, F, C) /\ Mapped(S, F, m)
      /\ DOMAIN d.registry \subseteq Keys /\ \A j \in Keys \ {k} : AsFirst(d, j)
  BY DEF Founded
<1>3. Apartness(d, e, k) /\ Fresh(e)
  BY <1>1, <1>2, CreationApart
<1>4. Whole(d) /\ k \in DOMAIN d.mapping
  BY <1>2 DEF Fresh, Whole
<1>5. s.key = k /\ s.do \in {"add field", "seed mapping", "add view"}
  BY DEF Builds
<1>6. Works(d, s)
  <2>1. CASE s.do = "add field"
    <3>1. s.col \notin DOMAIN F
      BY <1>2, <2>1, Turn
    <3>2. IsDataset(d, s)
      BY <1>2, <1>5, <2>1 DEF IsDataset, Builds
    <3> QED BY <1>5, <2>1, <3>1, <3>2 DEF Works
  <2>2. CASE s.do = "add view"
    BY <1>5, <2>2 DEF Works, Builds
  <2>3. CASE s.do = "seed mapping"
    BY <2>3 DEF Works
  <2> QED BY <1>5, <2>1, <2>2, <2>3
<1>7. Moved(d, s, e)
  BY <1>4, <1>6, EffectMoves
<1>8. /\ KeepsDataset(d, e, k) /\ MovesFields(s, F, G) /\ MovesColumns(s, C, D) /\ MovesMapping(s, m, n)
  BY <1>4, <1>5, <1>7 DEF Moved
<1>9. k \in DOMAIN e.registry /\ e.registry[k].id = 0
  BY <1>2, <1>8 DEF KeepsDataset
<1>10. DOMAIN e.registry \subseteq Keys /\ \A j \in Keys \ {k} : AsFirst(e, j)
  BY <1>2, <1>3 DEF Apartness, AsFirst, SameAt
<1> HIDE DEF F, C, m, G, D, n
<1>11. Between(T, G, D) /\ Mapped(T, G, n)
  BY <1>2, <1>8, BetweenStep, MappedStep
<1> QED BY <1>3, <1>9, <1>10, <1>11 DEF Founded, G, D, n

\* Its first two statements.
LEMMA FoundedFirst ==
  ASSUME NEW c \in Existing, NEW k, k = c.key, NEW g, g = desiredFields(c.fields, <<>>),
         NEW d, d = Effect(AtFirst, MakeTable(k, g)), NEW e, e = Effect(d, Register(c, g)),
         NEW r, r = Adds(k, 0, g) \o Remaining(k, g)
  PROVE  Founded(e, k, Listed(r))
<1> DEFINE x == MakeTable(k, g)
           y == Register(c, g)
<1>1. Submitted(c.fields) /\ k \in Keys \ Protected
  BY SubmittedAssumption, NamesAssumption DEF Submitted
<1>2. IsSeq(g) /\ Between(Listed(r), <<>>, ColumnsFor(g)) /\ Mapped(Listed(r), <<>>, <<>>)
  BY <1>1, CreateBegins
<1>3. x.do = "create table" /\ x.key = k /\ x.columns = ColumnsFor(g)
  BY DEF MakeTable
<1>4. y.do = "register" /\ y.key = k /\ y.fields = g
  BY DEF Register
<1>5. Fits("create", k, x) /\ Fits("create", k, y)
  BY <1>2, <1>3, <1>4 DEF Fits, Duty
<1> HIDE DEF x, y
<1>6. Apartness(AtFirst, d, k) /\ Fresh(d)
  BY <1>5, AtFirstFresh, CreationApart DEF x
<1>7. Apartness(d, e, k) /\ Fresh(e)
  BY <1>5, <1>6, CreationApart DEF y
<1>8. d.deleted = 0 /\ d.mapping = AtFirst.mapping /\ columnsOf(d, k) = ColumnsFor(g)
  <2>1. Kept(AtFirst, Effect(AtFirst, x), {"tables"})
    <3>1. x.do \in TableStatements
      BY <1>3 DEF TableStatements
    <3>2. DOMAIN AtFirst = DbParts
      BY FirstParts
    <3> QED BY <3>1, <3>2, TableEffect
  <2>2. columnsOf(Effect(AtFirst, x), x.key) = x.columns
    BY <1>3, FirstParts, CreateTableGoes
  <2> QED BY <1>3, <2>1, <2>2, FirstParts DEF Kept, x
<1>9. /\ k \in DOMAIN e.registry /\ fieldsOf(e, k) = <<>> /\ e.registry[k].id = 0
      /\ e.mapping = d.mapping /\ columnsOf(e, k) = columnsOf(d, k)
  <2>1. DOMAIN d = DbParts /\ d.deleted \in Nat /\ RowsFinite(d)
    BY <1>6 DEF Fresh
  <2>2. k \in DOMAIN Effect(d, y).registry /\ fieldsOf(Effect(d, y), k) = <<>> /\ Effect(d, y).registry[k].id = 0
    BY <1>4, <1>8, <2>1, RegisterGoes
  <2>3. Parts(d, y, Effect(d, y))
    BY <2>1, EffectParts
  <2>4. Effect(d, y).tables = d.tables /\ Effect(d, y).mapping = d.mapping
    BY <1>4, <2>3 DEF Parts, TableStatements, MappingStatements
  <2> QED BY <2>2, <2>4 DEF columnsOf, y
<1>10. e.mapping[k] = <<>>
  BY <1>1, <1>8, <1>9, FirstParts
<1>11. \A j \in Keys \ {k} : AsFirst(e, j)
  BY <1>6, <1>7 DEF Apartness, AsFirst, SameAt
<1>12. DOMAIN e.registry \subseteq Keys
  <2> SUFFICES ASSUME NEW j \in DOMAIN e.registry, j # k PROVE j \in Keys
    BY <1>1
  <2>1. j \in DOMAIN AtFirst.registry
    BY <1>6, <1>7 DEF Apartness, SameAt
  <2> QED BY <2>1, FirstParts, NamesAssumption
<1> QED BY <1>2, <1>7, <1>8, <1>9, <1>10, <1>11, <1>12 DEF Founded

\* What is left of r after n statements.
After(r, n) == {r[j] : j \in {i \in DOMAIN r : i > n}}

LEMMA AfterOne ==
  ASSUME NEW r, IsSeq(r), Ordered(r), NEW n \in Nat, n + 1 \in DOMAIN r
  PROVE  Then(After(r, n), r[n + 1], After(r, n + 1))
<1>1. DOMAIN r = 1..Len(r) /\ Len(r) \in Nat
  BY DEF IsSeq
<1>2. \A i \in DOMAIN r : i > n <=> i = n + 1 \/ i > n + 1
  BY <1>1
<1>3. After(r, n) = {r[n + 1]} \cup After(r, n + 1)
  BY <1>2 DEF After
<1>4. \A i \in DOMAIN r : i > n + 1 => Before(r[n + 1], r[i])
  BY <1>1 DEF Ordered
<1> QED BY <1>3, <1>4 DEF Then, After

LEMMA StartsAt ==
  ASSUME NEW p, NEW x, NEW y, NEW r, Starts(p, x, y, r)
  PROVE  /\ IsSeq(r) /\ Len(p) = Len(r) + 2 /\ Len(r) \in Nat /\ DOMAIN r = 1..Len(r) /\ p[1] = x /\ p[2] = y
         /\ \A i \in DOMAIN r : r[i] = p[i + 2]
<1> DEFINE t == Tail(p)
<1>1. IsSeq(p) /\ p # <<>> /\ IsSeq(t) /\ t # <<>> /\ Tail(t) = r /\ IsSeq(r) /\ p[1] = x /\ p[2] = y
      /\ Len(p) = 2 + Len(r)
  BY DEF Starts
<1>2. Len(t) = Len(p) - 1 /\ \A i \in DOMAIN t : t[i] = p[i + 1]
  BY <1>1, TailIs
<1> HIDE DEF t
<1>3. \A i \in DOMAIN r : r[i] = t[i + 1]
  BY <1>1, TailIs
<1>4. DOMAIN r = 1..Len(r) /\ DOMAIN t = 1..Len(t) /\ Len(r) \in Nat
  BY <1>1 DEF IsSeq
<1>5. \A i \in DOMAIN r : i + 1 \in DOMAIN t /\ (i + 1) + 1 = i + 2
  BY <1>1, <1>2, <1>4
<1> QED BY <1>1, <1>2, <1>3, <1>4, <1>5

LEMMA StepsFounded ==
  ASSUME NEW k \in Keys, NEW todo, NEW x, NEW y, NEW r, Starts(todo, x, y, r),
         Ordered(r), \A s : Member(s, r) => Builds(k, s),
         NEW f, Steps(f, todo, Len(todo)), Founded(Effect(Effect(AtFirst, x), y), k, Listed(r))
  PROVE  Founded(f[Len(todo)], k, {})
<1> DEFINE N == Len(r)
           G == {n \in Nat : n \in 0..N => Founded(f[n + 2], k, After(r, n))}
<1>1. /\ IsSeq(r) /\ Len(todo) = N + 2 /\ N \in Nat /\ DOMAIN r = 1..N /\ todo[1] = x /\ todo[2] = y
      /\ \A i \in DOMAIN r : r[i] = todo[i + 2]
  BY StartsAt
<1>2. f[0] = AtFirst /\ \A i \in 1..(N + 2) : f[i] = Effect(f[i - 1], todo[i])
  BY <1>1 DEF Steps
<1> HIDE DEF N
<1>3. f[2] = Effect(Effect(AtFirst, x), y)
  <2>1. 1 \in 1..(N + 2) /\ 2 \in 1..(N + 2) /\ 1 - 1 = 0 /\ 2 - 1 = 1
    BY <1>1
  <2>2. f[1] = Effect(f[0], todo[1]) /\ f[2] = Effect(f[1], todo[2])
    BY <1>2, <2>1
  <2> QED BY <1>1, <1>2, <2>2
<1>4. 0 \in G
  <2>1. After(r, 0) = Listed(r)
    BY <1>1 DEF After, Listed
  <2>2. Founded(f[0 + 2], k, After(r, 0))
    BY <1>3, <2>1
  <2> QED BY <2>2
<1>5. ASSUME NEW n \in Nat, n \in G PROVE n + 1 \in G
  <2> SUFFICES ASSUME n + 1 \in 0..N PROVE Founded(f[(n + 1) + 2], k, After(r, n + 1))
    OBVIOUS
  <2>1. n \in 0..N /\ n + 1 \in DOMAIN r /\ (n + 1) + 2 \in 1..(N + 2) /\ ((n + 1) + 2) - 1 = n + 2
    BY <1>1
  <2>2. Founded(f[n + 2], k, After(r, n))
    BY <1>5, <2>1
  <2>3. f[(n + 1) + 2] = Effect(f[n + 2], r[n + 1])
    BY <1>1, <1>2, <2>1
  <2>4. Then(After(r, n), r[n + 1], After(r, n + 1))
    BY <1>1, <2>1, AfterOne
  <2>5. Builds(k, r[n + 1])
    BY <2>1 DEF Member
  <2>6. Founded(Effect(f[n + 2], r[n + 1]), k, After(r, n + 1))
    BY <2>2, <2>4, <2>5, FoundedStep
  <2> QED BY <2>3, <2>6
<1> HIDE DEF G
<1>6. N \in G
  BY <1>1, <1>4, <1>5, SetInduction
<1>7. Founded(f[N + 2], k, After(r, N))
  BY <1>1, <1>6 DEF G
<1>8. After(r, N) = {}
  BY <1>1 DEF After
<1> QED BY <1>1, <1>7, <1>8

LEMMA CreatedFounded ==
  ASSUME NEW c \in Existing
  PROVE  Founded(Created(c), c.key, {})
<1> DEFINE k == c.key
           g == desiredFields(c.fields, <<>>)
           x == MakeTable(k, g)
           y == Register(c, g)
           p == Adds(k, 0, g)
           q == Remaining(k, g)
           r == p \o q
           plan == createPlan(c)
           todo == SubSeq(plan, 1, 2) \o Found(AtFirst, plan[2]) \o SubSeq(plan, 3, Len(plan))
<1>1. Submitted(c.fields) /\ k \in Keys
  BY SubmittedAssumption, NamesAssumption DEF Submitted
<1>2. Starts(plan, x, y, q)
  BY <1>1, CreationIs
<1>3. Found(AtFirst, y) = p
  <2>1. y.do = "register" /\ y.key = k /\ y.fields = g
    BY DEF Register
  <2>2. AtFirst.deleted = 0
    BY FirstParts
  <2> HIDE DEF y, g, k
  <2> QED BY <2>1, <2>2 DEF Found, Adds, Each
<1>4. IsSeq(p) /\ IsSeq(q) /\ IsSeq(r) /\ Ordered(r)
  <2>1. IsSeq(q)
    BY <1>2 DEF Starts
  <2> QED BY <1>1, <2>1, CreateBegins
<1>5. Founded(Effect(Effect(AtFirst, x), y), k, Listed(r))
  BY FoundedFirst
<1>6. \A s : Member(s, r) => Builds(k, s)
  <2>1. IsSeq(g) /\ \A i, j \in DOMAIN g : g[i].key = g[j].key => i = j
    <3>1. AllNamed(g, c.fields, <<>>, Len(c.fields))
      BY <1>1, NoneFinite, DesiredAreNamed
    <3> HIDE DEF g
    <3>2. IsSeq(g)
      BY <3>1 DEF AllNamed, IsSeq
    <3>3. \A i, j \in DOMAIN g : g[i].key = g[j].key => i = j
      BY <1>1, <3>1, NoneFinite, NamesDiffer
    <3> QED BY <3>2, <3>3
  <2> HIDE DEF g, k
  <2>2. /\ \A s : Member(s, Adds(k, 0, g)) <=> \E i \in DOMAIN g : s = AddField(k, 0, g[i])
        /\ \A s : Member(s, Seeds(k, g)) <=> \E i \in DOMAIN g : s = SeedMapping(k, g[i])
        /\ IsSeq(Seeds(k, g))
    <3> HIDE DEF p, q, r, x, y, plan, todo
    <3> QED BY <2>1, AddsAndSeeds
  <2>3. \A s : Member(s, <<AddView(k)>>) => s = AddView(k)
    BY TupleIsSeq
  <2>4. /\ \A h : Builds(k, AddField(k, 0, h)) /\ Builds(k, SeedMapping(k, h))
        /\ Builds(k, AddView(k))
    BY DEF Builds, AddField, SeedMapping, AddView
  <2>5. \A s : Member(s, q) => Member(s, Seeds(k, g)) \/ Member(s, <<AddView(k)>>)
    BY <2>2, TupleIsSeq, ConcatOf DEF Remaining
  <2>6. \A s : Member(s, r) => Member(s, p) \/ Member(s, q)
    BY <1>4, ConcatOf
  <2> QED BY <2>2, <2>3, <2>4, <2>5, <2>6
<1>7. SubSeq(plan, 1, 2) = <<x, y>> /\ plan[2] = y /\ SubSeq(plan, 3, Len(plan)) = q
  BY <1>2 DEF Starts
<1>8. Created(c) = (CHOOSE f : Steps(f, todo, Len(todo)))[Len(todo)]
  BY DEF Created, Steps
<1> HIDE DEF x, y, p, q, plan
<1>9. todo = (<<x, y>> \o p) \o q
  BY <1>3, <1>7
<1>10. Starts(todo, x, y, r)
  BY <1>4, <1>9, PairThen
<1> HIDE DEF todo, r, k
<1>11. Len(todo) \in Nat
  BY <1>10 DEF Starts, IsSeq
<1>12. Steps(CHOOSE f : Steps(f, todo, Len(todo)), todo, Len(todo))
  BY <1>11, StepsExist
<1>13. Founded((CHOOSE f : Steps(f, todo, Len(todo)))[Len(todo)], k, {})
  BY <1>1, <1>4, <1>5, <1>6, <1>10, <1>12, StepsFounded
<1> QED BY <1>8, <1>13 DEF k

LEMMA InitTally == Init => Tally
<1> SUFFICES ASSUME Init PROVE Tally
  OBVIOUS
<1>1. /\ DOMAIN hist.hurt = Keys /\ \A j \in Keys : hist.hurt[j] = {} /\ j \notin hist.loose
      /\ \A a \in Admins : ops[a] = Idle
  BY DEF Init
<1>2. CASE db = AtFirst
  <2>1. \A j : AsFirst(db, j)
    BY <1>2 DEF AsFirst, SameAt
  <2>2. DOMAIN db.registry \subseteq Keys
    BY <1>2, FirstParts, NamesAssumption
  <2> QED BY <1>1, <2>1, <2>2, FirstSettled DEF Tally
<1>3. ASSUME NEW c \in Existing, db = Created(c) PROVE Tally
  <2>1. PICK k : k = c.key /\ k \in Keys
    BY NamesAssumption
  <2>2. Founded(db, k, {})
    BY <1>3, <2>1, CreatedFounded
  <2>3. /\ k \in DOMAIN db.registry /\ DOMAIN db.registry \subseteq Keys
        /\ \A j \in Keys \ {k} : AsFirst(db, j)
        /\ Between({}, fieldsOf(db, k), columnsOf(db, k)) /\ Mapped({}, fieldsOf(db, k), db.mapping[k])
    BY <2>2 DEF Founded
  <2>4. Agree(fieldsOf(db, k), columnsOf(db, k)) /\ MappedTo(db.mapping[k], fieldsOf(db, k))
        /\ IsMap(columnsOf(db, k)) /\ <<>> \notin DOMAIN fieldsOf(db, k)
    <3>1. IsMap(columnsOf(db, k)) /\ <<>> \notin DOMAIN fieldsOf(db, k)
      BY <2>3 DEF Between
    <3> QED BY <2>3, <3>1, BetweenEnds, MappedEnds
  <2>5. Sound(k)
    BY <1>1, <2>1, <2>4 DEF Sound
  <2>6. Settled(k)
    BY <2>3, <2>4, <2>5 DEF Settled
  <2>7. \A j \in Keys : Settled(j)
    BY <1>1, <2>3, <2>6, FirstSettled
  <2> QED BY <1>1, <2>3, <2>7 DEF Tally
<1> QED BY <1>2, <1>3 DEF Init

-----------------------------------------------------------------------------
(* The fields of a dataset are its columns.                                 *)

LEMMA NextTally ==
  ASSUME AdminInv, Tally, [Next]_vars
  PROVE  Tally'
<1>0. /\ Shape /\ DOMAIN db = DbParts /\ DOMAIN hist = HistParts
      /\ \A b \in Admins : ops[b] = Idle \/ (DOMAIN ops[b] = OpParts /\ ops[b].kind # "idle")
  BY DEF AdminInv, Shape
<1>1. \A b \in Admins : Carried(ops[b], ops[b])
  BY <1>0 DEF Carried
<1>2. CASE \E a \in Admins : Request(a)
  BY <1>2, TallyRequest
<1>3. CASE \E a \in Admins : Statement(a)
  BY <1>3, TallyStatement
<1>4. CASE \E a \in Admins : Done(a) \/ Fails(a)
  BY <1>4, TallyEnds
<1>5. CASE \E k : StartSync(k)
  <2>1. PICK k : ops' = Joined(k, ops, "synced") /\ db' = [db EXCEPT !.pipes = @ \cup {k}] /\ hist' = hist
    BY <1>5 DEF StartSync
  <2>2. \A b \in Admins : Carried(ops[b], ops'[b])
    BY <1>0, <2>1, JoinedCarries
  <2>3. db'.tables = db.tables /\ db'.registry = db.registry /\ db'.mapping = db.mapping
    BY <1>0, <2>1 DEF DbParts
  <2> QED BY <2>1, <2>2, <2>3, TallyElse
<1>6. CASE \E k : EndSync(k)
  <2>1. PICK k : ops' = ops /\ db' = [db EXCEPT !.pipes = @ \cup {k}]
                 /\ hist' = [hist EXCEPT !.stale = @ \ {k}]
    BY <1>6 DEF EndSync
  <2>2. db'.tables = db.tables /\ db'.registry = db.registry /\ db'.mapping = db.mapping
    BY <1>0, <2>1 DEF DbParts
  <2>3. hist'.hurt = hist.hurt /\ hist'.loose = hist.loose
    BY <1>0, <2>1 DEF HistParts
  <2> QED BY <1>1, <2>1, <2>2, <2>3, TallyElse
<1>7. CASE (\E k : forDataset(k)) \/ KeepCatalog
  <2>1. ops' = ops /\ db' = db /\ hist' = hist
    BY <1>7 DEF forDataset, KeepCatalog
  <2> QED BY <1>1, <2>1, TallyElse
<1>8. CASE \E c : \E on \in {<<"dataset", k>> : k \in DOMAIN db.registry}
                             \cup {<<"view", v>> : v \in DOMAIN db.views} : AddChart(c, on)
  <2>1. PICK c, on, k : /\ ops' = Joined(k, ops, "synced") /\ db' = [db EXCEPT !.charts = Put(@, c, [on |-> on])]
                        /\ hist' = [hist EXCEPT !.born = @ \cup {c}]
    BY <1>8 DEF AddChart
  <2>2. \A b \in Admins : Carried(ops[b], ops'[b])
    BY <1>0, <2>1, JoinedCarries
  <2>3. db'.tables = db.tables /\ db'.registry = db.registry /\ db'.mapping = db.mapping
    BY <1>0, <2>1 DEF DbParts
  <2>4. hist'.hurt = hist.hurt /\ hist'.loose = hist.loose
    BY <1>0, <2>1 DEF HistParts
  <2> QED BY <2>2, <2>3, <2>4, TallyElse
<1>9. CASE \E c, col : BuildMatview(c, col)
  <2>1. PICK c, m : db' = [db EXCEPT !.matviews = Put(@, c, m)] /\ ops' = ops /\ hist' = hist
    BY <1>9 DEF BuildMatview
  <2>2. db'.tables = db.tables /\ db'.registry = db.registry /\ db'.mapping = db.mapping
    BY <1>0, <2>1 DEF DbParts
  <2> QED BY <1>1, <2>1, <2>2, TallyElse
<1>10. CASE UNCHANGED vars
  <2>1. ops' = ops /\ db' = db /\ hist' = hist
    BY <1>10 DEF vars
  <2> QED BY <1>1, <2>1, TallyElse
<1> QED BY <1>2, <1>3, <1>4, <1>5, <1>6, <1>7, <1>8, <1>9, <1>10, StepKinds

LEMMA TallyMatches ==
  ASSUME Tally
  PROVE  FieldsMatchColumns
<1> SUFFICES ASSUME NEW k \in DOMAIN db.registry, ~Changing(k), hist.hurt[k] = {},
                    NEW F, F = fieldsOf(db, k), NEW m, m = db.mapping[k]
             PROVE  /\ columnsOf(db, k) = [c \in DOMAIN F |-> F[c].type]
                    /\ k \notin hist.loose =>
                         /\ \A l \in {x \in DOMAIN m : m[x].col # Ignored} : m[l].col \in DOMAIN F
                         /\ \A l, o \in {x \in DOMAIN m : m[x].col # Ignored} : m[l].col = m[o].col => l = o
  BY DEF FieldsMatchColumns, fieldsOf
<1>1. k \in Keys /\ Settled(k) /\ Steady(k)
  BY DEF Tally, Steady
<1>2. Sound(k) /\ (k \notin hist.loose => MappedTo(m, F))
  BY <1>1 DEF Settled
<1>3. Agree(F, columnsOf(db, k))
  BY <1>2 DEF Sound
<1> QED BY <1>2, <1>3 DEF Agree, MappedTo, Apiece

\* At every moment each dataset that no operation changes is settled, and each
\* operation that has its dataset for itself is on course: what it has still to do
\* accounts for every difference between the fields and the columns, finds each of
\* them as it needs it, and leaves the mapping on fields there are.  When edits
\* failed, what one of them left is what the same edit would ask for (create,
\* update, remove, resolveColumnKey, autoMap, save).
THEOREM OperationsAreOnCourse == Spec => []Tally
<1>1. Init => Tally
  BY InitTally
<1>2. AdminInv /\ Tally /\ [Next]_vars => Tally'
  BY NextTally
<1>3. Spec => []AdminInv
  BY AdministrationInvariant
<1> QED BY <1>1, <1>2, <1>3, PTL DEF Spec

\* Between operations the fields of a dataset are its columns with their types, a
\* failed edit is made good by repeating it, and no two fields are mapped onto one
\* column or one onto a column that is not there, whatever the datasets, edits,
\* administrators and failures (update, updatePlan, resolveColumnKey, autoMap, save).
THEOREM FieldsAreColumns == Spec => []FieldsMatchColumns
<1>1. Tally => FieldsMatchColumns
  BY TallyMatches
<1> QED BY <1>1, OperationsAreOnCourse, PTL

=============================================================================
