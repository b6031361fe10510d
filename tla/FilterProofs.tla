---------------------------- MODULE FilterProofs ----------------------------
(***************************************************************************)
(* Proofs about the filters: what the parser of a logic expression writes  *)
(* means what it read, whatever the conditions, the expression and the     *)
(* numbers its parameters begin at.                                        *)
(*                                                                         *)
(* In order: parentheses and expressions; that Value and parse, recursive  *)
(* on shorter sequences, are the functions their definitions describe;     *)
(* what one condition writes; what each rule of the grammar reads and      *)
(* writes, by induction over what is left to read; and the conditions that *)
(* no expression combines.                                                 *)
(***************************************************************************)
EXTENDS FilterLogic, SequenceTheorems, FiniteSetTheorems, TLAPS

Below == {p \in Nat \X Nat : p[1] < p[2]}

LEMMA Smallest ==
  ASSUME NEW T, T \subseteq Nat, T # {}
  PROVE  \E m \in T : \A k \in T : m <= k
<1>1. IsWellFoundedOn(Below, Nat)
  BY NatLessThanWellFounded DEF Below, OpToRel
<1>2. PICK m \in T : \A k \in T : ~(<<k, m>> \in Below)
  BY <1>1, WFMin
<1>3. \A k \in T : ~(k < m)
  BY <1>2 DEF Below
<1> QED BY <1>3

LEMMA SetInduction ==
  ASSUME NEW S, 0 \in S, \A n \in Nat : n \in S => n + 1 \in S
  PROVE  Nat \subseteq S
<1> SUFFICES ASSUME Nat \ S # {} PROVE FALSE
  OBVIOUS
<1>1. PICK m \in Nat \ S : \A k \in Nat \ S : m <= k
  BY Smallest
<1>2. m # 0 /\ m - 1 \in Nat /\ m - 1 \in S
  BY <1>1
<1> QED BY <1>1, <1>2

-----------------------------------------------------------------------------
(* Parentheses.                                                             *)

Brackets == {"LP", "RP"}
Delta(x) == IF x.type = "LP" THEN 1 ELSE IF x.type = "RP" THEN -1 ELSE 0

LEMMA OneMore ==
  ASSUME NEW T, NEW i \in Nat
  PROVE  /\ Cardinality((1..i+1) \cap T) = Cardinality((1..i) \cap T) + (IF i + 1 \in T THEN 1 ELSE 0)
         /\ Cardinality((1..i) \cap T) \in Nat
<1> DEFINE A == (1..i) \cap T
           B == (1..i+1) \cap T
<1>1. IsFiniteSet(1..i) /\ A \subseteq 1..i
  BY FS_Interval
<1>2. IsFiniteSet(A) /\ Cardinality(A) \in Nat
  <2> HIDE DEF A
  <2> QED BY <1>1, FS_Subset, FS_CardinalityType
<1>3. CASE i + 1 \in T
  <2>1. B = A \cup {i + 1} /\ i + 1 \notin A
    BY <1>3
  <2> HIDE DEF A, B
  <2>2. Cardinality(B) = Cardinality(A) + 1
    BY <1>2, <2>1, FS_AddElement
  <2> QED BY <1>2, <1>3, <2>2 DEF A, B
<1>4. CASE i + 1 \notin T
  <2>1. B = A
    BY <1>4
  <2> QED BY <1>2, <1>4, <2>1
<1> QED BY <1>3, <1>4

LEMMA DepthStep ==
  ASSUME NEW t, NEW i \in Nat
  PROVE  /\ Depth(t, 0) = 0 /\ Depth(t, i) \in Int
         /\ Depth(t, i + 1) = Depth(t, i) + Delta(t[i + 1])
<1> DEFINE L == {j \in Nat : t[j].type = "LP"}
           R == {j \in Nat : t[j].type = "RP"}
<1>1. \A n \in Nat : Depth(t, n) = Cardinality((1..n) \cap L) - Cardinality((1..n) \cap R)
  <2>1. \A n \in Nat : /\ {j \in 1..n : t[j].type = "LP"} = (1..n) \cap L
                       /\ {j \in 1..n : t[j].type = "RP"} = (1..n) \cap R
    OBVIOUS
  <2> QED BY <2>1 DEF Depth
<1>2. Cardinality((1..0) \cap L) = 0 /\ Cardinality((1..0) \cap R) = 0
  <2>1. (1..0) \cap L = {} /\ (1..0) \cap R = {}
    OBVIOUS
  <2> QED BY <2>1, FS_EmptySet
<1>3. i + 1 \in L <=> t[i + 1].type = "LP"
  OBVIOUS
<1>4. i + 1 \in R <=> t[i + 1].type = "RP"
  OBVIOUS
<1> HIDE DEF L, R
<1>5. Depth(t, 0) = 0
  BY <1>1, <1>2
<1>6. Depth(t, i + 1) = Depth(t, i) + Delta(t[i + 1]) /\ Depth(t, i) \in Int
  <2>1. Depth(t, i) = Cardinality((1..i) \cap L) - Cardinality((1..i) \cap R)
        /\ Depth(t, i + 1) = Cardinality((1..i+1) \cap L) - Cardinality((1..i+1) \cap R)
    BY <1>1
  <2> QED BY <1>3, <1>4, <2>1, OneMore DEF Delta
<1> QED BY <1>5, <1>6

\* The depth of what follows a sequence starts where the sequence ends.
LEMMA DepthOfConcat ==
  ASSUME NEW t, NEW u, NEW k \in Nat, NEW n \in Nat, \A i \in 1..n : Delta(t[k + i]) = Delta(u[i])
  PROVE  \A i \in 0..n : Depth(t, k + i) = Depth(t, k) + Depth(u, i)
<1> DEFINE G == {i \in Nat : i <= n => Depth(t, k + i) = Depth(t, k) + Depth(u, i)}
<1>1. 0 \in G
  BY DepthStep
<1>2. ASSUME NEW i \in Nat, i \in G PROVE i + 1 \in G
  <2> SUFFICES ASSUME i + 1 <= n
               PROVE  Depth(t, k + (i + 1)) = Depth(t, k) + Depth(u, i + 1)
    OBVIOUS
  <2>1. k + (i + 1) = (k + i) + 1 /\ k + i \in Nat /\ i + 1 \in 1..n
    OBVIOUS
  <2>2. Depth(t, k + (i + 1)) = Depth(t, k + i) + Delta(t[k + (i + 1)])
    BY <2>1, DepthStep
  <2>3. Depth(u, i + 1) = Depth(u, i) + Delta(u[i + 1])
    BY DepthStep
  <2>4. Delta(t[k + (i + 1)]) = Delta(u[i + 1]) /\ Delta(u[i + 1]) \in Int
    BY <2>1 DEF Delta
  <2>5. Depth(t, k + i) = Depth(t, k) + Depth(u, i)
    BY <1>2
  <2>6. Depth(t, k) \in Int /\ Depth(u, i) \in Int
    BY DepthStep
  <2> QED BY <2>2, <2>3, <2>4, <2>5, <2>6
<1> HIDE DEF G
<1>3. Nat \subseteq G
  BY <1>1, <1>2, SetInduction
<1> QED BY <1>3 DEF G

\* A sequence that another one begins with, or follows a single word of.
LEMMA DepthOfStart ==
  ASSUME NEW t, NEW u, NEW n \in Nat, \A i \in 1..n : Delta(t[i]) = Delta(u[i])
  PROVE  \A i \in 0..n : Depth(t, i) = Depth(u, i)
<1>1. PICK k \in Nat : k = 0
  OBVIOUS
<1>2. \A i \in 1..n : Delta(t[k + i]) = Delta(u[i])
  <2>1. \A i \in 1..n : k + i = i
    BY <1>1
  <2> QED BY <2>1
<1>3. \A i \in 0..n : Depth(t, k + i) = Depth(t, k) + Depth(u, i)
  BY <1>2, DepthOfConcat
<1> SUFFICES ASSUME NEW i \in 0..n PROVE Depth(t, i) = Depth(u, i)
  OBVIOUS
<1>4. k + i = i /\ Depth(t, k) = 0 /\ Depth(u, i) \in Int
  BY <1>1, DepthStep
<1> QED BY <1>3, <1>4

LEMMA DepthOfRest ==
  ASSUME NEW t, NEW u, NEW n \in Nat, \A i \in 1..n : Delta(t[i + 1]) = Delta(u[i])
  PROVE  \A i \in 0..n : Depth(t, i + 1) = Delta(t[1]) + Depth(u, i)
<1>1. PICK k \in Nat : k = 1
  OBVIOUS
<1>2. \A i \in 0..n : k + i = i + 1
  BY <1>1
<1>3. \A i \in 1..n : Delta(t[k + i]) = Delta(u[i])
  BY <1>2
<1>4. \A i \in 0..n : Depth(t, k + i) = Depth(t, k) + Depth(u, i)
  BY <1>3, DepthOfConcat, SMTT(60)
<1>5. Depth(t, 0 + 1) = Depth(t, 0) + Delta(t[0 + 1]) /\ Depth(t, 0) = 0 /\ Delta(t[1]) \in Int
  BY DepthStep DEF Delta
<1>6. Depth(t, k) = Delta(t[1])
  BY <1>1, <1>5
<1> QED BY <1>2, <1>4, <1>6

-----------------------------------------------------------------------------
(* Expressions: words in balanced parentheses.                              *)

Balanced(t) ==
  /\ t \in Seq(SqlWord) /\ t # <<>>
  /\ Depth(t, Len(t)) = 0 /\ \A i \in 1..Len(t) : Depth(t, i) >= 0
NoOr(t) == TopLevel(t, "OR") = {}
NoAnd(t) == TopLevel(t, "AND") = {}
Shaping == {"LP", "RP", "OR", "AND"}

\* Two sequences with the same parentheses and operators.
SameShape(t, u) ==
  /\ t \in Seq(SqlWord) /\ u \in Seq(SqlWord) /\ Len(t) = Len(u)
  /\ \A i \in 1..Len(t) : t[i].type = u[i].type \/ {t[i].type, u[i].type} \cap Shaping = {}

LEMMA ShapeDecides ==
  ASSUME NEW t, NEW u, SameShape(t, u)
  PROVE  /\ Balanced(t) <=> Balanced(u)
         /\ NoOr(t) <=> NoOr(u)
         /\ NoAnd(t) <=> NoAnd(u)
<1>1. Len(t) \in Nat /\ DOMAIN t = 1..Len(t) /\ DOMAIN u = 1..Len(t)
  BY DEF SameShape
<1>2. \A i \in 1..Len(t) : Delta(t[i]) = Delta(u[i])
  <2> SUFFICES ASSUME NEW i \in 1..Len(t) PROVE Delta(t[i]) = Delta(u[i])
    OBVIOUS
  <2>1. CASE t[i].type = u[i].type
    BY <2>1 DEF Delta
  <2>2. CASE {t[i].type, u[i].type} \cap Shaping = {}
    BY <2>2 DEF Delta, Shaping
  <2> QED BY <2>1, <2>2 DEF SameShape
<1>4. \A i \in 0..Len(t) : Depth(t, i) = Depth(u, i)
  BY <1>1, <1>2, DepthOfStart
<1>5. Balanced(t) <=> Balanced(u)
  BY <1>1, <1>4 DEF SameShape, Balanced
<1>6. \A i \in 1..Len(t) : /\ t[i].type = "OR" <=> u[i].type = "OR"
                           /\ t[i].type = "AND" <=> u[i].type = "AND"
  BY DEF SameShape, Shaping
<1>7. TopLevel(t, "OR") = TopLevel(u, "OR") /\ TopLevel(t, "AND") = TopLevel(u, "AND")
  <2>1. \A i \in 1..Len(t) : Depth(t, i) = Depth(u, i)
    BY <1>1, <1>4
  <2> QED BY <1>1, <1>6, <2>1 DEF TopLevel
<1> QED BY <1>5, <1>7 DEF NoOr, NoAnd

LEMMA SingleShape ==
  ASSUME NEW x \in SqlWord, x.type \notin Shaping
  PROVE  Balanced(<<x>>) /\ NoOr(<<x>>) /\ NoAnd(<<x>>)
<1> DEFINE t == <<x>>
<1>1. t \in Seq(SqlWord) /\ Len(t) = 1 /\ t[1] = x /\ t # <<>> /\ DOMAIN t = 1..1
  OBVIOUS
<1> HIDE DEF t
<1>2. Depth(t, 0 + 1) = Depth(t, 0) + Delta(t[0 + 1]) /\ Depth(t, 0) = 0
  BY DepthStep
<1>3. Depth(t, 1) = 0
  BY <1>1, <1>2 DEF Delta, Shaping
<1>4. Balanced(t)
  BY <1>1, <1>3 DEF Balanced
<1>5. NoOr(t) /\ NoAnd(t)
  BY <1>1 DEF NoOr, NoAnd, TopLevel, Shaping
<1> QED BY <1>4, <1>5 DEF t

\* One word in front: its depth is added.
LEMMA Prefixed ==
  ASSUME NEW x \in SqlWord, NEW t \in Seq(SqlWord)
  PROVE  LET u == <<x>> \o t
         IN /\ u \in Seq(SqlWord) /\ Len(u) = Len(t) + 1 /\ u[1] = x /\ Tail(u) = t
            /\ \A i \in 1..Len(t) : u[i + 1] = t[i]
            /\ \A i \in 0..Len(t) : Depth(u, i + 1) = Delta(x) + Depth(t, i)
<1> DEFINE u == <<x>> \o t
<1>1. /\ u \in Seq(SqlWord) /\ Len(u) = Len(t) + 1 /\ u[1] = x
      /\ \A i \in 1..Len(t) : u[i + 1] = t[i]
      /\ Len(t) \in Nat
  OBVIOUS
<1>2. Tail(u) = t
  OBVIOUS
<1> HIDE DEF u
<1>3. \A i \in 1..Len(t) : Delta(u[i + 1]) = Delta(t[i])
  BY <1>1
<1>7. \A i \in 0..Len(t) : Depth(u, i + 1) = Delta(x) + Depth(t, i)
  BY <1>1, <1>3, DepthOfRest
<1> QED BY <1>1, <1>2, <1>7 DEF u

LEMMA Suffixed ==
  ASSUME NEW x \in SqlWord, NEW t \in Seq(SqlWord)
  PROVE  LET u == t \o <<x>>
         IN /\ u \in Seq(SqlWord) /\ Len(u) = Len(t) + 1 /\ u[Len(t) + 1] = x
            /\ SubSeq(u, 1, Len(t)) = t
            /\ \A i \in 1..Len(t) : u[i] = t[i]
            /\ \A i \in 0..Len(t) : Depth(u, i) = Depth(t, i)
            /\ Depth(u, Len(t) + 1) = Depth(t, Len(t)) + Delta(x)
<1> DEFINE u == t \o <<x>>
<1>1. /\ u \in Seq(SqlWord) /\ Len(u) = Len(t) + 1 /\ u[Len(t) + 1] = x
      /\ \A i \in 1..Len(t) : u[i] = t[i]
      /\ Len(t) \in Nat
  OBVIOUS
<1>2. SubSeq(u, 1, Len(t)) = t
  OBVIOUS
<1> HIDE DEF u
<1>3. \A i \in 1..Len(t) : Delta(u[i]) = Delta(t[i])
  BY <1>1
<1>5. \A i \in 0..Len(t) : Depth(u, i) = Depth(t, i)
  BY <1>1, <1>3, DepthOfStart
<1>6. Depth(u, Len(t) + 1) = Depth(u, Len(t)) + Delta(u[Len(t) + 1])
  BY <1>1, DepthStep
<1>7. Depth(u, Len(t)) = Depth(t, Len(t))
  BY <1>1, <1>5
<1> QED BY <1>1, <1>2, <1>5, <1>6, <1>7 DEF u

\* Two expressions and an operator between them.
Parts(w, n, a, x, b) ==
  /\ Balanced(w) /\ n \in DOMAIN w /\ w[n] = x /\ Depth(w, n) = 0
  /\ SubSeq(w, 1, n - 1) = a /\ SubSeq(w, n + 1, Len(w)) = b
  /\ \A i \in DOMAIN w :
       /\ i < n => i \in DOMAIN a /\ w[i] = a[i] /\ Depth(w, i) = Depth(a, i)
       /\ n < i => i - n \in DOMAIN b /\ w[i] = b[i - n] /\ Depth(w, i) = Depth(b, i - n)

LEMMA JoinedShape ==
  ASSUME NEW a, NEW b, Balanced(a), Balanced(b), NEW x \in SqlWord, x.type \in {"OR", "AND"}
  PROVE  Parts(a \o <<x>> \o b, Len(a) + 1, a, x, b)
<1> DEFINE w == a \o <<x>> \o b
           n == Len(a) + 1
<1>0. a \in Seq(SqlWord) /\ b \in Seq(SqlWord) /\ Len(a) \in Nat /\ Len(b) \in Nat
      /\ DOMAIN a = 1..Len(a) /\ DOMAIN b = 1..Len(b) /\ a # <<>> /\ b # <<>>
  BY DEF Balanced
<1>1. /\ w \in Seq(SqlWord) /\ Len(w) = n + Len(b) /\ w[n] = x
      /\ \A i \in 1..Len(a) : w[i] = a[i]
      /\ \A i \in 1..Len(b) : w[n + i] = b[i]
  <2>1. a \o <<x>> \in Seq(SqlWord) /\ Len(a \o <<x>>) = n
        /\ \A i \in 1..n : (a \o <<x>>)[i] = IF i <= Len(a) THEN a[i] ELSE x
    BY <1>0
  <2> DEFINE c == a \o <<x>>
  <2> HIDE DEF c
  <2>2. /\ c \o b \in Seq(SqlWord) /\ Len(c \o b) = Len(c) + Len(b)
        /\ \A i \in 1..Len(c) + Len(b) : (c \o b)[i] = IF i <= Len(c) THEN c[i] ELSE b[i - Len(c)]
    BY <1>0, <2>1, ConcatProperties DEF c
  <2>3. Len(c) = n /\ \A i \in 1..n : c[i] = IF i <= Len(a) THEN a[i] ELSE x
    BY <2>1 DEF c
  <2>4. w = c \o b
    BY DEF c
  <2>5. \A i \in 1..Len(b) : n + i \in 1..Len(c) + Len(b) /\ ~(n + i <= Len(c)) /\ (n + i) - Len(c) = i
    BY <1>0, <2>3
  <2>6. \A i \in 1..Len(a) : i \in 1..Len(c) + Len(b) /\ i <= Len(c) /\ i \in 1..n
    BY <1>0, <2>3
  <2>7. n \in 1..Len(c) + Len(b) /\ n <= Len(c) /\ n \in 1..n /\ ~(n <= Len(a))
    BY <1>0, <2>3
  <2> HIDE DEF w, n
  <2> QED BY <2>2, <2>3, <2>4, <2>5, <2>6, <2>7
<1> HIDE DEF w
<1>2. n \in Nat /\ n - 1 = Len(a) /\ Len(w) \in Nat /\ n <= Len(w) /\ DOMAIN w = 1..Len(w)
  BY <1>0, <1>1
<1>3. SubSeq(w, 1, n - 1) = a
  <2>1. SubSeq(w, 1, Len(a)) = [i \in 1..Len(a) |-> w[i]]
    BY <1>0, <1>1, <1>2
  <2>2. a = [i \in 1..Len(a) |-> a[i]]
    BY <1>0
  <2> QED BY <1>1, <1>2, <2>1, <2>2
<1>4. SubSeq(w, n + 1, Len(w)) = b
  <2>1. Len(w) - (n + 1) + 1 = Len(b) /\ n + 1 \in Nat /\ \A i \in 1..Len(b) : (n + 1) + i - 1 = n + i
    BY <1>0, <1>1, <1>2
  <2>2. SubSeq(w, n + 1, Len(w)) = [i \in 1..Len(b) |-> w[n + i]]
    <3>1. SubSeq(w, n + 1, Len(w)) = [i \in 1..(Len(w) - (n + 1) + 1) |-> w[i + (n + 1) - 1]]
      BY <1>1, <1>2, <2>1
    <3>2. \A i \in 1..Len(b) : i + (n + 1) - 1 = n + i
      BY <1>0, <1>2
    <3> HIDE DEF n
    <3> QED BY <2>1, <3>1, <3>2
  <2>3. b = [i \in 1..Len(b) |-> b[i]]
    BY <1>0
  <2> QED BY <1>1, <2>2, <2>3
<1>5. \A i \in 0..Len(a) : Depth(w, i) = Depth(a, i)
  <2>1. \A i \in 1..Len(a) : Delta(w[i]) = Delta(a[i])
    BY <1>1
  <2> HIDE DEF n
  <2> QED BY <1>0, <2>1, DepthOfStart
<1>6. Depth(w, n) = 0
  <2>1. Depth(w, Len(a) + 1) = Depth(w, Len(a)) + Delta(w[Len(a) + 1])
    BY <1>0, DepthStep
  <2>2. Depth(w, Len(a)) = 0 /\ Delta(w[n]) = 0
    BY <1>0, <1>1, <1>5 DEF Balanced, Delta
  <2> QED BY <2>1, <2>2
<1>7. \A i \in 0..Len(b) : Depth(w, n + i) = Depth(b, i)
  <2>1. \A i \in 1..Len(b) : Delta(w[n + i]) = Delta(b[i])
    BY <1>1
  <2>2. \A i \in 0..Len(b) : Depth(b, i) \in Int
    BY <1>0, DepthStep
  <2>3. PICK k \in Nat : k = n
    BY <1>2
  <2> HIDE DEF n
  <2>4. \A i \in 1..Len(b) : Delta(w[k + i]) = Delta(b[i])
    BY <2>1, <2>3
  <2>5. PICK m \in Nat : m = Len(b)
    BY <1>0
  <2>6. \A i \in 1..m : Delta(w[k + i]) = Delta(b[i])
    BY <2>4, <2>5
  <2>7. \A i \in 0..m : Depth(w, k + i) = Depth(w, k) + Depth(b, i)
    BY <2>6, DepthOfConcat
  <2> QED BY <1>6, <2>2, <2>3, <2>5, <2>7
<1>8. ASSUME NEW i \in DOMAIN w
      PROVE  /\ i < n => i \in DOMAIN a /\ w[i] = a[i] /\ Depth(w, i) = Depth(a, i)
             /\ n < i => i - n \in DOMAIN b /\ w[i] = b[i - n] /\ Depth(w, i) = Depth(b, i - n)
  <2>1. CASE i < n
    <3>1. i \in 1..Len(a) /\ i \in 0..Len(a) /\ ~(n < i)
      BY <1>0, <1>2, <2>1
    <3> QED BY <1>0, <1>1, <1>5, <3>1
  <2>2. CASE n < i
    <3>1. i - n \in 1..Len(b) /\ i - n \in 0..Len(b) /\ n + (i - n) = i /\ ~(i < n)
      BY <1>0, <1>1, <1>2, <2>2
    <3> HIDE DEF n
    <3> QED BY <1>0, <1>1, <1>7, <3>1
  <2> QED BY <1>2, <2>1, <2>2
<1>9. Balanced(w)
  <2>1. Depth(w, Len(w)) = 0
    <3>1. Depth(w, n + Len(b)) = Depth(b, Len(b)) /\ Depth(b, Len(b)) = 0
      BY <1>0, <1>7 DEF Balanced
    <3> QED BY <1>1, <3>1
  <2>2. ASSUME NEW i \in 1..Len(w) PROVE Depth(w, i) >= 0
    <3>1. CASE i < n
      BY <1>0, <1>2, <1>8, <3>1 DEF Balanced
    <3>2. CASE i = n
      BY <1>6, <3>2
    <3>3. CASE n < i
      BY <1>0, <1>2, <1>8, <3>3 DEF Balanced
    <3> QED BY <1>2, <3>1, <3>2, <3>3
  <2>3. w # <<>>
    BY <1>0, <1>1
  <2> QED BY <1>1, <2>1, <2>2, <2>3 DEF Balanced
<1>10. n \in DOMAIN w
  BY <1>0, <1>2
<1> HIDE DEF n
<1>11. /\ Balanced(w) /\ n \in DOMAIN w /\ w[n] = x /\ Depth(w, n) = 0
       /\ SubSeq(w, 1, n - 1) = a /\ SubSeq(w, n + 1, Len(w)) = b
  BY <1>1, <1>3, <1>4, <1>6, <1>9, <1>10
<1>12. Parts(w, n, a, x, b)
  BY <1>8, <1>11 DEF Parts
<1> QED BY <1>12 DEF w, n

\* Parentheses keep everything in them from the top level.
LEMMA ParenShape ==
  ASSUME NEW a, Balanced(a)
  PROVE  /\ Balanced(Paren(a)) /\ NoOr(Paren(a)) /\ NoAnd(Paren(a))
         /\ Paren(a)[1].type = "LP" /\ SubSeq(Paren(a), 2, Len(Paren(a)) - 1) = a
<1> DEFINE lp == Tok("LP")
           rp == Tok("RP")
           n == Len(a)
           u == <<lp>> \o a
           w == u \o <<rp>>
<1>1. a \in Seq(SqlWord) /\ n \in Nat /\ lp \in SqlWord /\ rp \in SqlWord
      /\ Delta(lp) = 1 /\ Delta(rp) = -1
  BY DEF Balanced, SqlWord, Token, Tok, Delta
<1> HIDE DEF lp, rp
<1>2. /\ u \in Seq(SqlWord) /\ Len(u) = n + 1 /\ u[1] = lp
      /\ \A i \in 1..n : u[i + 1] = a[i]
      /\ \A i \in 0..n : Depth(u, i + 1) = 1 + Depth(a, i)
  BY <1>1, Prefixed
<1> HIDE DEF u
<1>3. /\ w \in Seq(SqlWord) /\ Len(w) = n + 2 /\ w[n + 2] = rp
      /\ \A i \in 1..n + 1 : w[i] = u[i]
      /\ \A i \in 0..n + 1 : Depth(w, i) = Depth(u, i)
      /\ Depth(w, n + 2) = Depth(u, n + 1) + Delta(rp)
  <2>1. (n + 1) + 1 = n + 2
    BY <1>1
  <2> HIDE DEF n
  <2> QED BY <1>1, <1>2, <2>1, Suffixed
<1> HIDE DEF w
<1>4. Depth(a, n) = 0 /\ \A i \in 0..n : Depth(a, i) >= 0 /\ Depth(a, i) \in Int
  <2>1. \A i \in 0..n : Depth(a, i) \in Int
    BY <1>1, DepthStep
  <2>2. Depth(a, 0) = 0
    BY DepthStep
  <2>3. Depth(a, n) = 0 /\ \A i \in 1..n : Depth(a, i) >= 0
    BY DEF Balanced
  <2>4. \A i \in 0..n : i = 0 \/ i \in 1..n
    BY <1>1
  <2> HIDE DEF n
  <2> QED BY <2>1, <2>2, <2>3, <2>4
<1>5. Depth(w, n + 2) = 0
  <2>1. Depth(u, n + 1) = 1
    BY <1>1, <1>2, <1>4
  <2> QED BY <1>1, <1>3, <2>1
<1>6. \A i \in 1..n + 1 : Depth(w, i) >= 1
  <2> SUFFICES ASSUME NEW i \in 1..n + 1 PROVE Depth(w, i) >= 1
    OBVIOUS
  <2>1. i - 1 \in 0..n /\ (i - 1) + 1 = i /\ i \in 0..n + 1
    BY <1>1
  <2>2. Depth(u, (i - 1) + 1) = 1 + Depth(a, i - 1)
    BY <1>2, <2>1
  <2>3. Depth(w, i) = 1 + Depth(a, i - 1)
    BY <1>3, <2>1, <2>2
  <2> QED BY <1>4, <2>1, <2>3
<1>7. DOMAIN w = 1..n + 2 /\ Len(w) \in Nat
  BY <1>1, <1>3
<1>8. \A i \in 1..n + 2 : i = n + 2 \/ i \in 1..n + 1
  BY <1>1
<1>9. Balanced(w)
  <2>1. \A i \in 1..n + 2 : Depth(w, i) >= 0
    <3> SUFFICES ASSUME NEW i \in 1..n + 2 PROVE Depth(w, i) >= 0
      OBVIOUS
    <3>1. Depth(w, i) \in Int
      BY <1>1, DepthStep
    <3> QED BY <1>5, <1>6, <1>8, <3>1
  <2>2. w # <<>>
    BY <1>1, <1>3
  <2> QED BY <1>3, <1>5, <2>1, <2>2 DEF Balanced
<1>10. NoOr(w) /\ NoAnd(w)
  <2>1. w[n + 2].type = "RP"
    BY <1>3 DEF rp, Tok
  <2> SUFFICES ASSUME NEW i \in 1..n + 2, Depth(w, i) = 0
               PROVE  w[i].type \notin {"OR", "AND"}
    BY <1>7 DEF NoOr, NoAnd, TopLevel
  <2>2. i = n + 2
    BY <1>6, <1>8
  <2> QED BY <2>1, <2>2
<1>11. w[1].type = "LP"
  BY <1>1, <1>2, <1>3 DEF lp, Tok
<1>12. SubSeq(w, 2, Len(w) - 1) = a
  <2>1. \A i \in 1..n : w[i + 1] = a[i]
    <3> SUFFICES ASSUME NEW i \in 1..n PROVE w[i + 1] = a[i]
      OBVIOUS
    <3>1. i + 1 \in 1..n + 1
      BY <1>1
    <3> QED BY <1>2, <1>3, <3>1
  <2>2. Len(w) - 1 = n + 1 /\ (n + 1) - 2 + 1 = n
    BY <1>1, <1>3
  <2>3. SubSeq(w, 2, n + 1) = [i \in 1..n |-> w[i + 1]]
    <3>1. SubSeq(w, 2, n + 1) = [i \in 1..((n + 1) - 2 + 1) |-> w[i + 2 - 1]]
      OBVIOUS
    <3>2. \A i \in 1..n : i + 2 - 1 = i + 1
      BY <1>1
    <3> HIDE DEF n
    <3> QED BY <2>2, <3>1, <3>2
  <2>4. a = [i \in 1..n |-> a[i]]
    BY <1>1
  <2> HIDE DEF n
  <2> QED BY <2>1, <2>2, <2>3, <2>4
<1>13. Paren(a) = w
  BY DEF Paren, w, u, lp, rp
<1> HIDE DEF n
<1> QED BY <1>9, <1>10, <1>11, <1>12, <1>13

LEMMA NotShape ==
  ASSUME NEW a, Balanced(a)
  PROVE  LET w == <<Tok("NOT")>> \o a
         IN /\ Balanced(w) /\ w[1].type = "NOT" /\ Tail(w) = a
            /\ NoOr(a) => NoOr(w)
            /\ NoAnd(a) => NoAnd(w)
<1> DEFINE x == Tok("NOT")
           n == Len(a)
           w == <<x>> \o a
<1>1. a \in Seq(SqlWord) /\ n \in Nat /\ x \in SqlWord /\ Delta(x) = 0 /\ x.type = "NOT"
      /\ DOMAIN a = 1..n
  BY DEF Balanced, SqlWord, Token, Tok, Delta
<1> HIDE DEF x
<1>2. /\ w \in Seq(SqlWord) /\ Len(w) = n + 1 /\ w[1] = x /\ Tail(w) = a
      /\ \A i \in 1..n : w[i + 1] = a[i]
      /\ \A i \in 0..n : Depth(w, i + 1) = 0 + Depth(a, i)
  BY <1>1, Prefixed
<1> HIDE DEF w
<1>3. \A i \in 0..n : Depth(w, i + 1) = Depth(a, i) /\ Depth(a, i) \in Int
  BY <1>1, <1>2, DepthStep
<1>4. ASSUME NEW i \in 1..n + 1
      PROVE  \/ i = 1 /\ Depth(w, i) = 0
             \/ i - 1 \in 1..n /\ w[i] = a[i - 1] /\ Depth(w, i) = Depth(a, i - 1)
  <2>1. CASE i = 1
    <3>1. Depth(a, 0) = 0 /\ 0 \in 0..n
      BY <1>1, DepthStep
    <3>2. Depth(w, 0 + 1) = 0
      BY <1>3, <3>1
    <3> QED BY <2>1, <3>2
  <2>2. CASE i # 1
    <3>1. i - 1 \in 1..n /\ i - 1 \in 0..n /\ (i - 1) + 1 = i
      BY <1>1, <2>2
    <3> HIDE DEF n
    <3>2. w[(i - 1) + 1] = a[i - 1] /\ Depth(w, (i - 1) + 1) = Depth(a, i - 1)
      BY <1>2, <1>3, <3>1
    <3> QED BY <3>1, <3>2
  <2> QED BY <2>1, <2>2
<1>5. Balanced(w)
  <2>1. Depth(w, n + 1) = 0
    BY <1>1, <1>3 DEF Balanced
  <2>2. \A i \in 1..n + 1 : Depth(w, i) >= 0
    BY <1>4 DEF Balanced
  <2>3. w # <<>>
    BY <1>1, <1>2
  <2> QED BY <1>2, <2>1, <2>2, <2>3 DEF Balanced
<1>6. ASSUME NEW i \in DOMAIN w, w[i].type \in {"OR", "AND"}, Depth(w, i) = 0
      PROVE  i - 1 \in DOMAIN a /\ w[i].type = a[i - 1].type /\ Depth(a, i - 1) = 0
  <2>1. i \in 1..n + 1 /\ i # 1
    BY <1>1, <1>2, <1>6
  <2> QED BY <1>1, <1>4, <1>6, <2>1
<1>7. NoOr(a) => NoOr(w)
  BY <1>6 DEF NoOr, TopLevel
<1>8. NoAnd(a) => NoAnd(w)
  BY <1>6 DEF NoAnd, TopLevel
<1> QED BY <1>1, <1>2, <1>5, <1>7, <1>8 DEF w, x


-----------------------------------------------------------------------------
(* What PostgreSQL makes of words.  Value exists: it asks only for the      *)
(* value of shorter sequences.                                              *)

ValueBy(f, t) ==
  LET ors == TopLevel(t, "OR")
      ands == TopLevel(t, "AND")
      split == Least(IF ors # {} THEN ors ELSE ands)
      left == f[SubSeq(t, 1, split - 1)]
      right == f[SubSeq(t, split + 1, Len(t))]
      unary == t # <<>> /\ ors \cup ands = {}
  IN CASE t = <<>> -> 2
       [] ors # {} -> Max({left, right})
       [] ors = {} /\ ands # {} -> Min({left, right})
       [] unary /\ t[1].type = "NOT" -> 2 - f[Tail(t)]
       [] unary /\ t[1].type = "LP" -> f[SubSeq(t, 2, Len(t) - 1)]
       [] OTHER -> t[1].value

LEMMA LeastIsIn ==
  ASSUME NEW S, S \subseteq Nat, S # {}
  PROVE  Least(S) \in S /\ \A j \in S : Least(S) <= j
BY Smallest DEF Least

LEMMA Shorter ==
  ASSUME NEW S, NEW t \in Seq(S)
  PROVE  /\ \A i \in 1..Len(t) :
              /\ SubSeq(t, 1, i - 1) \in Seq(S) /\ Len(SubSeq(t, 1, i - 1)) < Len(t)
              /\ SubSeq(t, i + 1, Len(t)) \in Seq(S) /\ Len(SubSeq(t, i + 1, Len(t))) < Len(t)
         /\ t # <<>> =>
              /\ Tail(t) \in Seq(S) /\ Len(Tail(t)) < Len(t)
              /\ SubSeq(t, 2, Len(t) - 1) \in Seq(S) /\ Len(SubSeq(t, 2, Len(t) - 1)) < Len(t)
<1>1. Len(t) \in Nat /\ \A i \in 1..Len(t) : t[i] \in S
  OBVIOUS
<1>2. ASSUME NEW a \in 1..Len(t) + 1, NEW b \in Int, b <= Len(t)
      PROVE  /\ SubSeq(t, a, b) \in Seq(S)
             /\ Len(SubSeq(t, a, b)) = IF a <= b THEN b - a + 1 ELSE 0
  <2>1. \A i \in a..b : t[i] \in S
    BY <1>1, <1>2
  <2> QED BY <1>1, <1>2, <2>1
<1>3. ASSUME NEW i \in 1..Len(t)
      PROVE  /\ SubSeq(t, 1, i - 1) \in Seq(S) /\ Len(SubSeq(t, 1, i - 1)) < Len(t)
             /\ SubSeq(t, i + 1, Len(t)) \in Seq(S) /\ Len(SubSeq(t, i + 1, Len(t))) < Len(t)
  <2>1. 1 \in 1..Len(t) + 1 /\ i - 1 \in Int /\ i - 1 <= Len(t)
        /\ i + 1 \in 1..Len(t) + 1 /\ Len(t) \in Int /\ Len(t) <= Len(t)
    BY <1>1
  <2>2. SubSeq(t, 1, i - 1) \in Seq(S)
        /\ Len(SubSeq(t, 1, i - 1)) = IF 1 <= i - 1 THEN i - 1 - 1 + 1 ELSE 0
    BY <1>2, <2>1
  <2>3. SubSeq(t, i + 1, Len(t)) \in Seq(S)
        /\ Len(SubSeq(t, i + 1, Len(t))) = IF i + 1 <= Len(t) THEN Len(t) - (i + 1) + 1 ELSE 0
    BY <1>2, <2>1
  <2> QED BY <1>1, <2>2, <2>3
<1>4. ASSUME t # <<>>
      PROVE  /\ Tail(t) \in Seq(S) /\ Len(Tail(t)) < Len(t)
             /\ SubSeq(t, 2, Len(t) - 1) \in Seq(S) /\ Len(SubSeq(t, 2, Len(t) - 1)) < Len(t)
  <2>1. 2 \in 1..Len(t) + 1 /\ Len(t) - 1 \in Int /\ Len(t) - 1 <= Len(t)
    BY <1>1, <1>4
  <2>2. SubSeq(t, 2, Len(t) - 1) \in Seq(S)
        /\ Len(SubSeq(t, 2, Len(t) - 1)) = IF 2 <= Len(t) - 1 THEN Len(t) - 1 - 2 + 1 ELSE 0
    BY <1>2, <2>1
  <2>3. Tail(t) \in Seq(S) /\ Len(Tail(t)) = Len(t) - 1
    BY <1>4
  <2> QED BY <1>1, <1>4, <2>2, <2>3
<1> QED BY <1>3, <1>4

\* A set of functions that agree on shorter sequences agree on one.
LEMMA ValueIsLocal ==
  ASSUME NEW t \in Seq(Token), NEW f, NEW g,
         \A u \in Seq(Token) : Len(u) < Len(t) => f[u] = g[u]
  PROVE  ValueBy(f, t) = ValueBy(g, t)
<1> DEFINE ors == TopLevel(t, "OR")
           ands == TopLevel(t, "AND")
           split == Least(IF ors # {} THEN ors ELSE ands)
<1>1. CASE t = <<>>
  <2>1. ors = {} /\ ands = {}
    BY <1>1 DEF TopLevel
  <2> QED BY <1>1, <2>1 DEF ValueBy
<1>2. CASE ors \cup ands # {}
  <2>1. ors \subseteq 1..Len(t) /\ ands \subseteq 1..Len(t)
    BY DEF TopLevel
  <2>2. split \in 1..Len(t)
    <3> DEFINE S == IF ors # {} THEN ors ELSE ands
    <3>1. S \subseteq Nat /\ S # {} /\ S \subseteq 1..Len(t)
      BY <1>2, <2>1
    <3> HIDE DEF S
    <3>2. Least(S) \in S
      BY <3>1, LeastIsIn
    <3> QED BY <3>1, <3>2 DEF S
  <2> HIDE DEF split
  <2>3. f[SubSeq(t, 1, split - 1)] = g[SubSeq(t, 1, split - 1)]
        /\ f[SubSeq(t, split + 1, Len(t))] = g[SubSeq(t, split + 1, Len(t))]
    BY <2>2, Shorter
  <2> DEFINE fl == f[SubSeq(t, 1, split - 1)]
             fr == f[SubSeq(t, split + 1, Len(t))]
  <2>4. t # <<>>
    BY <2>2
  <2>5. CASE ors # {}
    <3>1. ValueBy(f, t) = Max({f[SubSeq(t, 1, split - 1)], f[SubSeq(t, split + 1, Len(t))]})
      BY <2>4, <2>5 DEF ValueBy, split
    <3>2. ValueBy(g, t) = Max({g[SubSeq(t, 1, split - 1)], g[SubSeq(t, split + 1, Len(t))]})
      BY <2>4, <2>5 DEF ValueBy, split
    <3> QED BY <2>3, <3>1, <3>2
  <2>6. CASE ors = {}
    <3>1. ValueBy(f, t) = Min({f[SubSeq(t, 1, split - 1)], f[SubSeq(t, split + 1, Len(t))]})
      BY <1>2, <2>4, <2>6 DEF ValueBy, split
    <3>2. ValueBy(g, t) = Min({g[SubSeq(t, 1, split - 1)], g[SubSeq(t, split + 1, Len(t))]})
      BY <1>2, <2>4, <2>6 DEF ValueBy, split
    <3> QED BY <2>3, <3>1, <3>2
  <2> QED BY <2>5, <2>6
<1>3. CASE t # <<>> /\ ors \cup ands = {}
  <2>1. f[Tail(t)] = g[Tail(t)] /\ f[SubSeq(t, 2, Len(t) - 1)] = g[SubSeq(t, 2, Len(t) - 1)]
    BY <1>3, Shorter
  <2> QED BY <1>3, <2>1 DEF ValueBy
<1> QED BY <1>1, <1>2, <1>3

Valued(f, n) == \A t \in Seq(Token) : Len(t) < n => f[t] = ValueBy(f, t)

LEMMA ValuedAgree ==
  ASSUME NEW n \in Nat, NEW f, NEW g, Valued(f, n), Valued(g, n)
  PROVE  \A t \in Seq(Token) : Len(t) < n => f[t] = g[t]
<1> DEFINE G == {k \in Nat : k <= n => \A t \in Seq(Token) : Len(t) < k => f[t] = g[t]}
<1>1. 0 \in G
  <2>1. \A t \in Seq(Token) : ~(Len(t) < 0)
    OBVIOUS
  <2> QED BY <2>1
<1>2. ASSUME NEW k \in Nat, k \in G PROVE k + 1 \in G
  <2> SUFFICES ASSUME k + 1 <= n, NEW t \in Seq(Token), Len(t) < k + 1 PROVE f[t] = g[t]
    OBVIOUS
  <2>1. Len(t) < n /\ \A u \in Seq(Token) : Len(u) < Len(t) => Len(u) < k
    OBVIOUS
  <2>2. \A u \in Seq(Token) : Len(u) < Len(t) => f[u] = g[u]
    BY <1>2, <2>1
  <2>3. ValueBy(f, t) = ValueBy(g, t)
    BY <2>2, ValueIsLocal
  <2> QED BY <2>1, <2>3 DEF Valued
<1> HIDE DEF G
<1>3. n \in G
  BY <1>1, <1>2, SetInduction
<1> QED BY <1>3 DEF G

LEMMA ValuedExists ==
  ASSUME NEW n \in Nat
  PROVE  \E f : Valued(f, n)
<1> DEFINE G == {k \in Nat : \E f : Valued(f, k)}
<1>1. 0 \in G
  <2>1. \A t \in Seq(Token) : ~(Len(t) < 0)
    OBVIOUS
  <2> QED BY <2>1 DEF Valued
<1>2. ASSUME NEW k \in Nat, k \in G PROVE k + 1 \in G
  <2>1. PICK f : Valued(f, k)
    BY <1>2
  <2> DEFINE g == [t \in Seq(Token) |-> ValueBy(f, t)]
  <2>2. \A t \in Seq(Token) : g[t] = ValueBy(f, t)
    OBVIOUS
  <2> HIDE DEF g
  <2>3. \A t \in Seq(Token) : Len(t) < k => f[t] = g[t]
    BY <2>1, <2>2 DEF Valued
  <2>4. ASSUME NEW t \in Seq(Token), Len(t) < k + 1 PROVE g[t] = ValueBy(g, t)
    <3>1. \A u \in Seq(Token) : Len(u) < Len(t) => Len(u) < k
      BY <2>4
    <3>2. \A u \in Seq(Token) : Len(u) < Len(t) => f[u] = g[u]
      BY <2>3, <3>1
    <3>3. ValueBy(f, t) = ValueBy(g, t)
      BY <3>2, ValueIsLocal
    <3> QED BY <2>2, <3>3
  <2>5. Valued(g, k + 1)
    BY <2>4 DEF Valued
  <2> QED BY <2>5
<1> HIDE DEF G
<1>3. n \in G
  BY <1>1, <1>2, SetInduction
<1> QED BY <1>3 DEF G

LEMMA ValueIs == \A t \in Seq(Token) : Value[t] = ValueBy(Value, t)
<1> DEFINE at(n) == CHOOSE f : Valued(f, n + 1)
           F == [t \in Seq(Token) |-> at(Len(t))[t]]
<1>1. \A n \in Nat : Valued(at(n), n + 1)
  BY ValuedExists
<1>2. \A t \in Seq(Token) : F[t] = at(Len(t))[t]
  OBVIOUS
<1>3. F = [t \in Seq(Token) |-> F[t]]
  OBVIOUS
<1> HIDE DEF at, F
<1>4. ASSUME NEW t \in Seq(Token) PROVE F[t] = ValueBy(F, t)
  <2>1. Len(t) \in Nat /\ Len(t) < Len(t) + 1
    OBVIOUS
  <2>2. F[t] = ValueBy(at(Len(t)), t)
    BY <1>1, <1>2, <2>1 DEF Valued
  <2>3. ASSUME NEW u \in Seq(Token), Len(u) < Len(t) PROVE at(Len(t))[u] = F[u]
    <3>1. Len(u) \in Nat /\ Len(u) + 1 \in Nat /\ Len(u) < Len(u) + 1
      OBVIOUS
    <3>2. Valued(at(Len(u)), Len(u) + 1)
      BY <1>1, <3>1
    <3>3. Valued(at(Len(t)), Len(u) + 1)
      <4>1. Valued(at(Len(t)), Len(t) + 1)
        BY <1>1, <2>1
      <4>2. \A v \in Seq(Token) : Len(v) < Len(u) + 1 => Len(v) < Len(t) + 1
        BY <2>1, <2>3, <3>1
      <4> QED BY <4>1, <4>2 DEF Valued
    <3>4. at(Len(t))[u] = at(Len(u))[u]
      BY <3>1, <3>2, <3>3, ValuedAgree
    <3> QED BY <1>2, <3>4
  <2>4. ValueBy(at(Len(t)), t) = ValueBy(F, t)
    BY <2>3, ValueIsLocal
  <2> QED BY <2>2, <2>4
<1>5. F = [t \in Seq(Token) |-> ValueBy(F, t)]
  <2> DEFINE H == [t \in Seq(Token) |-> ValueBy(F, t)]
  <2>1. \A t \in Seq(Token) : F[t] = H[t]
    BY <1>4
  <2>2. H = [t \in Seq(Token) |-> H[t]]
    OBVIOUS
  <2> HIDE DEF H
  <2>3. F = H
    BY <1>3, <2>1, <2>2
  <2> QED BY <2>3 DEF H
<1>6. Value = CHOOSE f : f = [t \in Seq(Token) |-> ValueBy(f, t)]
  BY DEF Value, ValueBy
<1>7. Value = [t \in Seq(Token) |-> ValueBy(Value, t)]
  BY <1>5, <1>6
<1> QED BY <1>7

LEMMA LeastIs ==
  ASSUME NEW S, S \subseteq Nat, NEW n \in S, \A j \in S : ~(j < n)
  PROVE  Least(S) = n
<1>1. Least(S) \in S /\ \A j \in S : Least(S) <= j
  BY LeastIsIn
<1>2. Least(S) <= n /\ ~(Least(S) < n) /\ Least(S) \in Nat /\ n \in Nat
  BY <1>1
<1> QED BY <1>2

LEMMA JoinedTokens ==
  ASSUME NEW a \in Seq(Token), NEW b \in Seq(Token), NEW x \in Token
  PROVE  a \o <<x>> \o b \in Seq(Token)
BY ConcatProperties

LEMMA ValueOfOr ==
  ASSUME NEW a \in Seq(Token), NEW b \in Seq(Token), Balanced(a), Balanced(b), NoOr(a)
  PROVE  Value[a \o <<Tok("OR")>> \o b] = Max({Value[a], Value[b]})
<1> DEFINE x == Tok("OR")
           w == a \o <<x>> \o b
           n == Len(a) + 1
<1>1. x \in Token /\ x \in SqlWord /\ x.type = "OR"
  BY DEF Tok, Token, SqlWord
<1> HIDE DEF x
<1>2. w \in Seq(Token)
  BY <1>1, JoinedTokens
<1>p. Parts(w, n, a, x, b)
  BY <1>1, JoinedShape
<1> HIDE DEF w, n
<1>3. /\ Balanced(w) /\ n \in DOMAIN w /\ w[n] = x /\ Depth(w, n) = 0
      /\ SubSeq(w, 1, n - 1) = a /\ SubSeq(w, n + 1, Len(w)) = b
      /\ \A i \in DOMAIN w :
           i < n => i \in DOMAIN a /\ w[i] = a[i] /\ Depth(w, i) = Depth(a, i)
  BY <1>p DEF Parts
<1>4. TopLevel(w, "OR") \subseteq Nat /\ n \in TopLevel(w, "OR") /\ w # <<>>
  BY <1>1, <1>2, <1>3 DEF TopLevel
<1>5. \A i \in TopLevel(w, "OR") : ~(i < n)
  BY <1>3 DEF TopLevel, NoOr
<1>6. Least(TopLevel(w, "OR")) = n
  BY <1>4, <1>5, LeastIs
<1>7. ValueBy(Value, w) = Max({Value[SubSeq(w, 1, n - 1)], Value[SubSeq(w, n + 1, Len(w))]})
  BY <1>4, <1>6 DEF ValueBy
<1>8. Value[w] = Max({Value[a], Value[b]})
  BY <1>2, <1>3, <1>7, ValueIs
<1> QED BY <1>8 DEF w, x

LEMMA ValueOfAnd ==
  ASSUME NEW a \in Seq(Token), NEW b \in Seq(Token), Balanced(a), Balanced(b),
         NoOr(a), NoAnd(a), NoOr(b)
  PROVE  Value[a \o <<Tok("AND")>> \o b] = Min({Value[a], Value[b]})
<1> DEFINE x == Tok("AND")
           w == a \o <<x>> \o b
           n == Len(a) + 1
<1>1. x \in Token /\ x \in SqlWord /\ x.type = "AND"
  BY DEF Tok, Token, SqlWord
<1> HIDE DEF x
<1>2. w \in Seq(Token)
  BY <1>1, JoinedTokens
<1>p. Parts(w, n, a, x, b)
  BY <1>1, JoinedShape
<1> HIDE DEF w, n
<1>3. /\ Balanced(w) /\ n \in DOMAIN w /\ w[n] = x /\ Depth(w, n) = 0
      /\ SubSeq(w, 1, n - 1) = a /\ SubSeq(w, n + 1, Len(w)) = b
      /\ \A i \in DOMAIN w :
           /\ i < n => i \in DOMAIN a /\ w[i] = a[i] /\ Depth(w, i) = Depth(a, i)
           /\ n < i => i - n \in DOMAIN b /\ w[i] = b[i - n] /\ Depth(w, i) = Depth(b, i - n)
  BY <1>p DEF Parts
<1>4. TopLevel(w, "AND") \subseteq Nat /\ n \in TopLevel(w, "AND") /\ w # <<>> /\ n \in Nat
  BY <1>1, <1>2, <1>3 DEF TopLevel
<1>5. \A i \in TopLevel(w, "AND") : ~(i < n)
  BY <1>3 DEF TopLevel, NoAnd
<1>6. Least(TopLevel(w, "AND")) = n
  BY <1>4, <1>5, LeastIs
<1>7. TopLevel(w, "OR") = {}
  <2> SUFFICES ASSUME NEW i \in DOMAIN w, w[i].type = "OR", Depth(w, i) = 0 PROVE FALSE
    BY DEF TopLevel
  <2>1. i # n
    BY <1>1, <1>3
  <2>2. i < n \/ n < i
    BY <1>2, <1>4, <2>1
  <2> QED BY <1>3, <2>2 DEF TopLevel, NoOr
<1>8. ValueBy(Value, w) = Min({Value[SubSeq(w, 1, n - 1)], Value[SubSeq(w, n + 1, Len(w))]})
  BY <1>4, <1>6, <1>7 DEF ValueBy
<1>9. Value[w] = Min({Value[a], Value[b]})
  BY <1>2, <1>3, <1>8, ValueIs
<1> QED BY <1>9 DEF w, x

\* What an operator between two expressions leaves at the top level.
LEMMA JoinedLevel ==
  ASSUME NEW a, NEW b, Balanced(a), Balanced(b), NEW type \in {"OR", "AND"}
  PROVE  LET w == a \o <<Tok(type)>> \o b
         IN /\ Balanced(w)
            /\ type = "AND" /\ NoOr(a) /\ NoOr(b) => NoOr(w)
<1> DEFINE x == Tok(type)
           w == a \o <<x>> \o b
           n == Len(a) + 1
<1>1. x \in SqlWord /\ x.type = type
  BY DEF Tok, Token, SqlWord
<1> HIDE DEF x
<1>p. Parts(w, n, a, x, b)
  BY <1>1, JoinedShape
<1> HIDE DEF w, n
<1>2. /\ Balanced(w) /\ n \in DOMAIN w /\ w[n] = x
      /\ \A i \in DOMAIN w :
           /\ i < n => i \in DOMAIN a /\ w[i] = a[i] /\ Depth(w, i) = Depth(a, i)
           /\ n < i => i - n \in DOMAIN b /\ w[i] = b[i - n] /\ Depth(w, i) = Depth(b, i - n)
  BY <1>p DEF Parts
<1>3. ASSUME type = "AND", NoOr(a), NoOr(b) PROVE NoOr(w)
  <2> SUFFICES ASSUME NEW i \in DOMAIN w, w[i].type = "OR", Depth(w, i) = 0 PROVE FALSE
    BY DEF TopLevel, NoOr
  <2>1. i # n
    BY <1>1, <1>2, <1>3
  <2>2. w \in Seq(SqlWord)
    BY <1>2 DEF Balanced
  <2>3. i < n \/ n < i
    BY <1>2, <2>1, <2>2
  <2> QED BY <1>2, <1>3, <2>3 DEF TopLevel, NoOr
<1> QED BY <1>2, <1>3 DEF w, x

LEMMA ValueOfNot ==
  ASSUME NEW a \in Seq(Token), Balanced(a), NoOr(a), NoAnd(a)
  PROVE  Value[<<Tok("NOT")>> \o a] = 2 - Value[a]
<1> DEFINE x == Tok("NOT")
           w == <<x>> \o a
<1>1. x \in Token
  BY DEF Tok, Token
<1>2. Balanced(w) /\ w[1].type = "NOT" /\ Tail(w) = a /\ NoOr(w) /\ NoAnd(w)
  BY NotShape
<1> HIDE DEF x
<1>3. w \in Seq(Token)
  BY <1>1, ConcatProperties
<1> HIDE DEF w
<1>4. w # <<>> /\ TopLevel(w, "OR") = {} /\ TopLevel(w, "AND") = {}
  BY <1>2 DEF Balanced, NoOr, NoAnd
<1>5. ValueBy(Value, w) = 2 - Value[Tail(w)]
  BY <1>2, <1>4 DEF ValueBy
<1> QED BY <1>2, <1>3, <1>5, ValueIs DEF w, x

LEMMA ValueOfParen ==
  ASSUME NEW a \in Seq(Token), Balanced(a)
  PROVE  Paren(a) \in Seq(Token) /\ Value[Paren(a)] = Value[a]
<1> DEFINE w == Paren(a)
<1>1. /\ Balanced(w) /\ NoOr(w) /\ NoAnd(w)
      /\ w[1].type = "LP" /\ SubSeq(w, 2, Len(w) - 1) = a
  BY ParenShape
<1>2. w \in Seq(Token)
  BY ConcatProperties DEF Paren, Tok, Token
<1> HIDE DEF w
<1>3. w # <<>> /\ TopLevel(w, "OR") = {} /\ TopLevel(w, "AND") = {}
  BY <1>1 DEF Balanced, NoOr, NoAnd
<1>4. ValueBy(Value, w) = Value[SubSeq(w, 2, Len(w) - 1)]
  BY <1>1, <1>3 DEF ValueBy
<1> QED BY <1>1, <1>2, <1>4, ValueIs DEF w

LEMMA ValueOfNum ==
  ASSUME NEW v \in Int
  PROVE  Value[<<Num(v)>>] = v
<1> DEFINE x == Num(v)
<1>1. x \in Token /\ x \in SqlWord /\ x.type = "NUM" /\ x.value = v
  BY DEF Num, Token, SqlWord
<1> HIDE DEF x
<1>2. <<x>> \in Seq(Token) /\ <<x>>[1] = x /\ <<x>> # <<>>
  BY <1>1
<1>3. TopLevel(<<x>>, "OR") = {} /\ TopLevel(<<x>>, "AND") = {}
  BY <1>1, SingleShape DEF Shaping, NoOr, NoAnd
<1>4. ValueBy(Value, <<x>>) = v
  BY <1>1, <1>2, <1>3 DEF ValueBy
<1> QED BY <1>2, <1>4, ValueIs DEF x

LEMMA ValueOfNone == Value[<<>>] = 2
<1>1. TopLevel(<<>>, "OR") = {} /\ TopLevel(<<>>, "AND") = {}
  BY DEF TopLevel
<1>2. ValueBy(Value, <<>>) = 2
  BY <1>1 DEF ValueBy
<1>3. <<>> \in Seq(Token)
  OBVIOUS
<1> QED BY <1>2, <1>3, ValueIs

-----------------------------------------------------------------------------
(* Recursion over the numbers up to N: from a, the n-th step is G.          *)

Steps(N, X) == [(1..N) \X X -> X]
Iterates(f, N, X, a, G) ==
  f \in [0..N -> X] /\ f[0] = a /\ \A n \in 1..N : f[n] = G[<<n, f[n - 1]>>]
Typed(f, N, X) == \A n \in 0..N : f[n] \in X

LEMMA IterationExists ==
  ASSUME NEW N \in Nat, NEW X, NEW a \in X, NEW G \in Steps(N, X)
  PROVE  \E f : Iterates(f, N, X, a, G)
<1>0. G \in [(1..N) \X X -> X]
  BY DEF Steps
<1> DEFINE S == {k \in Nat : k <= N =>
                   \E f \in [0..N -> X] : f[0] = a /\ \A n \in 1..k : f[n] = G[<<n, f[n - 1]>>]}
<1>1. 0 \in S
  <2> DEFINE f == [n \in 0..N |-> a]
  <2>1. f \in [0..N -> X] /\ f[0] = a /\ \A n \in 1..0 : FALSE
    OBVIOUS
  <2> QED BY <2>1
<1>2. ASSUME NEW k \in Nat, k \in S PROVE k + 1 \in S
  <2> SUFFICES ASSUME k + 1 <= N
               PROVE  \E f \in [0..N -> X] :
                        f[0] = a /\ \A n \in 1..k+1 : f[n] = G[<<n, f[n - 1]>>]
    OBVIOUS
  <2>1. PICK f \in [0..N -> X] : f[0] = a /\ \A n \in 1..k : f[n] = G[<<n, f[n - 1]>>]
    BY <1>2
  <2> DEFINE g == [n \in 0..N |-> IF n = k + 1 THEN G[<<k + 1, f[k]>>] ELSE f[n]]
  <2>2. k \in 0..N /\ k + 1 \in 1..N /\ f[k] \in X
    OBVIOUS
  <2>3. g \in [0..N -> X]
    BY <1>0, <2>2
  <2>4. g[0] = a
    BY <2>1
  <2>5. ASSUME NEW n \in 1..k+1 PROVE g[n] = G[<<n, g[n - 1]>>]
    <3>1. n - 1 \in 0..N /\ n - 1 # k + 1 /\ n \in 0..N /\ g[n - 1] = f[n - 1]
      BY <2>2
    <3>2. CASE n = k + 1
      <4>1. g[n] = G[<<k + 1, f[k]>>] /\ n - 1 = k
        BY <3>1, <3>2
      <4> HIDE DEF g
      <4> QED BY <3>1, <3>2, <4>1
    <3>3. CASE n # k + 1
      <4>1. n \in 1..k /\ g[n] = f[n]
        BY <3>1, <3>3
      <4> HIDE DEF g
      <4> QED BY <2>1, <3>1, <4>1
    <3> QED BY <3>2, <3>3
  <2> HIDE DEF g
  <2> QED BY <2>3, <2>4, <2>5
<1> HIDE DEF S
<1>3. N \in S
  BY <1>1, <1>2, SetInduction
<1> QED BY <1>3 DEF S, Iterates

LEMMA IterationType ==
  ASSUME NEW N \in Nat, NEW X, NEW f, f[0] \in X,
         \A n \in 1..N : f[n - 1] \in X => f[n] \in X
  PROVE  Typed(f, N, X)
<1> DEFINE S == {k \in Nat : k <= N => f[k] \in X}
<1>1. 0 \in S
  OBVIOUS
<1>2. ASSUME NEW k \in Nat, k \in S PROVE k + 1 \in S
  <2> SUFFICES ASSUME k + 1 <= N PROVE f[k + 1] \in X
    OBVIOUS
  <2>1. k + 1 \in 1..N /\ (k + 1) - 1 = k /\ f[k] \in X
    BY <1>2
  <2> QED BY <2>1
<1> HIDE DEF S
<1>3. Nat \subseteq S
  BY <1>1, <1>2, SetInduction
<1> QED BY <1>3 DEF S, Typed

-----------------------------------------------------------------------------
(* One condition.                                                           *)

Clauses == {Rejected, Skipped} \cup {Clause(o) : o \in Seq(Seq(Int))}

LEMMA FilledType == ASSUME NEW values \in Seq(Int) PROVE Filled(values) \in Seq(Int)
<1> DEFINE N == Len(values)
           Body(n, x) == IF values[n] = Unset THEN x ELSE Append(x, values[n])
           G == [p \in (1..N) \X Seq(Int) |-> Body(p[1], p[2])]
           upTo == CHOOSE f : f = [n \in 0..N |-> IF n = 0 THEN <<>> ELSE Body(n, f[n - 1])]
<1>1. N \in Nat /\ \A n \in 1..N : values[n] \in Int
  OBVIOUS
<1>2. Filled(values) = upTo[N]
  BY DEF Filled, N, Body, upTo
<1>3. \A n \in 1..N, x \in Seq(Int) : Body(n, x) \in Seq(Int)
  <2>1. ASSUME NEW x \in Seq(Int), NEW v \in Int PROVE Append(x, v) \in Seq(Int)
    OBVIOUS
  <2> HIDE DEF N
  <2> QED BY <1>1, <2>1
<1> HIDE DEF Body, N
<1>4. G \in Steps(N, Seq(Int)) /\ \A n \in 1..N, x \in Seq(Int) : G[<<n, x>>] = Body(n, x)
  BY <1>3 DEF Steps
<1> HIDE DEF G
<1>e. <<>> \in Seq(Int)
  OBVIOUS
<1>5. \E f : f = [n \in 0..N |-> IF n = 0 THEN <<>> ELSE Body(n, f[n - 1])]
  <2>2. PICK f : Iterates(f, N, Seq(Int), <<>>, G)
    BY <1>1, <1>4, <1>e, IterationExists
  <2>3. ASSUME NEW n \in 0..N PROVE f[n] = IF n = 0 THEN <<>> ELSE Body(n, f[n - 1])
    <3>1. CASE n = 0
      BY <2>2, <3>1 DEF Iterates
    <3>2. CASE n # 0
      <4>1. n \in 1..N /\ n - 1 \in 0..N
        BY <1>1, <3>2
      <4>2. f[n - 1] \in Seq(Int) /\ f[n] = G[<<n, f[n - 1]>>]
        BY <2>2, <4>1 DEF Iterates
      <4> QED BY <1>4, <3>2, <4>1, <4>2
    <3> QED BY <3>1, <3>2
  <2>4. f = [n \in 0..N |-> f[n]]
    BY <2>2 DEF Iterates
  <2>5. f = [n \in 0..N |-> IF n = 0 THEN <<>> ELSE Body(n, f[n - 1])]
    BY <2>3, <2>4
  <2> QED BY <2>5
<1>6. upTo = [n \in 0..N |-> IF n = 0 THEN <<>> ELSE Body(n, upTo[n - 1])]
  BY <1>5
<1> HIDE DEF upTo
<1>7. upTo[0] = <<>> /\ \A n \in 1..N : upTo[n] = Body(n, upTo[n - 1])
  BY <1>1, <1>6
<1>8. Typed(upTo, N, Seq(Int))
  <2>1. \A n \in 1..N : upTo[n - 1] \in Seq(Int) => upTo[n] \in Seq(Int)
    BY <1>3, <1>7
  <2> QED BY <1>1, <1>7, <1>e, <2>1, IterationType
<1> QED BY <1>1, <1>2, <1>8 DEF Typed

LEMMA ClauseType == ASSUME NEW c \in Condition PROVE buildClause(c) \in Clauses
<1>1. Filled(c.values) \in Seq(Int) /\ c.value \in Int /\ c.value2 \in Int
  BY FilledType DEF Condition
<1>2. /\ <<>> \in Seq(Seq(Int)) /\ << <<c.value>> >> \in Seq(Seq(Int))
      /\ << <<c.value>>, <<c.value2>> >> \in Seq(Seq(Int))
      /\ << Filled(c.values) >> \in Seq(Seq(Int))
  BY <1>1
<1> QED BY <1>2 DEF buildClause, Clauses

-----------------------------------------------------------------------------
(* The parser: a rule asks only for rules of what is left to read, or for   *)
(* lower rules of the same.                                                 *)

ParseBy(f, rule, s) ==
  IF s.bad THEN s
  ELSE CASE rule = "expr" -> f[<<"ors", f[<<"term", s>>]>>]
         [] rule = "ors" ->
              IF ~At(s, "OR") THEN s
              ELSE f[<<"ors", Joined(s, "OR", f[<<"term", Eat(s)>>])>>]
         [] rule = "term" -> f[<<"ands", f[<<"factor", s>>]>>]
         [] rule = "ands" ->
              IF ~At(s, "AND") THEN s
              ELSE f[<<"ands", Joined(s, "AND", f[<<"factor", Eat(s)>>])>>]
         [] rule = "factor" ->
              CASE At(s, "NOT") -> Negated(f[<<"factor", Eat(s)>>])
                [] At(s, "LP") -> Closed(f[<<"expr", Eat(s)>>])
                [] At(s, "NUM") -> Numbered(s)
                [] OTHER -> Fail(s)

Size(rule, s) == 3 * Len(s.rest) + (IF rule = "expr" THEN 2 ELSE IF rule = "term" THEN 1 ELSE 0)

\* What a state is parsed to leaves no more to read.
Within(p, s) == p \in ParserState /\ Len(p.rest) <= Len(s.rest)
Tame(f, n) ==
  \A rule \in Rules, s \in ParserState : Size(rule, s) < n => Within(f[<<rule, s>>], s)

LEMMA EatType ==
  ASSUME NEW s \in ParserState, s.rest # <<>>
  PROVE  /\ Eat(s) \in ParserState /\ Len(Eat(s).rest) < Len(s.rest)
         /\ Eat(s).conds = s.conds /\ Eat(s).offset = s.offset /\ Eat(s).params = s.params
         /\ Eat(s).bad = s.bad /\ Eat(s).sql = s.sql
         /\ s.rest = <<Head(s.rest)>> \o Eat(s).rest /\ Head(s.rest) \in Token
<1>1. Tail(s.rest) \in Seq(Token) /\ Len(Tail(s.rest)) < Len(s.rest)
      /\ s.rest = <<Head(s.rest)>> \o Tail(s.rest) /\ Head(s.rest) \in Token
  BY DEF ParserState
<1> DEFINE t == Tail(s.rest)
<1> HIDE DEF t
<1>2. [s EXCEPT !.rest = t] \in ParserState
  BY <1>1 DEF ParserState, t
<1> QED BY <1>1, <1>2 DEF Eat, t, ParserState

LEMMA FailType ==
  ASSUME NEW s \in ParserState
  PROVE  Fail(s) \in ParserState /\ Fail(s).bad /\ Fail(s).rest = s.rest
BY DEF Fail, ParserState

LEMMA WithSql ==
  ASSUME NEW s \in ParserState, NEW w \in Seq(SqlWord)
  PROVE  LET p == [s EXCEPT !.sql = w]
         IN /\ p \in ParserState /\ p.rest = s.rest /\ p.sql = w /\ p.bad = s.bad
            /\ p.conds = s.conds /\ p.offset = s.offset /\ p.params = s.params
BY DEF ParserState

LEMMA ParenType ==
  ASSUME NEW w \in Seq(SqlWord)
  PROVE  Paren(w) \in Seq(SqlWord)
<1>1. Tok("LP") \in SqlWord /\ Tok("RP") \in SqlWord
  BY DEF Tok, SqlWord, Token
<1> QED BY <1>1 DEF Paren

LEMMA JoinedType ==
  ASSUME NEW s \in ParserState, NEW t \in ParserState, NEW type \in {"OR", "AND"}
  PROVE  /\ Joined(s, type, t) \in ParserState
         /\ Joined(s, type, t) = [t EXCEPT !.sql = Paren(s.sql \o <<Tok(type)>> \o t.sql)]
         /\ s.sql \o <<Tok(type)>> \o t.sql \in Seq(SqlWord)
<1>1. Tok(type) \in SqlWord
  BY DEF Tok, SqlWord, Token
<1>2. s.sql \in Seq(SqlWord) /\ t.sql \in Seq(SqlWord)
  BY DEF ParserState
<1>3. s.sql \o <<Tok(type)>> \o t.sql \in Seq(SqlWord)
  BY <1>1, <1>2, ConcatProperties
<1>4. Paren(s.sql \o <<Tok(type)>> \o t.sql) \in Seq(SqlWord)
  BY <1>3, ParenType
<1> QED BY <1>3, <1>4, WithSql DEF Joined

LEMMA NegatedType ==
  ASSUME NEW f \in ParserState
  PROVE  Negated(f) \in ParserState /\ Negated(f).rest = f.rest
<1>1. Tok("NOT") \in SqlWord
  BY DEF Tok, SqlWord, Token
<1>2. <<Tok("NOT")>> \o f.sql \in Seq(SqlWord)
  BY <1>1 DEF ParserState
<1> QED BY <1>2, WithSql DEF Negated

LEMMA ClosedType ==
  ASSUME NEW e \in ParserState
  PROVE  Within(Closed(e), e)
<1>1. CASE e.bad \/ ~At(e, "RP")
  BY <1>1, FailType DEF Closed, Within, ParserState
<1>2. CASE ~e.bad /\ At(e, "RP")
  <2>1. Eat(e) \in ParserState /\ Len(Eat(e).rest) < Len(e.rest) /\ Eat(e).sql = e.sql
    BY <1>2, EatType DEF At
  <2>2. Paren(e.sql) \in Seq(SqlWord)
    BY ParenType DEF ParserState
  <2>3. Closed(e) = [Eat(e) EXCEPT !.sql = Paren(e.sql)]
    BY <1>2, <2>1 DEF Closed
  <2>4. Len(e.rest) \in Nat /\ Len(Eat(e).rest) \in Nat
    BY <2>1 DEF ParserState
  <2> QED BY <2>1, <2>2, <2>3, <2>4, WithSql DEF Within
<1> QED BY <1>1, <1>2

LEMMA BindType ==
  ASSUME NEW s \in ParserState, NEW c \in Condition
  PROVE  Bind(s, c) \in ParserState /\ Bind(s, c).rest = s.rest
<1> DEFINE cl == buildClause(c)
<1>1. cl \in Clauses
  BY ClauseType
<1>0. Rejected # Skipped
  BY DEF Rejected, Skipped
<1>2. CASE cl = Rejected
  <2>1. Bind(s, c) = Fail(s)
    BY <1>0, <1>2 DEF Bind, Bound
  <2> QED BY <2>1, FailType
<1>3. CASE cl = Skipped /\ cl # Rejected
  <2>1. <<Tok("TRUE")>> \in Seq(SqlWord)
    BY DEF Tok, SqlWord, Token
  <2> QED BY <1>3, <2>1, WithSql DEF Bind, Bound
<1>4. CASE cl \notin {Rejected, Skipped}
  <2>1. PICK o \in Seq(Seq(Int)) : cl = Clause(o)
    BY <1>1, <1>4 DEF Clauses
  <2>2. cl.operands = o
    BY <2>1 DEF Clause
  <2> DEFINE ps == [i \in DOMAIN o |-> s.offset + Len(s.params) + i]
             x == Test(c.field, c.operator, ps)
  <2>3. ps \in Seq(Nat)
    <3>1. s.offset \in Nat /\ Len(s.params) \in Nat /\ DOMAIN o = 1..Len(o) /\ Len(o) \in Nat
      BY DEF ParserState
    <3>2. ps \in [1..Len(o) -> Nat]
      BY <3>1
    <3> QED BY <3>1, <3>2
  <2> HIDE DEF ps
  <2>4. <<x>> \in Seq(SqlWord)
    BY <2>3 DEF Test, SqlWord, Condition
  <2>5. s.params \o o \in Seq(Seq(Int))
    BY DEF ParserState
  <2>6. Bind(s, c) = [s EXCEPT !.params = s.params \o o, !.sql = <<x>>]
    BY <1>4, <2>2 DEF Bind, Bound, ps
  <2> HIDE DEF x
  <2> QED BY <2>4, <2>5, <2>6 DEF ParserState
<1> QED BY <1>2, <1>3, <1>4

LEMMA NumberedType ==
  ASSUME NEW s \in ParserState, At(s, "NUM")
  PROVE  Within(Numbered(s), s)
<1>1. Len(s.rest) \in Nat
  BY DEF ParserState
<1>2. Eat(s) \in ParserState /\ Len(Eat(s).rest) < Len(s.rest) /\ Head(s.rest) \in Token
  BY EatType DEF At
<1> DEFINE n == Head(s.rest).value
<1>3. n \in Int
  BY <1>2 DEF At, Token
<1>4. CASE n < 1 \/ n > Len(s.conds)
  BY <1>1, <1>4, FailType DEF Numbered, Within
<1>5. CASE ~(n < 1 \/ n > Len(s.conds))
  <2>1. s.conds[n] \in Condition
    BY <1>3, <1>5 DEF ParserState
  <2>2. Numbered(s) = Bind(Eat(s), s.conds[n])
    BY <1>5 DEF Numbered
  <2>3. Len(Eat(s).rest) \in Nat
    BY <1>2 DEF ParserState
  <2> QED BY <1>1, <1>2, <2>1, <2>2, <2>3, BindType DEF Within
<1> QED BY <1>4, <1>5

LEMMA SizeIs ==
  ASSUME NEW s \in ParserState, NEW rule \in Rules
  PROVE  /\ Size(rule, s) \in Nat /\ Len(s.rest) \in Nat
         /\ Size(rule, s) >= 3 * Len(s.rest) /\ Size(rule, s) <= 3 * Len(s.rest) + 2
         /\ rule = "expr" => Size(rule, s) = 3 * Len(s.rest) + 2
         /\ rule = "term" => Size(rule, s) = 3 * Len(s.rest) + 1
         /\ rule \in {"factor", "ands", "ors"} => Size(rule, s) = 3 * Len(s.rest)
<1> DEFINE k == Len(s.rest)
<1>1. k \in Nat
  BY DEF ParserState
<1> HIDE DEF k
<1>2. Size(rule, s) = 3 * k + (IF rule = "expr" THEN 2 ELSE IF rule = "term" THEN 1 ELSE 0)
  BY DEF Size, k
<1>3. CASE rule = "expr"
  <2>1. Size(rule, s) = 3 * k + 2
    BY <1>2, <1>3
  <2> QED BY <1>1, <1>3, <2>1 DEF k
<1>4. CASE rule = "term"
  <2>1. Size(rule, s) = 3 * k + 1
    BY <1>2, <1>4
  <2> QED BY <1>1, <1>4, <2>1 DEF k
<1>5. CASE rule \notin {"expr", "term"}
  <2>1. Size(rule, s) = 3 * k + 0
    BY <1>2, <1>5
  <2> QED BY <1>1, <1>5, <2>1 DEF k
<1> QED BY <1>3, <1>4, <1>5

LEMMA RestLength == ASSUME NEW s \in ParserState PROVE Len(s.rest) \in Nat
BY DEF ParserState

LEMMA WithinOf ==
  ASSUME NEW s \in ParserState, NEW t \in ParserState, Len(t.rest) <= Len(s.rest),
         NEW p, Within(p, t)
  PROVE  Within(p, s)
<1>1. p \in ParserState /\ Len(p.rest) <= Len(t.rest)
  BY DEF Within
<1>2. Len(s.rest) \in Nat /\ Len(t.rest) \in Nat /\ Len(p.rest) \in Nat
  BY <1>1, RestLength
<1> QED BY <1>1, <1>2 DEF Within

\* What is asked of f in a rule, and what f answers.
LEMMA Asked ==
  ASSUME NEW n \in Nat, NEW f, Tame(f, n), NEW s \in ParserState, NEW u \in ParserState,
         NEW rule \in Rules, NEW other \in Rules, ~(Size(rule, s) > n),
         \/ Len(u.rest) < Len(s.rest)
         \/ Len(u.rest) <= Len(s.rest) /\ Size(other, s) < Size(rule, s)
  PROVE  Size(other, u) < Size(rule, s) /\ Size(other, u) < n /\ Within(f[<<other, u>>], u)
<1>1. /\ Size(rule, s) >= 3 * Len(s.rest) /\ Size(other, u) <= 3 * Len(u.rest) + 2
      /\ Len(s.rest) \in Nat /\ Len(u.rest) \in Nat
      /\ Size(rule, s) \in Nat /\ Size(other, u) \in Nat /\ Size(other, s) \in Nat
  BY SizeIs
<1>2. Len(u.rest) <= Len(s.rest) => Size(other, u) <= Size(other, s)
  BY <1>1 DEF Size
<1>3. Size(other, u) < Size(rule, s)
  BY <1>1, <1>2
<1>4. Size(other, u) < n
  BY <1>1, <1>3
<1> QED BY <1>3, <1>4 DEF Tame

\* One more rule on top of f: it is tame as well, and f matters below it only.
LEMMA ParseStep ==
  ASSUME NEW n \in Nat, NEW f, NEW g, Tame(f, n),
         \A rule \in Rules, s \in ParserState : Size(rule, s) < n => f[<<rule, s>>] = g[<<rule, s>>],
         NEW rule \in Rules, NEW s \in ParserState, ~(Size(rule, s) > n)
  PROVE  Within(ParseBy(f, rule, s), s) /\ ParseBy(f, rule, s) = ParseBy(g, rule, s)
<1>0. Len(s.rest) \in Nat
  BY DEF ParserState
<1>1. CASE s.bad
  BY <1>0, <1>1 DEF ParseBy, Within
<1>2. CASE ~s.bad /\ rule = "expr"
  <2> DEFINE t == f[<<"term", s>>]
             p == f[<<"ors", t>>]
  <2>1. Size("term", s) < Size(rule, s) /\ Len(s.rest) <= Len(s.rest) /\ "term" \in Rules /\ "ors" \in Rules
    BY <1>0, <1>2, SizeIs DEF Rules
  <2>2. Within(t, s) /\ Size("term", s) < n
    BY <2>1, Asked
  <2>3. t = g[<<"term", s>>]
    BY <2>1, <2>2
  <2>4. Size("ors", s) < Size(rule, s)
    BY <1>0, <1>2, <2>1, SizeIs
  <2> HIDE DEF t
  <2>5. Within(p, t) /\ Size("ors", t) < n /\ t \in ParserState
    BY <2>1, <2>2, <2>4, Asked DEF Within
  <2>6. p = g[<<"ors", t>>]
    BY <2>1, <2>5
  <2>7. ParseBy(f, rule, s) = p /\ ParseBy(g, rule, s) = g[<<"ors", g[<<"term", s>>]>>]
    BY <1>2 DEF ParseBy, t
  <2> HIDE DEF p
  <2>8. Within(p, s)
    BY <2>2, <2>5, WithinOf DEF Within
  <2> QED BY <2>3, <2>6, <2>7, <2>8 DEF p
<1>3. CASE ~s.bad /\ rule = "term"
  <2> DEFINE t == f[<<"factor", s>>]
             p == f[<<"ands", t>>]
  <2>1. Size("factor", s) < Size(rule, s) /\ Len(s.rest) <= Len(s.rest) /\ "factor" \in Rules /\ "ands" \in Rules
    BY <1>0, <1>3, SizeIs DEF Rules
  <2>2. Within(t, s) /\ Size("factor", s) < n
    BY <2>1, Asked
  <2>3. t = g[<<"factor", s>>]
    BY <2>1, <2>2
  <2>4. Size("ands", s) < Size(rule, s)
    BY <1>0, <1>3, <2>1, SizeIs
  <2> HIDE DEF t
  <2>5. Within(p, t) /\ Size("ands", t) < n /\ t \in ParserState
    BY <2>1, <2>2, <2>4, Asked DEF Within
  <2>6. p = g[<<"ands", t>>]
    BY <2>1, <2>5
  <2>7. ParseBy(f, rule, s) = p /\ ParseBy(g, rule, s) = g[<<"ands", g[<<"factor", s>>]>>]
    BY <1>3 DEF ParseBy, t
  <2> HIDE DEF p
  <2>8. Within(p, s)
    BY <2>2, <2>5, WithinOf DEF Within
  <2> QED BY <2>3, <2>6, <2>7, <2>8 DEF p
<1>4. CASE ~s.bad /\ rule = "ors" /\ At(s, "OR")
  <2> DEFINE u == Eat(s)
             t == f[<<"term", u>>]
             j == Joined(s, "OR", t)
             p == f[<<"ors", j>>]
  <2>1. u \in ParserState /\ Len(u.rest) < Len(s.rest) /\ "term" \in Rules /\ "ors" \in Rules
    BY <1>4, EatType DEF At, Rules
  <2> HIDE DEF u
  <2>2. Within(t, u) /\ Size("term", u) < n
    BY <2>1, Asked
  <2>3. t = g[<<"term", u>>]
    BY <2>1, <2>2
  <2> HIDE DEF t
  <2>4. j \in ParserState /\ j.rest = t.rest
    <3>1. t \in ParserState /\ j = [t EXCEPT !.sql = Paren(s.sql \o <<Tok("OR")>> \o t.sql)] /\ j \in ParserState
      BY <2>2, JoinedType DEF Within
    <3> QED BY <3>1 DEF ParserState
  <2>5. Len(j.rest) < Len(s.rest)
    <3>1. t \in ParserState /\ Len(t.rest) <= Len(u.rest)
      BY <2>2 DEF Within
    <3>2. Len(u.rest) \in Nat /\ Len(t.rest) \in Nat
      BY <2>1, <3>1, RestLength
    <3> QED BY <1>0, <2>1, <2>4, <3>1, <3>2
  <2> HIDE DEF j
  <2>6. Within(p, j) /\ Size("ors", j) < n
    BY <2>1, <2>4, <2>5, Asked
  <2>7. p = g[<<"ors", j>>]
    BY <2>1, <2>4, <2>6
  <2>8. ParseBy(f, rule, s) = p
        /\ ParseBy(g, rule, s) = g[<<"ors", Joined(s, "OR", g[<<"term", Eat(s)>>])>>]
    BY <1>4 DEF ParseBy, j, t, u
  <2> HIDE DEF p
  <2>9. Within(p, s)
    <3>1. Len(j.rest) <= Len(s.rest)
      BY <1>0, <2>4, <2>5, RestLength
    <3> QED BY <2>4, <2>6, <3>1, WithinOf
  <2> QED BY <2>3, <2>7, <2>8, <2>9 DEF j, u, p
<1>5. CASE ~s.bad /\ rule = "ands" /\ At(s, "AND")
  <2> DEFINE u == Eat(s)
             t == f[<<"factor", u>>]
             j == Joined(s, "AND", t)
             p == f[<<"ands", j>>]
  <2>1. u \in ParserState /\ Len(u.rest) < Len(s.rest) /\ "factor" \in Rules /\ "ands" \in Rules
    BY <1>5, EatType DEF At, Rules
  <2> HIDE DEF u
  <2>2. Within(t, u) /\ Size("factor", u) < n
    BY <2>1, Asked
  <2>3. t = g[<<"factor", u>>]
    BY <2>1, <2>2
  <2> HIDE DEF t
  <2>4. j \in ParserState /\ j.rest = t.rest
    <3>1. t \in ParserState /\ j = [t EXCEPT !.sql = Paren(s.sql \o <<Tok("AND")>> \o t.sql)] /\ j \in ParserState
      BY <2>2, JoinedType DEF Within
    <3> QED BY <3>1 DEF ParserState
  <2>5. Len(j.rest) < Len(s.rest)
    <3>1. t \in ParserState /\ Len(t.rest) <= Len(u.rest)
      BY <2>2 DEF Within
    <3>2. Len(u.rest) \in Nat /\ Len(t.rest) \in Nat
      BY <2>1, <3>1, RestLength
    <3> QED BY <1>0, <2>1, <2>4, <3>1, <3>2
  <2> HIDE DEF j
  <2>6. Within(p, j) /\ Size("ands", j) < n
    BY <2>1, <2>4, <2>5, Asked
  <2>7. p = g[<<"ands", j>>]
    BY <2>1, <2>4, <2>6
  <2>8. ParseBy(f, rule, s) = p
        /\ ParseBy(g, rule, s) = g[<<"ands", Joined(s, "AND", g[<<"factor", Eat(s)>>])>>]
    BY <1>5 DEF ParseBy, j, t, u
  <2> HIDE DEF p
  <2>9. Within(p, s)
    <3>1. Len(j.rest) <= Len(s.rest)
      BY <1>0, <2>4, <2>5, RestLength
    <3> QED BY <2>4, <2>6, <3>1, WithinOf
  <2> QED BY <2>3, <2>7, <2>8, <2>9 DEF j, u, p
<1>6. CASE \/ ~s.bad /\ rule = "ors" /\ ~At(s, "OR")
           \/ ~s.bad /\ rule = "ands" /\ ~At(s, "AND")
  BY <1>0, <1>6 DEF ParseBy, Within
<1>7. CASE ~s.bad /\ rule = "factor" /\ At(s, "NOT")
  <2> DEFINE u == Eat(s)
             t == f[<<"factor", u>>]
  <2>1. u \in ParserState /\ Len(u.rest) < Len(s.rest) /\ "factor" \in Rules
    BY <1>7, EatType DEF At, Rules
  <2> HIDE DEF u
  <2>2. Within(t, u) /\ Size("factor", u) < n
    BY <2>1, Asked
  <2>3. t = g[<<"factor", u>>]
    BY <2>1, <2>2
  <2> HIDE DEF t
  <2>4. Negated(t) \in ParserState /\ Negated(t).rest = t.rest
    BY <2>2, NegatedType DEF Within
  <2>5. ParseBy(f, rule, s) = Negated(t) /\ ParseBy(g, rule, s) = Negated(g[<<"factor", Eat(s)>>])
    <3>1. ~At(s, "LP") /\ ~At(s, "NUM")
      BY <1>7 DEF At
    <3> QED BY <1>7, <3>1 DEF ParseBy, t, u
  <2> DEFINE p == Negated(t)
  <2> HIDE DEF p
  <2>6. Within(p, s)
    <3>1. t \in ParserState /\ Len(t.rest) <= Len(u.rest) /\ p \in ParserState /\ p.rest = t.rest
      BY <2>2, <2>4 DEF Within, p
    <3>2. Len(u.rest) \in Nat /\ Len(t.rest) \in Nat
      BY <2>1, <3>1, RestLength
    <3> QED BY <1>0, <2>1, <3>1, <3>2 DEF Within
  <2> QED BY <2>3, <2>5, <2>6 DEF u, p
<1>8. CASE ~s.bad /\ rule = "factor" /\ At(s, "LP")
  <2> DEFINE u == Eat(s)
             t == f[<<"expr", u>>]
  <2>1. u \in ParserState /\ Len(u.rest) < Len(s.rest) /\ "expr" \in Rules
    BY <1>8, EatType DEF At, Rules
  <2> HIDE DEF u
  <2>2. Within(t, u) /\ Size("expr", u) < n
    BY <2>1, Asked
  <2>3. t = g[<<"expr", u>>]
    BY <2>1, <2>2
  <2> HIDE DEF t
  <2>4. Within(Closed(t), t)
    BY <2>2, ClosedType DEF Within
  <2>5. ParseBy(f, rule, s) = Closed(t) /\ ParseBy(g, rule, s) = Closed(g[<<"expr", Eat(s)>>])
    <3>1. ~At(s, "NOT") /\ ~At(s, "NUM")
      BY <1>8 DEF At
    <3> QED BY <1>8, <3>1 DEF ParseBy, t, u
  <2> DEFINE p == Closed(t)
  <2> HIDE DEF p
  <2>6. Within(p, s)
    <3>1. t \in ParserState /\ Len(t.rest) <= Len(u.rest) /\ Within(p, t)
      BY <2>2, <2>4 DEF Within, p
    <3>2. Len(u.rest) \in Nat /\ Len(t.rest) \in Nat
      BY <2>1, <3>1, RestLength
    <3>3. Len(t.rest) <= Len(s.rest)
      BY <1>0, <2>1, <3>1, <3>2
    <3> QED BY <3>1, <3>3, WithinOf
  <2> QED BY <2>3, <2>5, <2>6 DEF u, p
<1>9. CASE ~s.bad /\ rule = "factor" /\ At(s, "NUM")
  <2>1. ~At(s, "NOT") /\ ~At(s, "LP")
    BY <1>9 DEF At
  <2> QED BY <1>9, <2>1, NumberedType DEF ParseBy
<1>10. CASE ~s.bad /\ rule = "factor" /\ ~(At(s, "NOT") \/ At(s, "LP") \/ At(s, "NUM"))
  BY <1>0, <1>10, FailType DEF ParseBy, Within
<1> QED BY <1>1, <1>2, <1>3, <1>4, <1>5, <1>6, <1>7, <1>8, <1>9, <1>10 DEF Rules

-----------------------------------------------------------------------------
(* Parsing has one answer: the recursion is well founded.                   *)

Fits(f, n) ==
  \A rule \in Rules, s \in ParserState : Size(rule, s) < n => f[<<rule, s>>] = ParseBy(f, rule, s)

LEMMA FitsTame ==
  ASSUME NEW n \in Nat, NEW f, Fits(f, n)
  PROVE  Tame(f, n)
<1> DEFINE G == {k \in Nat : k <= n => Tame(f, k)}
<1>1. 0 \in G
  <2>1. \A rule \in Rules, s \in ParserState : ~(Size(rule, s) < 0)
    BY SizeIs
  <2> QED BY <2>1 DEF Tame
<1>2. ASSUME NEW k \in Nat, k \in G PROVE k + 1 \in G
  <2> SUFFICES ASSUME k + 1 <= n, NEW rule \in Rules, NEW s \in ParserState, Size(rule, s) < k + 1
               PROVE  Within(f[<<rule, s>>], s)
    BY DEF Tame
  <2>1. Size(rule, s) \in Nat
    BY SizeIs
  <2>2. Tame(f, k) /\ ~(Size(rule, s) > k) /\ Size(rule, s) < n
    BY <1>2, <2>1
  <2>3. Within(ParseBy(f, rule, s), s)
    BY <2>2, ParseStep
  <2> QED BY <2>2, <2>3 DEF Fits
<1> HIDE DEF G
<1>3. n \in G
  BY <1>1, <1>2, SetInduction
<1> QED BY <1>3 DEF G

LEMMA FitsAgree ==
  ASSUME NEW n \in Nat, NEW f, NEW g, Fits(f, n), Fits(g, n)
  PROVE  \A rule \in Rules, s \in ParserState : Size(rule, s) < n => f[<<rule, s>>] = g[<<rule, s>>]
<1> DEFINE G == {k \in Nat : k <= n =>
      \A rule \in Rules, s \in ParserState : Size(rule, s) < k => f[<<rule, s>>] = g[<<rule, s>>]}
<1>1. 0 \in G
  <2>1. \A rule \in Rules, s \in ParserState : ~(Size(rule, s) < 0)
    BY SizeIs
  <2> QED BY <2>1
<1>2. ASSUME NEW k \in Nat, k \in G PROVE k + 1 \in G
  <2> SUFFICES ASSUME k + 1 <= n, NEW rule \in Rules, NEW s \in ParserState, Size(rule, s) < k + 1
               PROVE  f[<<rule, s>>] = g[<<rule, s>>]
    OBVIOUS
  <2>1. Size(rule, s) \in Nat
    BY SizeIs
  <2>2. ~(Size(rule, s) > k) /\ Size(rule, s) < n
    BY <2>1
  <2>3. \A r \in Rules, u \in ParserState : Size(r, u) < k => f[<<r, u>>] = g[<<r, u>>]
    BY <1>2
  <2>4. Tame(f, k)
    <3>1. Tame(f, n)
      BY FitsTame
    <3>2. \A r \in Rules, u \in ParserState : Size(r, u) < k => Size(r, u) < n
      BY SizeIs
    <3> QED BY <3>1, <3>2 DEF Tame
  <2>5. ParseBy(f, rule, s) = ParseBy(g, rule, s)
    BY <2>2, <2>3, <2>4, ParseStep
  <2> QED BY <2>2, <2>5 DEF Fits
<1> HIDE DEF G
<1>3. n \in G
  BY <1>1, <1>2, SetInduction
<1> QED BY <1>3 DEF G

LEMMA FitsExists ==
  ASSUME NEW n \in Nat
  PROVE  \E f : Fits(f, n)
<1> DEFINE G == {k \in Nat : \E f : Fits(f, k)}
<1>1. 0 \in G
  <2>1. \A rule \in Rules, s \in ParserState : ~(Size(rule, s) < 0)
    BY SizeIs
  <2> QED BY <2>1 DEF Fits
<1>2. ASSUME NEW k \in Nat, k \in G PROVE k + 1 \in G
  <2>1. PICK f : Fits(f, k)
    BY <1>2
  <2> DEFINE g == [p \in Rules \X ParserState |-> ParseBy(f, p[1], p[2])]
  <2>2. \A rule \in Rules, s \in ParserState : g[<<rule, s>>] = ParseBy(f, rule, s)
    OBVIOUS
  <2> HIDE DEF g
  <2>3. \A rule \in Rules, s \in ParserState : Size(rule, s) < k => f[<<rule, s>>] = g[<<rule, s>>]
    BY <2>1, <2>2 DEF Fits
  <2>4. ASSUME NEW rule \in Rules, NEW s \in ParserState, Size(rule, s) < k + 1
        PROVE  g[<<rule, s>>] = ParseBy(g, rule, s)
    <3>1. ~(Size(rule, s) > k) /\ Tame(f, k)
      BY <2>1, <2>4, SizeIs, FitsTame
    <3>2. ParseBy(f, rule, s) = ParseBy(g, rule, s)
      BY <2>3, <3>1, ParseStep
    <3> QED BY <2>2, <3>2
  <2>5. Fits(g, k + 1)
    BY <2>4 DEF Fits
  <2> QED BY <2>5
<1> HIDE DEF G
<1>3. n \in G
  BY <1>1, <1>2, SetInduction
<1> QED BY <1>3 DEF G

LEMMA ParseIs ==
  \A rule \in Rules, s \in ParserState :
    parse[<<rule, s>>] = ParseBy(parse, rule, s) /\ Within(parse[<<rule, s>>], s)
<1> DEFINE at(n) == CHOOSE f : Fits(f, n + 1)
           F == [p \in Rules \X ParserState |-> at(Size(p[1], p[2]))[p]]
<1>1. \A n \in Nat : Fits(at(n), n + 1)
  BY FitsExists
<1>2. \A rule \in Rules, s \in ParserState : F[<<rule, s>>] = at(Size(rule, s))[<<rule, s>>]
  OBVIOUS
<1>3. F = [p \in Rules \X ParserState |-> F[p]]
  OBVIOUS
<1> HIDE DEF at, F
<1>4. ASSUME NEW rule \in Rules, NEW s \in ParserState
      PROVE  F[<<rule, s>>] = ParseBy(F, rule, s) /\ Within(F[<<rule, s>>], s)
  <2>1. Size(rule, s) \in Nat /\ Size(rule, s) < Size(rule, s) + 1 /\ ~(Size(rule, s) > Size(rule, s))
    BY SizeIs
  <2> DEFINE n == Size(rule, s)
             h == at(n)
  <2>a. n \in Nat /\ n = Size(rule, s) /\ ~(Size(rule, s) > n) /\ Size(rule, s) < n + 1
    BY <2>1
  <2> HIDE DEF n
  <2>2. Fits(h, n + 1) /\ F[<<rule, s>>] = h[<<rule, s>>]
    BY <1>1, <1>2, <2>a
  <2> HIDE DEF h
  <2>3. F[<<rule, s>>] = ParseBy(h, rule, s)
    BY <2>2, <2>a DEF Fits
  <2>4. ASSUME NEW r \in Rules, NEW u \in ParserState, Size(r, u) < n
        PROVE  h[<<r, u>>] = F[<<r, u>>]
    <3> DEFINE k == Size(r, u)
    <3>1. k \in Nat /\ k + 1 \in Nat /\ Size(r, u) < k + 1 /\ k < n
      BY <2>4, SizeIs
    <3>2. Fits(at(k), k + 1)
      BY <1>1, <3>1
    <3>3. Fits(h, k + 1)
      <4>1. \A v \in ParserState, q \in Rules : Size(q, v) < k + 1 => Size(q, v) < n + 1
        BY <2>a, <3>1, SizeIs
      <4> QED BY <2>2, <4>1 DEF Fits
    <3>4. h[<<r, u>>] = at(k)[<<r, u>>]
      BY <3>1, <3>2, <3>3, FitsAgree
    <3> QED BY <1>2, <3>4
  <2>5. Tame(h, n)
    <3>1. Fits(h, n)
      <4>1. \A v \in ParserState, q \in Rules : Size(q, v) < n => Size(q, v) < n + 1
        BY <2>a, SizeIs
      <4> QED BY <2>2, <4>1 DEF Fits
    <3> QED BY <2>a, <3>1, FitsTame
  <2>b. \A r \in Rules, u \in ParserState : Size(r, u) < n => h[<<r, u>>] = F[<<r, u>>]
    BY <2>4
  <2>c. n \in Nat /\ ~(Size(rule, s) > n)
    BY <2>a
  <2>6. ParseBy(h, rule, s) = ParseBy(F, rule, s) /\ Within(ParseBy(h, rule, s), s)
    BY <2>b, <2>c, <2>5, ParseStep
  <2> QED BY <2>3, <2>6
<1>5. F = [p \in Rules \X ParserState |-> ParseBy(F, p[1], p[2])]
  <2> DEFINE H == [p \in Rules \X ParserState |-> ParseBy(F, p[1], p[2])]
  <2>1. \A p \in Rules \X ParserState : p = <<p[1], p[2]>> /\ p[1] \in Rules /\ p[2] \in ParserState
    OBVIOUS
  <2>2. \A p \in Rules \X ParserState : H[p] = ParseBy(F, p[1], p[2])
    OBVIOUS
  <2>3. H = [p \in Rules \X ParserState |-> H[p]]
    OBVIOUS
  <2> HIDE DEF H
  <2>4. \A p \in Rules \X ParserState : F[p] = H[p]
    BY <1>4, <2>1, <2>2
  <2>5. F = H
    BY <1>3, <2>3, <2>4
  <2> QED BY <2>5 DEF H
<1>6. parse = CHOOSE f : f = [p \in Rules \X ParserState |-> ParseBy(f, p[1], p[2])]
  BY DEF parse, ParseBy
<1>7. parse = [p \in Rules \X ParserState |-> ParseBy(parse, p[1], p[2])]
  BY <1>5, <1>6
<1>8. \A rule \in Rules, s \in ParserState : parse[<<rule, s>>] = ParseBy(parse, rule, s)
  BY <1>7
<1>9. \A n \in Nat : Fits(parse, n)
  BY <1>8 DEF Fits
<1>10. ASSUME NEW rule \in Rules, NEW s \in ParserState PROVE Within(parse[<<rule, s>>], s)
  <2>1. Size(rule, s) \in Nat /\ Size(rule, s) + 1 \in Nat /\ Size(rule, s) < Size(rule, s) + 1
    BY SizeIs
  <2>2. Tame(parse, Size(rule, s) + 1)
    BY <1>9, <2>1, FitsTame
  <2> QED BY <2>1, <2>2 DEF Tame
<1> QED BY <1>8, <1>10

-----------------------------------------------------------------------------
(* Words replaced by their values: parentheses and operators stay.          *)

Marks == {"LP", "RP", "OR", "AND", "NOT"}
Reading(h) ==
  /\ h \in [SqlWord -> Token]
  /\ \A w \in SqlWord : IF w.type \in Marks THEN h[w] = w ELSE h[w].type \notin Shaping
Image(h, s) == [i \in DOMAIN s |-> h[s[i]]]

LEMMA TokensAreWords == Token \subseteq SqlWord /\ Seq(Token) \subseteq Seq(SqlWord)
BY DEF SqlWord

LEMMA MarkIs ==
  ASSUME NEW w \in SqlWord, w.type \in Marks
  PROVE  w = Tok(w.type) /\ w \in Token
BY DEF SqlWord, Token, Tok, Marks

LEMMA MarkOf ==
  ASSUME NEW type \in Marks
  PROVE  Tok(type) \in Token /\ Tok(type) \in SqlWord /\ Tok(type).type = type
BY DEF SqlWord, Token, Tok, Marks

LEMMA ImageShape ==
  ASSUME NEW h, Reading(h), NEW s \in Seq(SqlWord)
  PROVE  /\ Image(h, s) \in Seq(Token) /\ SameShape(Image(h, s), s)
         /\ Len(Image(h, s)) = Len(s) /\ \A i \in 1..Len(s) : Image(h, s)[i] = h[s[i]]
<1> DEFINE u == Image(h, s)
<1>1. Len(s) \in Nat /\ DOMAIN s = 1..Len(s) /\ \A i \in 1..Len(s) : s[i] \in SqlWord
  OBVIOUS
<1>2. u = [i \in 1..Len(s) |-> h[s[i]]]
  BY <1>1 DEF Image
<1>3. \A w \in SqlWord : h[w] \in Token
  BY DEF Reading
<1>4. u \in [1..Len(s) -> Token]
  BY <1>1, <1>2, <1>3
<1> HIDE DEF u
<1>5. u \in Seq(Token) /\ Len(u) = Len(s) /\ \A i \in 1..Len(s) : u[i] = h[s[i]]
  BY <1>1, <1>2, <1>4
<1>6. \A i \in 1..Len(s) : u[i].type = s[i].type \/ {u[i].type, s[i].type} \cap Shaping = {}
  BY <1>1, <1>5 DEF Reading, Marks, Shaping
<1>7. SameShape(u, s)
  BY <1>5, <1>6, TokensAreWords DEF SameShape
<1> QED BY <1>5, <1>7 DEF u

LEMMA ImageConcat ==
  ASSUME NEW h, Reading(h), NEW a \in Seq(SqlWord), NEW b \in Seq(SqlWord)
  PROVE  a \o b \in Seq(SqlWord) /\ Image(h, a \o b) = Image(h, a) \o Image(h, b)
<1>1. a \o b \in Seq(SqlWord) /\ Len(a) \in Nat /\ Len(b) \in Nat
  OBVIOUS
<1>2. /\ Len(a \o b) = Len(a) + Len(b)
      /\ \A i \in 1..Len(a) + Len(b) : (a \o b)[i] = IF i <= Len(a) THEN a[i] ELSE b[i - Len(a)]
  OBVIOUS
<1> DEFINE c == a \o b
           x == Image(h, c)
           y == Image(h, a) \o Image(h, b)
<1>3. /\ Image(h, a) \in Seq(Token) /\ Len(Image(h, a)) = Len(a) /\ \A i \in 1..Len(a) : Image(h, a)[i] = h[a[i]]
      /\ Image(h, b) \in Seq(Token) /\ Len(Image(h, b)) = Len(b) /\ \A i \in 1..Len(b) : Image(h, b)[i] = h[b[i]]
  BY ImageShape
<1> HIDE DEF c
<1>4. x \in Seq(Token) /\ Len(x) = Len(a) + Len(b) /\ \A i \in 1..Len(c) : x[i] = h[c[i]]
  BY <1>1, <1>2, ImageShape DEF c
<1> DEFINE p == Image(h, a)
           q == Image(h, b)
<1> HIDE DEF p, q, x
<1>5. y \in Seq(Token) /\ Len(y) = Len(p) + Len(q)
      /\ \A i \in 1..Len(p) + Len(q) : y[i] = IF i <= Len(p) THEN p[i] ELSE q[i - Len(p)]
  <2>1. p \in Seq(Token) /\ q \in Seq(Token)
    BY <1>3 DEF p, q
  <2>2. y = p \o q
    BY DEF p, q
  <2>3. p \o q \in Seq(Token) /\ Len(p \o q) = Len(p) + Len(q)
        /\ \A i \in 1..Len(p) + Len(q) : (p \o q)[i] = IF i <= Len(p) THEN p[i] ELSE q[i - Len(p)]
    BY <2>1, ConcatProperties
  <2> HIDE DEF y
  <2> QED BY <2>2, <2>3
<1> HIDE DEF y
<1>l. Len(p) = Len(a) /\ Len(q) = Len(b) /\ Len(c) = Len(a) + Len(b)
      /\ (\A i \in 1..Len(a) : p[i] = h[a[i]]) /\ (\A i \in 1..Len(b) : q[i] = h[b[i]])
  BY <1>2, <1>3 DEF p, q, c
<1>6. ASSUME NEW i \in 1..Len(a) + Len(b) PROVE x[i] = y[i]
  <2>1. CASE i <= Len(a)
    <3>1. i \in 1..Len(a) /\ c[i] = a[i]
      BY <1>1, <1>2, <2>1 DEF c
    <3>2. y[i] = p[i] /\ x[i] = h[c[i]] /\ p[i] = h[a[i]]
      BY <1>4, <1>5, <1>l, <2>1, <3>1
    <3> QED BY <3>1, <3>2
  <2>2. CASE ~(i <= Len(a))
    <3>1. i - Len(a) \in 1..Len(b) /\ c[i] = b[i - Len(a)]
      BY <1>1, <1>2, <2>2 DEF c
    <3>2. y[i] = q[i - Len(a)] /\ x[i] = h[c[i]] /\ q[i - Len(a)] = h[b[i - Len(a)]]
      BY <1>4, <1>5, <1>l, <2>2, <3>1
    <3> QED BY <3>1, <3>2
  <2> QED BY <2>1, <2>2
<1>7. x = y
  <2>1. Len(x) = Len(y)
    BY <1>3, <1>4, <1>5 DEF p, q
  <2>2. \A i \in 1..Len(x) : x[i] = y[i]
    BY <1>4, <1>6
  <2> QED BY <1>4, <1>5, <2>1, <2>2, SeqEqual
<1> QED BY <1>1, <1>7 DEF x, y, c, p, q

LEMMA ImageOne ==
  ASSUME NEW h, Reading(h), NEW w \in SqlWord
  PROVE  Image(h, <<w>>) = <<h[w]>> /\ (w.type \in Marks => Image(h, <<w>>) = <<w>>)
<1>1. Image(h, <<w>>) = <<h[w]>>
  <2>1. DOMAIN <<w>> = 1..1 /\ <<w>>[1] = w
    OBVIOUS
  <2>2. Image(h, <<w>>) = [i \in 1..1 |-> h[w]]
    BY <2>1 DEF Image
  <2> QED BY <2>2
<1> QED BY <1>1 DEF Reading

-----------------------------------------------------------------------------
(* The value of words under a reading.                                      *)

Of(h, s) == Value[Image(h, s)]

LEMMA ImageKeeps ==
  ASSUME NEW h, Reading(h), NEW s, Balanced(s)
  PROVE  /\ s \in Seq(SqlWord) /\ Image(h, s) \in Seq(Token) /\ Balanced(Image(h, s))
         /\ NoOr(s) <=> NoOr(Image(h, s))
         /\ NoAnd(s) <=> NoAnd(Image(h, s))
<1>1. s \in Seq(SqlWord)
  BY DEF Balanced
<1>2. Image(h, s) \in Seq(Token) /\ SameShape(Image(h, s), s)
  BY <1>1, ImageShape
<1> QED BY <1>1, <1>2, ShapeDecides

LEMMA ImageJoined ==
  ASSUME NEW h, Reading(h), NEW a \in Seq(SqlWord), NEW b \in Seq(SqlWord), NEW type \in {"OR", "AND"}
  PROVE  Image(h, a \o <<Tok(type)>> \o b) = Image(h, a) \o <<Tok(type)>> \o Image(h, b)
<1> DEFINE x == <<Tok(type)>>
           c == a \o x
<1>1. Tok(type) \in SqlWord /\ Tok(type).type \in Marks
  BY MarkOf DEF Marks
<1>2. x \in Seq(SqlWord) /\ Image(h, x) = x
  BY <1>1, ImageOne
<1> HIDE DEF x
<1>3. c \in Seq(SqlWord) /\ Image(h, c) = Image(h, a) \o x
  <2>1. x \in Seq(SqlWord)
    BY <1>2
  <2>2. a \o x \in Seq(SqlWord) /\ Image(h, a \o x) = Image(h, a) \o Image(h, x)
    BY <2>1, ImageConcat
  <2> QED BY <1>2, <2>2
<1> HIDE DEF c
<1>4. Image(h, c \o b) = Image(h, c) \o Image(h, b)
  BY <1>3, ImageConcat
<1> QED BY <1>3, <1>4 DEF c, x

LEMMA OfOr ==
  ASSUME NEW h, Reading(h), NEW a, NEW b, Balanced(a), Balanced(b), NoOr(a)
  PROVE  Of(h, a \o <<Tok("OR")>> \o b) = Max({Of(h, a), Of(h, b)})
<1> DEFINE p == Image(h, a)
           q == Image(h, b)
<1>1. p \in Seq(Token) /\ q \in Seq(Token) /\ Balanced(p) /\ Balanced(q) /\ NoOr(p)
      /\ a \in Seq(SqlWord) /\ b \in Seq(SqlWord)
  BY ImageKeeps
<1>2. Image(h, a \o <<Tok("OR")>> \o b) = p \o <<Tok("OR")>> \o q
  BY <1>1, ImageJoined
<1> HIDE DEF p, q
<1>3. Value[p \o <<Tok("OR")>> \o q] = Max({Value[p], Value[q]})
  BY <1>1, ValueOfOr
<1> QED BY <1>2, <1>3 DEF Of, p, q

LEMMA OfAnd ==
  ASSUME NEW h, Reading(h), NEW a, NEW b, Balanced(a), Balanced(b), NoOr(a), NoAnd(a), NoOr(b)
  PROVE  Of(h, a \o <<Tok("AND")>> \o b) = Min({Of(h, a), Of(h, b)})
<1> DEFINE p == Image(h, a)
           q == Image(h, b)
<1>1. p \in Seq(Token) /\ q \in Seq(Token) /\ Balanced(p) /\ Balanced(q) /\ NoOr(p) /\ NoAnd(p) /\ NoOr(q)
      /\ a \in Seq(SqlWord) /\ b \in Seq(SqlWord)
  BY ImageKeeps
<1>2. Image(h, a \o <<Tok("AND")>> \o b) = p \o <<Tok("AND")>> \o q
  BY <1>1, ImageJoined
<1> HIDE DEF p, q
<1>3. Value[p \o <<Tok("AND")>> \o q] = Min({Value[p], Value[q]})
  BY <1>1, ValueOfAnd
<1> QED BY <1>2, <1>3 DEF Of, p, q

LEMMA OfNot ==
  ASSUME NEW h, Reading(h), NEW a, Balanced(a), NoOr(a), NoAnd(a)
  PROVE  Of(h, <<Tok("NOT")>> \o a) = 2 - Of(h, a)
<1> DEFINE p == Image(h, a)
           x == Tok("NOT")
<1>1. p \in Seq(Token) /\ Balanced(p) /\ NoOr(p) /\ NoAnd(p) /\ a \in Seq(SqlWord)
  BY ImageKeeps
<1>2. x \in SqlWord /\ x.type \in Marks
  BY MarkOf DEF Marks
<1>3. Image(h, <<x>> \o a) = <<x>> \o p
  <2> DEFINE u == <<x>>
  <2>1. u \in Seq(SqlWord) /\ Image(h, u) = u
    BY <1>2, ImageOne
  <2> HIDE DEF u, p
  <2>2. a \in Seq(SqlWord) /\ u \in Seq(SqlWord)
    BY <1>1, <2>1
  <2>3. Image(h, u \o a) = Image(h, u) \o Image(h, a)
    BY <2>2, ImageConcat
  <2> QED BY <2>1, <2>3 DEF p, u
<1> HIDE DEF p
<1>4. Value[<<Tok("NOT")>> \o p] = 2 - Value[p]
  BY <1>1, ValueOfNot
<1> QED BY <1>3, <1>4 DEF Of, p

LEMMA OfParen ==
  ASSUME NEW h, Reading(h), NEW a, Balanced(a)
  PROVE  Of(h, Paren(a)) = Of(h, a)
<1> DEFINE p == Image(h, a)
           l == <<Tok("LP")>>
           r == <<Tok("RP")>>
           c == l \o a
<1>1. p \in Seq(Token) /\ Balanced(p) /\ a \in Seq(SqlWord)
  BY ImageKeeps
<1>2. l \in Seq(SqlWord) /\ r \in Seq(SqlWord) /\ Image(h, l) = l /\ Image(h, r) = r
  <2>1. Tok("LP") \in SqlWord /\ Tok("LP").type \in Marks /\ Tok("RP") \in SqlWord /\ Tok("RP").type \in Marks
    BY MarkOf DEF Marks
  <2> QED BY <2>1, ImageOne
<1>3. Paren(a) = c \o r /\ Paren(p) = (l \o p) \o r
  BY DEF Paren
<1> HIDE DEF l, r
<1> HIDE DEF p
<1>4. c \in Seq(SqlWord) /\ Image(h, c) = l \o p
  <2>1. l \in Seq(SqlWord) /\ a \in Seq(SqlWord)
    BY <1>1, <1>2
  <2>2. l \o a \in Seq(SqlWord) /\ Image(h, l \o a) = Image(h, l) \o Image(h, a)
    BY <2>1, ImageConcat
  <2> QED BY <1>2, <2>2 DEF p
<1> HIDE DEF c
<1>5. Image(h, c \o r) = Image(h, c) \o r
  <2>1. c \in Seq(SqlWord) /\ r \in Seq(SqlWord)
    BY <1>2, <1>4
  <2>2. Image(h, c \o r) = Image(h, c) \o Image(h, r)
    BY <2>1, ImageConcat
  <2> QED BY <1>2, <2>2
<1>6. Image(h, Paren(a)) = Paren(p)
  BY <1>3, <1>4, <1>5
<1>7. Value[Paren(p)] = Value[p]
  BY <1>1, ValueOfParen
<1> QED BY <1>6, <1>7 DEF Of, p

LEMMA OfOne ==
  ASSUME NEW h, Reading(h), NEW w \in SqlWord, NEW v \in Int, h[w] = Num(v)
  PROVE  Of(h, <<w>>) = v
BY ImageOne, ValueOfNum DEF Of

LEMMA OfNone == ASSUME NEW h PROVE Of(h, <<>>) = 2
<1>1. Image(h, <<>>) = <<>>
  BY DEF Image
<1> QED BY <1>1, ValueOfNone DEF Of

LEMMA Larger == ASSUME NEW a \in Int, NEW b \in Int PROVE Max({a, b}) = IF a >= b THEN a ELSE b
BY DEF Max

LEMMA Lesser == ASSUME NEW a \in Int, NEW b \in Int PROVE Min({a, b}) = IF a <= b THEN a ELSE b
BY DEF Min

-----------------------------------------------------------------------------
(* The value of a test for a row.                                            *)

Three == {0, 1, 2}
LEMMA TestRange ==
  ASSUME NEW type, NEW op, NEW x, NEW a
  PROVE  TestValue(type, op, x, a) \in Three
<1>1. \A b : Truth(b) \in Three
  BY DEF Truth, Three
<1> DEFINE e == Truth(x = Null \/ (x = 0 /\ type \in {"text", "enum"}))
           ne == Truth(x # Null /\ (x # 0 \/ type \notin {"text", "enum"}))
           it == Truth(x = 1)
           if == Truth(x = 0)
           nq == Truth(x # a[1][1])
           cmp == Truth(Compare(type, op, x, a))
<1>2. e \in Three /\ ne \in Three /\ it \in Three /\ if \in Three /\ nq \in Three /\ cmp \in Three /\ 1 \in Three
  BY <1>1 DEF Three
<1>3. TestValue(type, op, x, a) =
        CASE op = "empty" -> e [] op = "not_empty" -> ne [] op = "is_true" -> it [] op = "is_false" -> if
          [] op = "neq" /\ type \in {"text", "enum"} -> nq [] x = Null -> 1 [] OTHER -> cmp
  BY DEF TestValue
<1> HIDE DEF e, ne, it, if, nq, cmp
<1> QED BY <1>2, <1>3

\* The words of a statement for a row; the tokens of a logic expression.
Row(Q, r) == [w \in SqlWord |-> WordValue(w, Q, r)]
Chosen(conds, r) ==
  [w \in SqlWord |-> IF w.type = "NUM" THEN Num(ConditionValue(conds[w.value], r))
                     ELSE IF w \in Token THEN w ELSE Num(0)]

LEMMA NumIs ==
  ASSUME NEW v \in Int
  PROVE  Num(v) \in Token /\ Num(v).type = "NUM" /\ Num(v).value = v
BY DEF Num, Token

LEMMA ConditionRange == ASSUME NEW c, NEW r PROVE ConditionValue(c, r) \in Three
<1>1. 2 \in Three
  BY DEF Three
<1> QED BY <1>1, TestRange DEF ConditionValue

LEMMA ChosenReads == ASSUME NEW conds, NEW r PROVE Reading(Chosen(conds, r))
<1> DEFINE h == Chosen(conds, r)
<1>1. ASSUME NEW w \in SqlWord
      PROVE  h[w] \in Token /\ (IF w.type \in Marks THEN h[w] = w ELSE h[w].type \notin Shaping)
  <2>1. ConditionValue(conds[w.value], r) \in Int
    BY ConditionRange DEF Three
  <2>2. /\ Num(ConditionValue(conds[w.value], r)) \in Token
        /\ Num(ConditionValue(conds[w.value], r)).type = "NUM"
        /\ Num(0) \in Token /\ Num(0).type = "NUM"
    BY <2>1, NumIs
  <2>3. h[w] = IF w.type = "NUM" THEN Num(ConditionValue(conds[w.value], r))
               ELSE IF w \in Token THEN w ELSE Num(0)
    BY DEF Chosen
  <2>4. w.type \in Marks => w \in Token /\ w.type # "NUM"
    BY MarkIs DEF Marks
  <2> HIDE DEF h
  <2>5. CASE w.type = "NUM"
    BY <2>2, <2>3, <2>4, <2>5 DEF Shaping, Marks
  <2>6. CASE w.type # "NUM" /\ w \in Token
    BY <2>3, <2>6 DEF Shaping, Marks
  <2>7. CASE w.type # "NUM" /\ w \notin Token
    BY <2>2, <2>3, <2>4, <2>7 DEF Shaping, Marks
  <2> QED BY <2>5, <2>6, <2>7
<1>2. h = [w \in SqlWord |-> h[w]]
  BY DEF Chosen
<1> HIDE DEF h
<1>3. h \in [SqlWord -> Token]
  BY <1>1, <1>2
<1>4. Reading(h)
  BY <1>1, <1>3 DEF Reading
<1> QED BY <1>4 DEF h

LEMMA WordRange ==
  ASSUME NEW w \in SqlWord, w.type = "TEST", NEW Q, NEW r
  PROVE  \E v \in Three : WordValue(w, Q, r) = Num(v)
<1> DEFINE a == [i \in DOMAIN w.ps |-> Q[w.ps[i]]]
           v1 == Truth(r[Dimensions[w.field].col] = Null)
           v2 == Equal(r[Dimensions[w.field].col], a[1][1])
           v3 == Equal(DimExpr(w.field, r), a[1][1])
           v4 == TestValue(TypeOf(w.field), w.op, r[w.field], a)
<1>1. v1 \in Three /\ v2 \in Three /\ v3 \in Three
  BY DEF Truth, Equal, Three
<1>2. v4 \in Three
  BY TestRange
<1>3. WordValue(w, Q, r) =
        Num(CASE w.op = "dim_null" -> v1 [] w.op = "dim_eq" -> v2 [] w.op = "expr_eq" -> v3 [] OTHER -> v4)
  BY DEF WordValue
<1> HIDE DEF v1, v2, v3, v4
<1>4. (CASE w.op = "dim_null" -> v1 [] w.op = "dim_eq" -> v2 [] w.op = "expr_eq" -> v3 [] OTHER -> v4) \in Three
  BY <1>1, <1>2
<1> QED BY <1>3, <1>4

LEMMA RowReads == ASSUME NEW Q, NEW r PROVE Reading(Row(Q, r))
<1> DEFINE h == Row(Q, r)
<1>1. ASSUME NEW w \in SqlWord
      PROVE  h[w] \in Token /\ (IF w.type \in Marks THEN h[w] = w ELSE h[w].type \notin Shaping)
  <2>1. h[w] = WordValue(w, Q, r)
    BY DEF Row
  <2> HIDE DEF h
  <2>2. CASE w.type = "TRUE"
    <3>1. h[w] = Num(2)
      BY <2>1, <2>2 DEF WordValue
    <3>2. Num(2) \in Token /\ Num(2).type = "NUM"
      BY NumIs
    <3> QED BY <2>2, <3>1, <3>2 DEF Marks, Shaping
  <2>3. CASE w.type = "TEST"
    <3>1. PICK v \in Three : WordValue(w, Q, r) = Num(v)
      BY <2>3, WordRange
    <3>2. Num(v) \in Token /\ Num(v).type = "NUM"
      BY NumIs DEF Three
    <3> QED BY <2>1, <2>3, <3>1, <3>2 DEF Marks, Shaping
  <2>4. CASE w.type \notin {"TRUE", "TEST"}
    <3>1. h[w] = w
      BY <2>1, <2>4 DEF WordValue
    <3>2. w \in Token
      BY <2>4 DEF SqlWord
    <3> QED BY <3>1, <3>2 DEF Marks, Shaping
  <2> QED BY <2>2, <2>3, <2>4
<1>2. h = [w \in SqlWord |-> h[w]]
  BY DEF Row
<1> HIDE DEF h
<1>3. h \in [SqlWord -> Token]
  BY <1>1, <1>2
<1>4. Reading(h)
  BY <1>1, <1>3 DEF Reading
<1> QED BY <1>4 DEF h

-----------------------------------------------------------------------------
(* One condition: its test says of a row what the condition says.           *)

Plain(sql) == Balanced(sql) /\ NoOr(sql) /\ NoAnd(sql)
Agree(Q, offset, params) == \A i \in 1..Len(params) : Q[offset + i] = params[i]
Extends(p, s) ==
  /\ p \in ParserState /\ p.conds = s.conds /\ p.offset = s.offset
  /\ Len(s.params) <= Len(p.params) /\ \A i \in 1..Len(s.params) : p.params[i] = s.params[i]

LEMMA AgreeBefore ==
  ASSUME NEW s \in ParserState, NEW p, Extends(p, s), NEW Q, Agree(Q, p.offset, p.params)
  PROVE  Agree(Q, s.offset, s.params)
<1>1. Len(s.params) \in Nat /\ Len(p.params) \in Nat /\ Len(s.params) <= Len(p.params)
  BY DEF Extends, ParserState
<1>2. \A i \in 1..Len(s.params) : i \in 1..Len(p.params) /\ p.params[i] = s.params[i]
  BY <1>1 DEF Extends
<1> QED BY <1>2 DEF Agree, Extends

LEMMA ExtendsTwice ==
  ASSUME NEW s \in ParserState, NEW p, NEW t, Extends(p, s), Extends(t, p)
  PROVE  Extends(t, s)
<1>1. Len(s.params) \in Nat /\ Len(p.params) \in Nat /\ Len(t.params) \in Nat
  BY DEF Extends, ParserState
<1>2. \A i \in 1..Len(s.params) : i \in 1..Len(p.params)
  BY <1>1 DEF Extends
<1> QED BY <1>1, <1>2 DEF Extends

LEMMA ExtendsItself == ASSUME NEW s \in ParserState PROVE Extends(s, s)
BY DEF Extends, ParserState

LEMMA NoDimension ==
  ASSUME NEW c, Known(c)
  PROVE  c.operator \notin {"dim_null", "dim_eq", "expr_eq"} /\ TypeOf(c.field) = FieldType[c.field]
<1>1. \A type : {"dim_null", "dim_eq", "expr_eq"} \cap OPERATORS(type) = {}
  BY DEF OPERATORS
<1> QED BY <1>1 DEF Known, TypeOf

LEMMA BindMeans ==
  ASSUME NEW s \in ParserState, NEW c \in Condition, Known(c), ~Bind(s, c).bad
  PROVE  /\ Bind(s, c).rest = s.rest /\ Extends(Bind(s, c), s) /\ Plain(Bind(s, c).sql)
         /\ \A Q, r : Agree(Q, s.offset, Bind(s, c).params) =>
                        Of(Row(Q, r), Bind(s, c).sql) = ConditionValue(c, r)
<1> DEFINE cl == buildClause(c)
           p == Bind(s, c)
<1>1. cl \in Clauses /\ p \in ParserState /\ p.rest = s.rest
  BY ClauseType, BindType
<1>0. Rejected # Skipped
  BY DEF Rejected, Skipped
<1>2. cl # Rejected
  <2>1. cl = Rejected => p = Fail(s)
    BY <1>0 DEF Bind, Bound
  <2> QED BY <2>1, FailType
<1>3. CASE cl = Skipped
  <2> DEFINE x == Tok("TRUE")
  <2>1. x \in Token /\ x \in SqlWord /\ x.type = "TRUE"
    BY DEF Tok, Token, SqlWord
  <2>2. p = [s EXCEPT !.sql = <<x>>]
    BY <1>0, <1>3 DEF Bind, Bound
  <2> HIDE DEF x, p
  <2>3. <<x>> \in Seq(SqlWord)
    BY <2>1
  <2>4. p.sql = <<x>> /\ p.conds = s.conds /\ p.offset = s.offset /\ p.params = s.params
    BY <2>2, <2>3, WithSql
  <2>5. Plain(p.sql)
    BY <2>1, <2>4, SingleShape DEF Plain, Shaping
  <2>6. Extends(p, s)
    BY <1>1, <2>4, ExtendsItself DEF Extends
  <2>7. ASSUME NEW Q, NEW r PROVE Of(Row(Q, r), p.sql) = ConditionValue(c, r)
    <3>1. Row(Q, r)[x] = Num(2)
      BY <2>1 DEF Row, WordValue
    <3>2. Of(Row(Q, r), <<x>>) = 2
      BY <2>1, <3>1, RowReads, OfOne
    <3>3. ConditionValue(c, r) = 2
      BY <1>3 DEF ConditionValue, Skipped
    <3> QED BY <2>4, <3>2, <3>3
  <2> QED BY <1>1, <2>5, <2>6, <2>7 DEF p
<1>4. CASE cl # Skipped
  <2>1. PICK o \in Seq(Seq(Int)) : cl = Clause(o)
    BY <1>1, <1>2, <1>4 DEF Clauses
  <2>2. cl.operands = o /\ cl.kind = "clause"
    BY <2>1 DEF Clause
  <2> DEFINE m == Len(s.params)
             ps == [i \in DOMAIN o |-> s.offset + Len(s.params) + i]
             x == Test(c.field, c.operator, ps)
  <2>3. s.offset \in Nat /\ m \in Nat /\ DOMAIN o = 1..Len(o) /\ Len(o) \in Nat
        /\ s.params \in Seq(Seq(Int))
    BY DEF ParserState
  <2>4. ps \in Seq(Nat) /\ DOMAIN ps = 1..Len(o) /\ \A i \in 1..Len(o) : ps[i] = s.offset + m + i
    <3>1. ps \in [1..Len(o) -> Nat]
      BY <2>3
    <3> QED BY <2>3, <3>1
  <2>5. p = [s EXCEPT !.params = s.params \o o, !.sql = <<x>>]
    BY <1>2, <1>4, <2>2 DEF Bind, Bound
  <2> HIDE DEF ps
  <2>6. x \in SqlWord /\ x.type = "TEST" /\ x.field = c.field /\ x.op = c.operator /\ x.ps = ps
    BY <2>4 DEF Test, SqlWord, Condition
  <2> HIDE DEF x, p
  <2>7. p.sql = <<x>> /\ p.params = s.params \o o /\ p.conds = s.conds /\ p.offset = s.offset
    BY <2>5 DEF ParserState
  <2>8. /\ Len(s.params \o o) = m + Len(o)
        /\ \A i \in 1..m : (s.params \o o)[i] = s.params[i]
        /\ \A i \in 1..Len(o) : (s.params \o o)[m + i] = o[i]
    BY <2>3
  <2>9. Plain(p.sql)
    BY <2>6, <2>7, SingleShape DEF Plain, Shaping
  <2>10. Extends(p, s)
    BY <1>1, <2>3, <2>7, <2>8 DEF Extends
  <2>11. ASSUME NEW Q, NEW r, Agree(Q, s.offset, p.params)
         PROVE  Of(Row(Q, r), p.sql) = ConditionValue(c, r)
    <3> DEFINE a == [i \in DOMAIN x.ps |-> Q[x.ps[i]]]
    <3>1. \A i \in 1..Len(o) : Q[ps[i]] = o[i]
      <4> SUFFICES ASSUME NEW i \in 1..Len(o) PROVE Q[ps[i]] = o[i]
        OBVIOUS
      <4>1. m + i \in 1..m + Len(o) /\ s.offset + (m + i) = s.offset + m + i
        BY <2>3
      <4>2. Q[s.offset + (m + i)] = (s.params \o o)[m + i]
        BY <2>7, <2>8, <2>11, <4>1 DEF Agree
      <4> QED BY <2>4, <2>8, <4>1, <4>2
    <3>2. a = o
      <4>1. a = [i \in 1..Len(o) |-> Q[ps[i]]]
        BY <2>4, <2>6
      <4>2. o = [i \in 1..Len(o) |-> o[i]]
        BY <2>3
      <4> HIDE DEF a
      <4> QED BY <3>1, <4>1, <4>2
    <3>3. WordValue(x, Q, r) = Num(TestValue(FieldType[c.field], c.operator, r[c.field], a))
      BY <2>6, NoDimension DEF WordValue
    <3> HIDE DEF a
    <3>4. ConditionValue(c, r) = TestValue(FieldType[c.field], c.operator, r[c.field], o)
      BY <2>2 DEF ConditionValue
    <3>5. ConditionValue(c, r) \in Int
      BY ConditionRange DEF Three
    <3>6. Row(Q, r)[x] = Num(ConditionValue(c, r))
      BY <2>6, <3>2, <3>3, <3>4 DEF Row
    <3>7. Of(Row(Q, r), <<x>>) = ConditionValue(c, r)
      BY <2>6, <3>5, <3>6, RowReads, OfOne
    <3> QED BY <2>7, <3>7
  <2> QED BY <1>1, <2>9, <2>10, <2>11 DEF p
<1> QED BY <1>3, <1>4

-----------------------------------------------------------------------------
(* Two expressions and an operator, whichever of the two it is.             *)

Infix(a, type, b) == a \o <<Tok(type)>> \o b
Behind(type, b) == <<Tok(type)>> \o b
Both(type, x, y) == IF type = "OR" THEN Max({x, y}) ELSE Min({x, y})
\* What may stand before the first operator of a type, and after it.
Left(type, a) == Balanced(a) /\ NoOr(a) /\ (type = "AND" => NoAnd(a))
Rest(type, b) == Balanced(b) /\ (type = "AND" => NoOr(b))

LEMMA BothIs ==
  ASSUME NEW type \in {"OR", "AND"}, NEW x \in Three, NEW y \in Three, NEW z \in Three
  PROVE  /\ Both(type, x, y) \in Three
         /\ Both(type, Both(type, x, y), z) = Both(type, x, Both(type, y, z))
<1>1. \A a, b \in Three : Max({a, b}) = (IF a >= b THEN a ELSE b) /\ Min({a, b}) = (IF a <= b THEN a ELSE b)
  <2>1. Three \subseteq Int
    BY DEF Three
  <2> QED BY <2>1, Larger, Lesser
<1>2. \A a, b \in Three : (IF a >= b THEN a ELSE b) \in Three /\ (IF a <= b THEN a ELSE b) \in Three
  BY DEF Three
<1>3. CASE type = "OR"
  <2>1. \A a, b \in Three : Both(type, a, b) = IF a >= b THEN a ELSE b
    BY <1>1, <1>3 DEF Both
  <2>2. \A a, b \in Three : Both(type, a, b) \in Three
    BY <1>2, <2>1
  <2>3. Both(type, Both(type, x, y), z) = IF Both(type, x, y) >= z THEN Both(type, x, y) ELSE z
    BY <2>1, <2>2
  <2>4. Both(type, x, Both(type, y, z)) = IF x >= Both(type, y, z) THEN x ELSE Both(type, y, z)
    BY <2>1, <2>2
  <2>5. Both(type, x, y) = (IF x >= y THEN x ELSE y) /\ Both(type, y, z) = (IF y >= z THEN y ELSE z)
    BY <2>1
  <2> QED BY <2>2, <2>3, <2>4, <2>5 DEF Three
<1>4. CASE type = "AND"
  <2>1. \A a, b \in Three : Both(type, a, b) = IF a <= b THEN a ELSE b
    BY <1>1, <1>4 DEF Both
  <2>2. \A a, b \in Three : Both(type, a, b) \in Three
    BY <1>2, <2>1
  <2>3. Both(type, Both(type, x, y), z) = IF Both(type, x, y) <= z THEN Both(type, x, y) ELSE z
    BY <2>1, <2>2
  <2>4. Both(type, x, Both(type, y, z)) = IF x <= Both(type, y, z) THEN x ELSE Both(type, y, z)
    BY <2>1, <2>2
  <2>5. Both(type, x, y) = (IF x <= y THEN x ELSE y) /\ Both(type, y, z) = (IF y <= z THEN y ELSE z)
    BY <2>1
  <2> QED BY <2>2, <2>3, <2>4, <2>5 DEF Three
<1> QED BY <1>3, <1>4

LEMMA InfixShape ==
  ASSUME NEW type \in {"OR", "AND"}, NEW a, NEW b, Balanced(a), Balanced(b)
  PROVE  /\ Balanced(Infix(a, type, b)) /\ Plain(Paren(Infix(a, type, b)))
         /\ Left(type, a) /\ Rest(type, b) => Rest(type, Infix(a, type, b))
<1>1. /\ Balanced(Infix(a, type, b))
      /\ type = "AND" /\ NoOr(a) /\ NoOr(b) => NoOr(Infix(a, type, b))
  BY JoinedLevel DEF Infix
<1>2. Plain(Paren(Infix(a, type, b)))
  BY <1>1, ParenShape DEF Plain
<1> QED BY <1>1, <1>2 DEF Left, Rest

LEMMA OfInfix ==
  ASSUME NEW h, Reading(h), NEW type \in {"OR", "AND"}, NEW a, NEW b, Left(type, a), Rest(type, b)
  PROVE  Of(h, Infix(a, type, b)) = Both(type, Of(h, a), Of(h, b))
<1>1. CASE type = "OR"
  BY <1>1, OfOr DEF Infix, Both, Left, Rest
<1>2. CASE type = "AND"
  <2>1. Of(h, a \o <<Tok("AND")>> \o b) = Min({Of(h, a), Of(h, b)})
    BY <1>2, OfAnd DEF Left, Rest
  <2> QED BY <1>2, <2>1 DEF Infix, Both
<1> QED BY <1>1, <1>2

\* b is what c and then a were read from.
Reads(b, c, a) == b = c \o a

LEMMA InfixType ==
  ASSUME NEW type \in {"OR", "AND"}, NEW a \in Seq(Token), NEW b \in Seq(Token)
  PROVE  /\ Infix(a, type, b) \in Seq(Token) /\ Behind(type, b) \in Seq(Token)
         /\ Reads(Infix(a, type, b), a, Behind(type, b))
         /\ Reads(Behind(type, Infix(a, type, b)), Behind(type, a), Behind(type, b))
<1> DEFINE x == <<Tok(type)>>
<1>1. x \in Seq(Token)
  <2>1. Tok(type) \in Token
    BY MarkOf DEF Marks
  <2> QED BY <2>1
<1> HIDE DEF x
<1>2. a \o x \in Seq(Token) /\ x \o b \in Seq(Token)
  BY <1>1, ConcatProperties
<1>3. (a \o x) \o b \in Seq(Token)
  BY <1>2, ConcatProperties
<1>6. (a \o x) \o b = a \o (x \o b)
  BY <1>1, ConcatAssociative
<1>7. (x \o a) \o (x \o b) = x \o (a \o (x \o b))
  BY <1>1, <1>2, ConcatAssociative
<1> QED BY <1>2, <1>3, <1>6, <1>7 DEF Infix, Behind, Reads, x

\* What is read in two parts is read at once.
LEMMA ReadsOn ==
  ASSUME NEW a \in Seq(Token), NEW b \in Seq(Token), NEW c \in Seq(Token), NEW d, NEW e, NEW f,
         Reads(e, a, d), Reads(d, b, c), Reads(f, a, b)
  PROVE  Reads(e, f, c)
<1>1. a \o (b \o c) = (a \o b) \o c
  BY ConcatAssociative
<1> QED BY <1>1 DEF Reads

-----------------------------------------------------------------------------
(* Which sequences are expressions.  WellFormed exists for the same reason. *)

ExprBy(f, t) ==
  LET ors == TopLevel(t, "OR")
      ands == TopLevel(t, "AND")
      split == Least(IF ors # {} THEN ors ELSE ands)
      unary == t # <<>> /\ ors \cup ands = {}
  IN \/ /\ ors \cup ands # {}
        /\ f[SubSeq(t, 1, split - 1)]
        /\ f[SubSeq(t, split + 1, Len(t))]
     \/ unary /\ t[1].type = "NOT" /\ f[Tail(t)]
     \/ /\ unary /\ t[1].type = "LP" /\ Len(t) > 2 /\ t[Len(t)].type = "RP"
        /\ f[SubSeq(t, 2, Len(t) - 1)]
     \/ unary /\ t[1].type = "NUM" /\ Len(t) = 1

LEMMA ExprIsLocal ==
  ASSUME NEW t \in Seq(Token), NEW f, NEW g,
         \A u \in Seq(Token) : Len(u) < Len(t) => f[u] = g[u]
  PROVE  ExprBy(f, t) = ExprBy(g, t)
<1> DEFINE ors == TopLevel(t, "OR")
           ands == TopLevel(t, "AND")
           split == Least(IF ors # {} THEN ors ELSE ands)
           l == SubSeq(t, 1, split - 1)
           r == SubSeq(t, split + 1, Len(t))
           p == SubSeq(t, 2, Len(t) - 1)
<1>1. CASE ors \cup ands # {}
  <2>1. ors \subseteq 1..Len(t) /\ ands \subseteq 1..Len(t)
    BY DEF TopLevel
  <2>2. split \in 1..Len(t)
    <3> DEFINE S == IF ors # {} THEN ors ELSE ands
    <3>1. S \subseteq Nat /\ S # {} /\ S \subseteq 1..Len(t)
      BY <1>1, <2>1
    <3> HIDE DEF S
    <3>2. Least(S) \in S
      BY <3>1, LeastIsIn
    <3> QED BY <3>1, <3>2 DEF S
  <2> HIDE DEF split
  <2>3. f[l] = g[l] /\ f[r] = g[r]
    BY <2>2, Shorter
  <2>4. ExprBy(f, t) = (f[l] /\ f[r])
    BY <1>1 DEF ExprBy, split
  <2>5. ExprBy(g, t) = (g[l] /\ g[r])
    BY <1>1 DEF ExprBy, split
  <2> HIDE DEF l, r
  <2> QED BY <2>3, <2>4, <2>5
<1>2. CASE ors \cup ands = {}
  <2>1. CASE t = <<>>
    BY <1>2, <2>1 DEF ExprBy
  <2>2. CASE t # <<>>
    <3>1. f[Tail(t)] = g[Tail(t)] /\ f[p] = g[p]
      BY <2>2, Shorter
    <3> HIDE DEF p
    <3>2. ExprBy(f, t) =
            (\/ t[1].type = "NOT" /\ f[Tail(t)]
             \/ /\ t[1].type = "LP" /\ Len(t) > 2 /\ t[Len(t)].type = "RP" /\ f[p]
             \/ t[1].type = "NUM" /\ Len(t) = 1)
      BY <1>2, <2>2 DEF ExprBy, p
    <3>3. ExprBy(g, t) =
            (\/ t[1].type = "NOT" /\ g[Tail(t)]
             \/ /\ t[1].type = "LP" /\ Len(t) > 2 /\ t[Len(t)].type = "RP" /\ g[p]
             \/ t[1].type = "NUM" /\ Len(t) = 1)
      BY <1>2, <2>2 DEF ExprBy, p
    <3> QED BY <3>1, <3>2, <3>3
  <2> QED BY <2>1, <2>2
<1> QED BY <1>1, <1>2

Formed(f, n) ==
  \A t \in Seq(Token) : Len(t) < n => f[t] = ExprBy(f, t)

LEMMA FormedAgree ==
  ASSUME NEW n \in Nat, NEW f, NEW g, Formed(f, n), Formed(g, n)
  PROVE  \A t \in Seq(Token) : Len(t) < n => f[t] = g[t]
<1> DEFINE G == {k \in Nat : k <= n => \A t \in Seq(Token) :
                                          Len(t) < k => f[t] = g[t]}
<1>1. 0 \in G
  <2>1. \A t \in Seq(Token) : ~(Len(t) < 0)
    OBVIOUS
  <2> QED BY <2>1
<1>2. ASSUME NEW k \in Nat, k \in G PROVE k + 1 \in G
  <2> SUFFICES ASSUME k + 1 <= n, NEW t \in Seq(Token), Len(t) < k + 1
               PROVE  f[t] = g[t]
    OBVIOUS
  <2>1. Len(t) < n /\ \A u \in Seq(Token) : Len(u) < Len(t) => Len(u) < k
    OBVIOUS
  <2>2. \A u \in Seq(Token) : Len(u) < Len(t) => f[u] = g[u]
    BY <1>2, <2>1
  <2>3. ExprBy(f, t) = ExprBy(g, t)
    BY <2>2, ExprIsLocal
  <2> QED BY <2>1, <2>3 DEF Formed
<1> HIDE DEF G
<1>3. n \in G
  BY <1>1, <1>2, SetInduction
<1> QED BY <1>3 DEF G

LEMMA FormedExists ==
  ASSUME NEW n \in Nat
  PROVE  \E f : Formed(f, n)
<1> DEFINE G == {k \in Nat : \E f : Formed(f, k)}
<1>1. 0 \in G
  <2>1. \A t \in Seq(Token) : ~(Len(t) < 0)
    OBVIOUS
  <2> QED BY <2>1 DEF Formed
<1>2. ASSUME NEW k \in Nat, k \in G PROVE k + 1 \in G
  <2>1. PICK f : Formed(f, k)
    BY <1>2
  <2> DEFINE g == [t \in Seq(Token) |-> ExprBy(f, t)]
  <2>2. \A t \in Seq(Token) : g[t] = ExprBy(f, t)
    OBVIOUS
  <2> HIDE DEF g
  <2>3. \A t \in Seq(Token) : Len(t) < k => f[t] = g[t]
    BY <2>1, <2>2 DEF Formed
  <2>4. ASSUME NEW t \in Seq(Token), Len(t) < k + 1
        PROVE  g[t] = ExprBy(g, t)
    <3>1. \A u \in Seq(Token) : Len(u) < Len(t) => Len(u) < k
      BY <2>4
    <3>2. \A u \in Seq(Token) : Len(u) < Len(t) => f[u] = g[u]
      BY <2>3, <3>1
    <3>3. ExprBy(f, t) = ExprBy(g, t)
      BY <3>2, ExprIsLocal
    <3> QED BY <2>2, <3>3
  <2>5. Formed(g, k + 1)
    BY <2>4 DEF Formed
  <2> QED BY <2>5
<1> HIDE DEF G
<1>3. n \in G
  BY <1>1, <1>2, SetInduction
<1> QED BY <1>3 DEF G

LEMMA WellFormedIs ==
  \A t \in Seq(Token) : WellFormed[t] = ExprBy(WellFormed, t)
<1> DEFINE at(n) == CHOOSE f : Formed(f, n + 1)
           F == [t \in Seq(Token) |-> at(Len(t))[t]]
<1>1. \A n \in Nat : Formed(at(n), n + 1)
  BY FormedExists
<1>2. \A t \in Seq(Token) : F[t] = at(Len(t))[t]
  OBVIOUS
<1>3. F = [t \in Seq(Token) |-> F[t]]
  OBVIOUS
<1> HIDE DEF at, F
<1>4. ASSUME NEW t \in Seq(Token) PROVE F[t] = ExprBy(F, t)
  <2>1. Len(t) \in Nat /\ Len(t) < Len(t) + 1
    OBVIOUS
  <2>2. F[t] = ExprBy(at(Len(t)), t)
    BY <1>1, <1>2, <2>1 DEF Formed
  <2>3. ASSUME NEW u \in Seq(Token), Len(u) < Len(t) PROVE at(Len(t))[u] = F[u]
    <3>1. Len(u) \in Nat /\ Len(u) + 1 \in Nat /\ Len(u) < Len(u) + 1
      OBVIOUS
    <3>2. Formed(at(Len(u)), Len(u) + 1)
      BY <1>1, <3>1
    <3>3. Formed(at(Len(t)), Len(u) + 1)
      <4>1. Formed(at(Len(t)), Len(t) + 1)
        BY <1>1, <2>1
      <4>2. \A v \in Seq(Token) : Len(v) < Len(u) + 1 => Len(v) < Len(t) + 1
        BY <2>1, <2>3, <3>1
      <4> QED BY <4>1, <4>2 DEF Formed
    <3>4. at(Len(t))[u] = at(Len(u))[u]
      BY <3>1, <3>2, <3>3, FormedAgree
    <3> QED BY <1>2, <3>4
  <2>4. ExprBy(at(Len(t)), t) = ExprBy(F, t)
    BY <2>3, ExprIsLocal
  <2> QED BY <2>2, <2>4
<1>5. F = [t \in Seq(Token) |-> ExprBy(F, t)]
  <2> DEFINE H == [t \in Seq(Token) |-> ExprBy(F, t)]
  <2>1. \A t \in Seq(Token) : F[t] = H[t]
    BY <1>4
  <2>2. H = [t \in Seq(Token) |-> H[t]]
    OBVIOUS
  <2> HIDE DEF H
  <2>3. F = H
    BY <1>3, <2>1, <2>2
  <2> QED BY <2>3 DEF H
<1>6. WellFormed = CHOOSE f : f = [t \in Seq(Token) |-> ExprBy(f, t)]
  BY DEF WellFormed, ExprBy
<1>7. WellFormed = [t \in Seq(Token) |-> ExprBy(WellFormed, t)]
  BY <1>5, <1>6
<1> QED BY <1>7

\* Expressions, and the parts an expression is made of.
Legal(t) == t \in Seq(Token) /\ WellFormed[t]
Severs(type, t, a, b) ==
  /\ Legal(a) /\ Legal(b) /\ t = Infix(a, type, b) /\ Len(a) < Len(t) /\ Len(b) < Len(t)

LEMMA CutAt ==
  ASSUME NEW t \in Seq(Token), NEW n \in 1..Len(t)
  PROVE  t = SubSeq(t, 1, n - 1) \o <<t[n]>> \o SubSeq(t, n + 1, Len(t))
<1> DEFINE a == SubSeq(t, 1, n - 1)
           b == SubSeq(t, n + 1, Len(t))
           w == a \o <<t[n]>> \o b
<1>1. /\ Len(t) \in Nat /\ a \in Seq(Token) /\ b \in Seq(Token) /\ t[n] \in Token
  BY Shorter
<1>2. Len(a) = n - 1 /\ \A i \in 1..n - 1 : a[i] = t[i]
  OBVIOUS
<1>3. Len(b) = Len(t) - n /\ \A i \in 1..Len(t) - n : b[i] = t[n + i]
  <2>1. b = [i \in 1..(Len(t) - (n + 1) + 1) |-> t[i + (n + 1) - 1]]
    OBVIOUS
  <2>2. Len(t) - (n + 1) + 1 = Len(t) - n /\ \A i \in 1..Len(t) - n : i + (n + 1) - 1 = n + i
    BY <1>1
  <2> HIDE DEF b
  <2> QED BY <1>1, <2>1, <2>2
<1> HIDE DEF a, b
<1>4. a \o <<t[n]>> \in Seq(Token) /\ Len(a \o <<t[n]>>) = n
      /\ \A i \in 1..n : (a \o <<t[n]>>)[i] = IF i <= n - 1 THEN a[i] ELSE t[n]
  BY <1>1, <1>2
<1> DEFINE c == a \o <<t[n]>>
<1> HIDE DEF c
<1>5. c \in Seq(Token) /\ Len(c) = n /\ \A i \in 1..n : c[i] = t[i]
  BY <1>2, <1>4 DEF c
<1>6. /\ c \o b \in Seq(Token) /\ Len(c \o b) = Len(t)
      /\ \A i \in 1..Len(t) : (c \o b)[i] = IF i <= n THEN c[i] ELSE b[i - n]
  BY <1>1, <1>3, <1>5, ConcatProperties
<1>7. \A i \in 1..Len(t) : (c \o b)[i] = t[i]
  <2> TAKE i \in 1..Len(t)
  <2>1. CASE i <= n
    BY <1>5, <1>6, <2>1
  <2>2. CASE ~(i <= n)
    <3>1. i - n \in 1..Len(t) - n /\ n + (i - n) = i
      BY <1>1, <2>2
    <3> QED BY <1>3, <1>6, <2>2, <3>1
  <2> QED BY <2>1, <2>2
<1>8. c \o b = t
  BY <1>1, <1>6, <1>7, SeqEqual
<1> QED BY <1>8 DEF a, b, c

LEMMA LegalCut ==
  ASSUME NEW t, Legal(t), \A u : Legal(u) /\ Len(u) < Len(t) => Balanced(u),
         NEW type \in {"OR", "AND"}, TopLevel(t, type) # {}, type = "AND" => NoOr(t)
  PROVE  \E a, b : Severs(type, t, a, b) /\ Left(type, a) /\ Rest(type, b)
<1> DEFINE S == TopLevel(t, type)
           n == Least(S)
           a == SubSeq(t, 1, n - 1)
           b == SubSeq(t, n + 1, Len(t))
<1>1. S \subseteq 1..Len(t) /\ S \subseteq Nat /\ S # {} /\ Len(t) \in Nat /\ t \in Seq(Token)
  BY DEF TopLevel, Legal
<1> HIDE DEF S
<1>2. n \in S /\ \A j \in S : n <= j
  BY <1>1, LeastIsIn
<1>3. S = IF TopLevel(t, "OR") # {} THEN TopLevel(t, "OR") ELSE TopLevel(t, "AND")
  BY DEF S, NoOr
<1>4. WellFormed[t] = ExprBy(WellFormed, t)
  BY <1>1, WellFormedIs
<1>5. TopLevel(t, "OR") \cup TopLevel(t, "AND") # {}
  BY <1>1 DEF S
<1>6. ExprBy(WellFormed, t) = (WellFormed[a] /\ WellFormed[b])
  BY <1>3, <1>5 DEF ExprBy
<1> HIDE DEF n
<1>7. n \in 1..Len(t)
  BY <1>1, <1>2
<1>8. a \in Seq(Token) /\ Len(a) < Len(t) /\ b \in Seq(Token) /\ Len(b) < Len(t)
  BY <1>1, <1>7, Shorter
<1>9. t[n].type = type /\ Depth(t, n) = 0
  BY <1>2 DEF S, TopLevel
<1>10. t[n] = Tok(type)
  <2>1. t[n] \in SqlWord
    BY <1>1, <1>7, TokensAreWords
  <2> QED BY <1>9, <2>1, MarkIs DEF Marks
<1>11. t = Infix(a, type, b)
  BY <1>1, <1>7, <1>10, CutAt DEF Infix
<1>12. Legal(a) /\ Legal(b)
  BY <1>4, <1>6, <1>8 DEF Legal
<1>13. Severs(type, t, a, b)
  <2> HIDE DEF a, b
  <2> QED BY <1>8, <1>11, <1>12 DEF Severs
<1>14. Balanced(a) /\ Balanced(b)
  BY <1>8, <1>12
<1>15. Parts(t, Len(a) + 1, a, Tok(type), b)
  <2>1. Tok(type) \in SqlWord /\ Tok(type).type = type
    BY MarkOf DEF Marks
  <2> HIDE DEF a, b
  <2> QED BY <1>11, <1>14, <2>1, JoinedShape DEF Infix
<1>16. Len(a) + 1 = n
  BY <1>1, <1>7
<1> HIDE DEF a, b
<1>17. \A i \in DOMAIN t :
         /\ i < n => i \in DOMAIN a /\ t[i] = a[i] /\ Depth(t, i) = Depth(a, i)
         /\ n < i => i - n \in DOMAIN b /\ t[i] = b[i - n] /\ Depth(t, i) = Depth(b, i - n)
  BY <1>15, <1>16 DEF Parts
<1>18. TopLevel(a, type) = {} /\ (type = "AND" => NoOr(a))
  <2>1. DOMAIN a = 1..n - 1 /\ DOMAIN t = 1..Len(t)
    BY <1>1, <1>7, <1>8, <1>16
  <2>2. ASSUME NEW i \in DOMAIN a
        PROVE  i \in DOMAIN t /\ i < n /\ t[i] = a[i] /\ Depth(t, i) = Depth(a, i)
    BY <1>1, <1>7, <1>17, <2>1
  <2>3. ASSUME NEW i \in TopLevel(a, type) PROVE FALSE
    <3>1. i \in S /\ i < n
      BY <2>2 DEF TopLevel, S
    <3> QED BY <1>1, <1>2, <3>1
  <2>4. ASSUME type = "AND" PROVE NoOr(a)
    BY <2>2, <2>4 DEF NoOr, TopLevel
  <2> QED BY <2>3, <2>4
<1>19. type = "AND" => NoOr(b)
  <2>1. DOMAIN b = 1..Len(b) /\ Len(t) = n + Len(b)
    <3>1. Len(b) = Len(t) - n
      BY <1>1, <1>7 DEF b
    <3> QED BY <1>1, <1>7, <1>8, <3>1
  <2>2. ASSUME NEW i \in DOMAIN b
        PROVE  n + i \in DOMAIN t /\ t[n + i] = b[i] /\ Depth(t, n + i) = Depth(b, i)
    <3>1. n + i \in DOMAIN t /\ n < n + i /\ (n + i) - n = i
      BY <1>1, <1>7, <2>1
    <3> QED BY <1>17, <3>1
  <2> QED BY <2>2 DEF NoOr, TopLevel
<1>20. Left(type, a) /\ Rest(type, b)
  <2>1. type = "OR" => NoOr(a)
    BY <1>18 DEF NoOr
  <2>2. type = "AND" => NoAnd(a)
    BY <1>18 DEF NoAnd
  <2> QED BY <1>14, <1>18, <1>19, <2>1, <2>2 DEF Left, Rest
<1> QED BY <1>13, <1>20

LEMMA LegalUnary ==
  ASSUME NEW t, Legal(t), NoOr(t), NoAnd(t)
  PROVE  \/ \E a : Legal(a) /\ t = <<Tok("NOT")>> \o a /\ Len(a) < Len(t)
         \/ \E a : Legal(a) /\ t = Paren(a) /\ Len(a) < Len(t)
         \/ \E v \in Int : t = <<Num(v)>>
<1>1. t \in Seq(Token) /\ TopLevel(t, "OR") = {} /\ TopLevel(t, "AND") = {} /\ Len(t) \in Nat
  BY DEF Legal, NoOr, NoAnd
<1>2. WellFormed[t] = ExprBy(WellFormed, t)
  BY <1>1, WellFormedIs
<1>3. /\ t # <<>>
      /\ \/ t[1].type = "NOT" /\ WellFormed[Tail(t)]
         \/ /\ t[1].type = "LP" /\ Len(t) > 2 /\ t[Len(t)].type = "RP"
            /\ WellFormed[SubSeq(t, 2, Len(t) - 1)]
         \/ t[1].type = "NUM" /\ Len(t) = 1
  BY <1>1, <1>2 DEF ExprBy, Legal
<1>4. t[1] \in Token /\ t[1] \in SqlWord /\ t[Len(t)] \in SqlWord /\ 1 \in 1..Len(t)
  <2>1. 1 \in 1..Len(t) /\ Len(t) \in 1..Len(t)
    BY <1>1, <1>3
  <2> QED BY <1>1, <2>1, TokensAreWords
<1>5. ASSUME t[1].type = "NOT", WellFormed[Tail(t)]
      PROVE  \E a : Legal(a) /\ t = <<Tok("NOT")>> \o a /\ Len(a) < Len(t)
  <2>1. Tail(t) \in Seq(Token) /\ Len(Tail(t)) < Len(t)
    BY <1>1, <1>3, Shorter
  <2>2. t[1] = Tok("NOT")
    BY <1>4, <1>5, MarkIs DEF Marks
  <2>3. t = <<t[1]>> \o Tail(t)
    <3>1. t = SubSeq(t, 1, 0) \o <<t[1]>> \o SubSeq(t, 2, Len(t))
      BY <1>1, <1>4, CutAt
    <3>2. SubSeq(t, 1, 0) = <<>> /\ SubSeq(t, 2, Len(t)) = Tail(t)
      BY <1>1, <1>3
    <3>3. <<>> \o <<t[1]>> = <<t[1]>>
      BY <1>4
    <3> QED BY <3>1, <3>2, <3>3
  <2> QED BY <1>5, <2>1, <2>2, <2>3 DEF Legal
<1>6. ASSUME t[1].type = "LP", Len(t) > 2, t[Len(t)].type = "RP", WellFormed[SubSeq(t, 2, Len(t) - 1)]
      PROVE  \E a : Legal(a) /\ t = Paren(a) /\ Len(a) < Len(t)
  <2> DEFINE a == SubSeq(t, 2, Len(t) - 1)
             m == Len(t)
  <2>1. a \in Seq(Token) /\ Len(a) < Len(t)
    BY <1>1, <1>3, Shorter
  <2>2. t[1] = Tok("LP") /\ t[m] = Tok("RP")
    BY <1>4, <1>6, MarkIs DEF Marks
  <2>3. t = SubSeq(t, 1, m - 1) \o <<t[m]>> \o SubSeq(t, m + 1, m)
    <3>1. m \in 1..Len(t)
      BY <1>1, <1>6
    <3> QED BY <1>1, <3>1, CutAt
  <2> DEFINE u == SubSeq(t, 1, m - 1)
  <2>4. u \in Seq(Token) /\ Len(u) = m - 1 /\ SubSeq(t, m + 1, m) = <<>> /\ u[1] = t[1]
    BY <1>1, <1>6
  <2>5. SubSeq(u, 2, Len(u)) = a
    <3>1. Len(u) = m - 1 /\ \A i \in 1..m - 1 : u[i] = t[i]
      BY <1>1, <1>6
    <3>2. SubSeq(u, 2, m - 1) = [i \in 1..(m - 1 - 2 + 1) |-> u[i + 2 - 1]]
      BY <1>1, <1>6, <2>4
    <3>3. a = [i \in 1..(m - 1 - 2 + 1) |-> t[i + 2 - 1]]
      BY <1>1, <1>6
    <3>4. \A i \in 1..(m - 1 - 2 + 1) : i + 2 - 1 \in 1..m - 1
      BY <1>1, <1>6
    <3> HIDE DEF u, a
    <3> QED BY <3>1, <3>2, <3>3, <3>4
  <2>6. u = <<t[1]>> \o a
    <3>1. 1 \in 1..Len(u)
      BY <1>1, <1>6, <2>4
    <3> HIDE DEF u, a
    <3>2. u = SubSeq(u, 1, 1 - 1) \o <<u[1]>> \o SubSeq(u, 1 + 1, Len(u))
      BY <2>4, <3>1, CutAt
    <3>3. SubSeq(u, 1, 0) = <<>> /\ <<>> \o <<u[1]>> = <<u[1]>>
      BY <2>4
    <3> QED BY <2>4, <2>5, <3>2, <3>3
  <2> HIDE DEF u, a
  <2>7. t = (<<t[1]>> \o a) \o <<t[m]>>
    <3>1. u \o <<t[m]>> \in Seq(Token)
      BY <1>1, <1>6, <2>4
    <3>2. (u \o <<t[m]>>) \o <<>> = u \o <<t[m]>>
      BY <3>1
    <3> QED BY <2>3, <2>4, <2>6, <3>2 DEF u
  <2>8. t = Paren(a) /\ Legal(a)
    BY <1>6, <2>1, <2>2, <2>7 DEF Paren, Legal, a
  <2> QED BY <2>1, <2>8
<1>7. ASSUME t[1].type = "NUM", Len(t) = 1
      PROVE  \E v \in Int : t = <<Num(v)>>
  <2>1. t[1].value \in Int /\ t[1] = Num(t[1].value)
    BY <1>4, <1>7 DEF Token, Num
  <2>2. t = << t[1] >>
    BY <1>1, <1>7
  <2> QED BY <2>1, <2>2
<1> QED BY <1>3, <1>5, <1>6, <1>7

\* An expression balances its parentheses, and has a number in it.
Numbers(t) == {i \in DOMAIN t : t[i].type = "NUM"}

LEMMA NumbersOf ==
  ASSUME NEW a \in Seq(Token), NEW b \in Seq(Token)
  PROVE  /\ Numbers(a) # {} => Numbers(a \o b) # {}
         /\ Numbers(b) # {} => Numbers(a \o b) # {}
<1>1. /\ a \o b \in Seq(Token) /\ Len(a \o b) = Len(a) + Len(b) /\ Len(a) \in Nat /\ Len(b) \in Nat
      /\ \A i \in 1..Len(a) + Len(b) : (a \o b)[i] = IF i <= Len(a) THEN a[i] ELSE b[i - Len(a)]
  BY ConcatProperties
<1>2. ASSUME NEW i \in DOMAIN a, a[i].type = "NUM" PROVE i \in Numbers(a \o b)
  <2>1. i \in 1..Len(a) + Len(b) /\ i <= Len(a)
    BY <1>1
  <2> QED BY <1>1, <1>2, <2>1 DEF Numbers
<1>3. ASSUME NEW i \in DOMAIN b, b[i].type = "NUM" PROVE Len(a) + i \in Numbers(a \o b)
  <2>1. Len(a) + i \in 1..Len(a) + Len(b) /\ ~(Len(a) + i <= Len(a)) /\ Len(a) + i - Len(a) = i
    BY <1>1
  <2> QED BY <1>1, <1>3, <2>1 DEF Numbers
<1> QED BY <1>2, <1>3 DEF Numbers

LEMMA LegalBalanced ==
  \A t : Legal(t) => Balanced(t) /\ Numbers(t) # {}
<1> DEFINE G == {k \in Nat : \A t : Legal(t) /\ Len(t) < k => Balanced(t) /\ Numbers(t) # {}}
<1>0. \A t : Legal(t) => t \in Seq(Token) /\ Len(t) \in Nat
  BY DEF Legal
<1>1. 0 \in G
  <2>1. \A t : Legal(t) => ~(Len(t) < 0)
    BY <1>0
  <2> QED BY <2>1
<1>2. ASSUME NEW k \in Nat, k \in G PROVE k + 1 \in G
  <2> SUFFICES ASSUME NEW t, Legal(t), Len(t) < k + 1 PROVE Balanced(t) /\ Numbers(t) # {}
    OBVIOUS
  <2>1. \A u : Legal(u) /\ Len(u) < Len(t) => Balanced(u) /\ Numbers(u) # {}
    <3>1. \A u : Legal(u) /\ Len(u) < Len(t) => Len(u) < k
      BY <1>0
    <3> QED BY <1>2, <3>1
  <2>2. ASSUME NEW type \in {"OR", "AND"}, TopLevel(t, type) # {}, type = "AND" => NoOr(t)
        PROVE  Balanced(t) /\ Numbers(t) # {}
    <3>1. PICK a, b : Severs(type, t, a, b) /\ Left(type, a) /\ Rest(type, b)
      BY <2>1, <2>2, LegalCut
    <3>2. Balanced(a) /\ Balanced(b) /\ t = Infix(a, type, b) /\ a \in Seq(Token) /\ b \in Seq(Token)
          /\ Numbers(a) # {}
      BY <2>1, <3>1 DEF Severs, Left, Rest, Legal
    <3>3. Balanced(t)
      BY <3>2, InfixShape
    <3>4. t = a \o Behind(type, b) /\ Behind(type, b) \in Seq(Token)
      BY <3>2, InfixType DEF Reads
    <3> QED BY <3>2, <3>3, <3>4, NumbersOf
  <2>3. ASSUME NoOr(t), NoAnd(t)
        PROVE  Balanced(t) /\ Numbers(t) # {}
    <3>1. ASSUME NEW a, Legal(a), t = <<Tok("NOT")>> \o a, Len(a) < Len(t)
          PROVE  Balanced(t) /\ Numbers(t) # {}
      <4>1. Balanced(a) /\ a \in Seq(Token) /\ Numbers(a) # {}
        BY <2>1, <3>1 DEF Legal
      <4>2. <<Tok("NOT")>> \in Seq(Token)
        BY MarkOf DEF Marks
      <4> QED BY <3>1, <4>1, <4>2, NotShape, NumbersOf
    <3>2. ASSUME NEW a, Legal(a), t = Paren(a), Len(a) < Len(t)
          PROVE  Balanced(t) /\ Numbers(t) # {}
      <4>1. Balanced(a) /\ a \in Seq(Token) /\ Numbers(a) # {}
        BY <2>1, <3>2 DEF Legal
      <4>2. <<Tok("LP")>> \in Seq(Token) /\ <<Tok("RP")>> \in Seq(Token)
        BY MarkOf DEF Marks
      <4> DEFINE x == <<Tok("LP")>>
                 y == <<Tok("RP")>>
      <4>3. t = (x \o a) \o y
        BY <3>2 DEF Paren
      <4> HIDE DEF x, y
      <4>4. x \o a \in Seq(Token) /\ Numbers(x \o a) # {}
        BY <4>1, <4>2, NumbersOf, ConcatProperties DEF x, y
      <4>5. Numbers(t) # {}
        BY <4>2, <4>3, <4>4, NumbersOf DEF x, y
      <4> QED BY <3>2, <4>1, <4>5, ParenShape
    <3>3. ASSUME NEW v \in Int, t = <<Num(v)>>
          PROVE  Balanced(t) /\ Numbers(t) # {}
      <4>1. Num(v) \in Token /\ Num(v) \in SqlWord /\ Num(v).type = "NUM"
        BY NumIs, TokensAreWords
      <4>2. 1 \in DOMAIN t /\ t[1] = Num(v)
        BY <3>3
      <4> QED BY <3>3, <4>1, <4>2, SingleShape DEF Shaping, Numbers
    <3> QED BY <2>3, <3>1, <3>2, <3>3, LegalUnary
  <2> QED BY <2>2, <2>3 DEF NoOr, NoAnd
<1> HIDE DEF G
<1>3. \A n \in Nat : n \in G
  BY <1>1, <1>2, SetInduction
<1>4. ASSUME NEW t, Legal(t) PROVE Balanced(t) /\ Numbers(t) # {}
  <2>1. Len(t) + 1 \in G /\ Len(t) < Len(t) + 1
    BY <1>0, <1>3, <1>4
  <2> QED BY <1>4, <2>1 DEF G
<1> QED BY <1>4

\* The rest of a series is one item, or an item and the rest after it.
LEMMA LegalSplit ==
  ASSUME NEW type \in {"OR", "AND"}, NEW t, Legal(t), Rest(type, t)
  PROVE  \/ Left(type, t)
         \/ \E a, b : Severs(type, t, a, b) /\ Left(type, a) /\ Rest(type, b)
<1>1. \A u : Legal(u) /\ Len(u) < Len(t) => Balanced(u)
  BY LegalBalanced
<1>2. CASE TopLevel(t, type) # {}
  BY <1>1, <1>2, LegalCut DEF Rest
<1>3. CASE TopLevel(t, type) = {}
  BY <1>3 DEF Rest, Left, NoOr, NoAnd
<1> QED BY <1>2, <1>3

\* What a factor is.
LEMMA LegalPlain ==
  ASSUME NEW t, Legal(t), Plain(t)
  PROVE  \/ \E a : Legal(a) /\ Plain(a) /\ t = <<Tok("NOT")>> \o a /\ Len(a) < Len(t)
         \/ \E a : Legal(a) /\ Balanced(a) /\ t = Paren(a) /\ Len(a) < Len(t)
         \/ \E v \in Int : t = <<Num(v)>>
<1>1. ASSUME NEW a, Legal(a), t = <<Tok("NOT")>> \o a
      PROVE  Plain(a)
  <2> DEFINE x == Tok("NOT")
  <2>1. a \in Seq(SqlWord) /\ x \in SqlWord /\ Delta(x) = 0 /\ Len(a) \in Nat
    BY <1>1, TokensAreWords DEF Legal, SqlWord, Token, Tok, Delta
  <2> HIDE DEF x
  <2>2. /\ Len(t) = Len(a) + 1 /\ t \in Seq(SqlWord)
        /\ \A i \in 1..Len(a) : t[i + 1] = a[i]
        /\ \A i \in 0..Len(a) : Depth(t, i + 1) = 0 + Depth(a, i)
    BY <1>1, <2>1, Prefixed DEF x
  <2>3. ASSUME NEW i \in DOMAIN a
        PROVE  i + 1 \in DOMAIN t /\ t[i + 1] = a[i] /\ Depth(t, i + 1) = Depth(a, i)
    <3>1. i \in 1..Len(a) /\ i \in 0..Len(a) /\ i \in Nat
      BY <2>1
    <3>2. Depth(a, i) \in Int
      BY <3>1, DepthStep
    <3> QED BY <2>1, <2>2, <3>1, <3>2
  <2>4. NoOr(a) /\ NoAnd(a)
    BY <2>3 DEF Plain, NoOr, NoAnd, TopLevel
  <2> QED BY <1>1, <2>4, LegalBalanced DEF Plain
<1>2. \A a : Legal(a) => Balanced(a)
  BY LegalBalanced
<1>3. NoOr(t) /\ NoAnd(t)
  BY DEF Plain
<1>4. CASE \E a : Legal(a) /\ t = <<Tok("NOT")>> \o a /\ Len(a) < Len(t)
  BY <1>1, <1>4
<1>5. CASE \E a : Legal(a) /\ t = Paren(a) /\ Len(a) < Len(t)
  BY <1>2, <1>5
<1> QED BY <1>3, <1>4, <1>5, LegalUnary

\* The four ways of making an expression.
LEMMA LegalInfix ==
  ASSUME NEW type \in {"OR", "AND"}, NEW a, NEW b, Legal(a), Legal(b), Left(type, a), Rest(type, b)
  PROVE  Legal(Infix(a, type, b))
<1> DEFINE x == Tok(type)
           w == Infix(a, type, b)
           n == Len(a) + 1
<1>0. a \in Seq(Token) /\ b \in Seq(Token) /\ Balanced(a) /\ Balanced(b)
  BY DEF Legal, Left, Rest
<1>1. x \in SqlWord /\ x.type = type
  BY MarkOf DEF Marks
<1>2. w \in Seq(Token)
  BY <1>0, InfixType
<1>p. Parts(w, n, a, x, b)
  BY <1>0, <1>1, JoinedShape DEF Infix
<1> HIDE DEF w, n, x
<1>3. /\ Balanced(w) /\ n \in DOMAIN w /\ w[n] = x /\ Depth(w, n) = 0
      /\ SubSeq(w, 1, n - 1) = a /\ SubSeq(w, n + 1, Len(w)) = b
      /\ \A i \in DOMAIN w :
           /\ i < n => i \in DOMAIN a /\ w[i] = a[i] /\ Depth(w, i) = Depth(a, i)
           /\ n < i => i - n \in DOMAIN b /\ w[i] = b[i - n] /\ Depth(w, i) = Depth(b, i - n)
  BY <1>p DEF Parts
<1>4. TopLevel(w, type) \subseteq Nat /\ n \in TopLevel(w, type) /\ n \in Nat
  BY <1>1, <1>2, <1>3 DEF TopLevel
<1>5. \A i \in TopLevel(w, type) : ~(i < n)
  <2>1. TopLevel(a, type) = {}
    BY DEF Left, NoOr, NoAnd
  <2> QED BY <1>3, <2>1 DEF TopLevel
<1>6. Least(TopLevel(w, type)) = n
  BY <1>4, <1>5, LeastIs
<1>7. ASSUME type = "AND" PROVE TopLevel(w, "OR") = {}
  <2> SUFFICES ASSUME NEW i \in DOMAIN w, w[i].type = "OR", Depth(w, i) = 0 PROVE FALSE
    BY DEF TopLevel
  <2>1. i # n
    BY <1>1, <1>3, <1>7
  <2>2. i < n \/ n < i
    BY <1>2, <1>4, <2>1
  <2>3. NoOr(a) /\ NoOr(b)
    BY <1>7 DEF Left, Rest
  <2> QED BY <1>3, <2>2, <2>3 DEF TopLevel, NoOr
<1>8. (IF TopLevel(w, "OR") # {} THEN TopLevel(w, "OR") ELSE TopLevel(w, "AND")) = TopLevel(w, type)
  BY <1>4, <1>7
<1>9. TopLevel(w, "OR") \cup TopLevel(w, "AND") # {}
  BY <1>4
<1>10. ExprBy(WellFormed, w) = (WellFormed[SubSeq(w, 1, n - 1)] /\ WellFormed[SubSeq(w, n + 1, Len(w))])
  BY <1>6, <1>8, <1>9 DEF ExprBy
<1>11. WellFormed[w]
  BY <1>2, <1>3, <1>10, WellFormedIs DEF Legal
<1> QED BY <1>2, <1>11 DEF Legal, w

LEMMA LegalNot ==
  ASSUME NEW a, Legal(a), Plain(a)
  PROVE  Legal(<<Tok("NOT")>> \o a)
<1> DEFINE x == Tok("NOT")
           w == <<x>> \o a
<1>1. x \in Token /\ a \in Seq(Token)
  BY MarkOf DEF Marks, Legal
<1>2. Balanced(w) /\ w[1].type = "NOT" /\ Tail(w) = a /\ NoOr(w) /\ NoAnd(w)
  BY NotShape DEF Plain
<1> HIDE DEF x
<1>3. w \in Seq(Token)
  BY <1>1, ConcatProperties
<1> HIDE DEF w
<1>4. w # <<>> /\ TopLevel(w, "OR") = {} /\ TopLevel(w, "AND") = {}
  BY <1>2 DEF Balanced, NoOr, NoAnd
<1>5. ExprBy(WellFormed, w)
  BY <1>2, <1>4 DEF ExprBy, Legal
<1>6. WellFormed[w]
  BY <1>3, <1>5, WellFormedIs
<1> QED BY <1>3, <1>6 DEF Legal, w, x

LEMMA LegalParen ==
  ASSUME NEW a, Legal(a)
  PROVE  Legal(Paren(a))
<1> DEFINE w == Paren(a)
           x == <<Tok("LP")>>
           y == <<Tok("RP")>>
<1>0. Balanced(a) /\ a \in Seq(Token)
  BY LegalBalanced DEF Legal
<1>1. /\ Balanced(w) /\ NoOr(w) /\ NoAnd(w)
      /\ w[1].type = "LP" /\ SubSeq(w, 2, Len(w) - 1) = a
  BY <1>0, ParenShape
<1>2. w \in Seq(Token)
  BY <1>0, ConcatProperties DEF Paren, Tok, Token
<1>3. Len(w) = Len(a) + 2 /\ w[Len(w)].type = "RP"
  <2>1. x \in Seq(Token) /\ Len(x) = 1 /\ y \in Seq(Token) /\ Len(y) = 1 /\ y[1].type = "RP"
    <3>1. Tok("LP") \in Token /\ Tok("RP") \in Token /\ Tok("RP").type = "RP"
      BY MarkOf DEF Marks
    <3> QED BY <3>1
  <2>2. w = (x \o a) \o y
    BY DEF Paren
  <2> HIDE DEF w, x, y
  <2>3. x \o a \in Seq(Token) /\ Len(x \o a) = 1 + Len(a)
    BY <1>0, <2>1, ConcatProperties
  <2> DEFINE u == x \o a
  <2> HIDE DEF u
  <2>4. u \in Seq(Token) /\ Len(u) = 1 + Len(a) /\ w = u \o y /\ Len(a) \in Nat
    BY <1>0, <2>2, <2>3 DEF u
  <2>5. Len(u \o y) = Len(u) + 1 /\ \A i \in 1..Len(u) + 1 : (u \o y)[i] = IF i <= Len(u) THEN u[i] ELSE y[i - Len(u)]
    <3>1. Len(y) = 1 /\ y \in Seq(Token) /\ u \in Seq(Token)
      BY <2>1, <2>4
    <3>2. Len(u \o y) = Len(u) + Len(y)
          /\ \A i \in 1..Len(u) + Len(y) : (u \o y)[i] = IF i <= Len(u) THEN u[i] ELSE y[i - Len(u)]
      BY <3>1, ConcatProperties
    <3> QED BY <3>1, <3>2
  <2>6. Len(u) + 1 \in 1..Len(u) + 1 /\ ~(Len(u) + 1 <= Len(u)) /\ Len(u) + 1 - Len(u) = 1
    BY <2>4
  <2>7. w[Len(u) + 1] = y[1]
    BY <2>4, <2>5, <2>6
  <2>8. Len(w) = Len(u) + 1 /\ Len(u) + 1 = Len(a) + 2
    BY <2>4, <2>5
  <2> QED BY <2>1, <2>7, <2>8
<1>4. Len(w) > 2
  <2>1. Len(a) \in Nat /\ a # <<>>
    BY <1>0 DEF Balanced
  <2>2. Len(a) # 0
    BY <1>0, <2>1
  <2> HIDE DEF w
  <2> QED BY <1>3, <2>1, <2>2
<1> HIDE DEF w
<1>5. w # <<>> /\ TopLevel(w, "OR") = {} /\ TopLevel(w, "AND") = {}
  BY <1>1 DEF Balanced, NoOr, NoAnd
<1>6. ExprBy(WellFormed, w)
  BY <1>1, <1>3, <1>4, <1>5 DEF ExprBy, Legal
<1>7. WellFormed[w]
  BY <1>2, <1>6, WellFormedIs
<1> QED BY <1>2, <1>7 DEF Legal, w

LEMMA LegalNum ==
  ASSUME NEW x \in Token, x.type = "NUM"
  PROVE  Legal(<<x>>)
<1>1. x \in SqlWord /\ <<x>> \in Seq(Token) /\ <<x>>[1] = x /\ <<x>> # <<>> /\ Len(<<x>>) = 1
  BY TokensAreWords
<1>2. TopLevel(<<x>>, "OR") = {} /\ TopLevel(<<x>>, "AND") = {}
  BY <1>1, SingleShape DEF Shaping, NoOr, NoAnd
<1>3. ExprBy(WellFormed, <<x>>)
  BY <1>1, <1>2 DEF ExprBy
<1>4. WellFormed[<<x>>]
  BY <1>1, <1>3, WellFormedIs
<1> QED BY <1>1, <1>4 DEF Legal

\* An expression over conditions: every number in it names one that can be read.
Fine(conds, t) ==
  \A i \in DOMAIN t : t[i].type = "NUM" =>
    t[i].value \in 1..Len(conds) /\ buildClause(conds[t[i].value]) # Rejected
Readable(conds, t) == Legal(t) /\ Fine(conds, t)

LEMMA FineParts ==
  ASSUME NEW conds, NEW a \in Seq(Token), NEW b \in Seq(Token)
  PROVE  Fine(conds, a \o b) <=> Fine(conds, a) /\ Fine(conds, b)
<1>1. /\ a \o b \in Seq(Token) /\ Len(a \o b) = Len(a) + Len(b) /\ Len(a) \in Nat /\ Len(b) \in Nat
      /\ \A i \in 1..Len(a) + Len(b) : (a \o b)[i] = IF i <= Len(a) THEN a[i] ELSE b[i - Len(a)]
  BY ConcatProperties
<1> DEFINE c == a \o b
           P(x) == x.type = "NUM" => x.value \in 1..Len(conds) /\ buildClause(conds[x.value]) # Rejected
<1>2. DOMAIN a = 1..Len(a) /\ DOMAIN b = 1..Len(b) /\ DOMAIN c = 1..Len(a) + Len(b)
  BY <1>1
<1>3. \A t : Fine(conds, t) <=> \A i \in DOMAIN t : P(t[i])
  BY DEF Fine
<1> HIDE DEF c, P
<1>4. ASSUME \A i \in DOMAIN c : P(c[i]) PROVE (\A i \in DOMAIN a : P(a[i])) /\ \A i \in DOMAIN b : P(b[i])
  <2>1. ASSUME NEW i \in DOMAIN a PROVE P(a[i])
    <3>1. i \in DOMAIN c /\ i <= Len(a) /\ c[i] = a[i]
      BY <1>1, <1>2, <2>1 DEF c
    <3> QED BY <1>4, <3>1
  <2>2. ASSUME NEW i \in DOMAIN b PROVE P(b[i])
    <3>1. Len(a) + i \in DOMAIN c /\ c[Len(a) + i] = b[i]
      <4>1. Len(a) + i \in 1..Len(a) + Len(b) /\ ~(Len(a) + i <= Len(a)) /\ Len(a) + i - Len(a) = i
        BY <1>1, <1>2, <2>2
      <4> QED BY <1>1, <1>2, <4>1 DEF c
    <3> QED BY <1>4, <3>1
  <2> QED BY <2>1, <2>2
<1>5. ASSUME \A i \in DOMAIN a : P(a[i]), \A i \in DOMAIN b : P(b[i]), NEW i \in DOMAIN c
      PROVE  P(c[i])
  <2>1. CASE i <= Len(a)
    <3>1. i \in DOMAIN a /\ c[i] = a[i]
      BY <1>1, <1>2, <1>5, <2>1 DEF c
    <3> QED BY <1>5, <3>1
  <2>2. CASE ~(i <= Len(a))
    <3>1. i - Len(a) \in DOMAIN b /\ c[i] = b[i - Len(a)]
      BY <1>1, <1>2, <1>5, <2>2 DEF c
    <3> QED BY <1>5, <3>1
  <2> QED BY <2>1, <2>2
<1> QED BY <1>3, <1>4, <1>5 DEF c

LEMMA FineMark ==
  ASSUME NEW conds, NEW type \in Marks
  PROVE  Fine(conds, <<Tok(type)>>) /\ <<Tok(type)>> \in Seq(Token)
<1>1. Tok(type) \in Token /\ Tok(type).type # "NUM"
  BY MarkOf DEF Marks
<1> QED BY <1>1 DEF Fine

LEMMA FineOf ==
  ASSUME NEW conds, NEW a \in Seq(Token), NEW b \in Seq(Token)
  PROVE  /\ \A type \in {"OR", "AND"} : Fine(conds, Infix(a, type, b)) <=> Fine(conds, a) /\ Fine(conds, b)
         /\ Fine(conds, <<Tok("NOT")>> \o a) <=> Fine(conds, a)
         /\ Fine(conds, Paren(a)) <=> Fine(conds, a)
<1>1. ASSUME NEW type \in {"OR", "AND"}
      PROVE  Fine(conds, Infix(a, type, b)) <=> Fine(conds, a) /\ Fine(conds, b)
  <2> DEFINE x == <<Tok(type)>>
  <2>1. x \in Seq(Token) /\ Fine(conds, x)
    BY FineMark DEF Marks
  <2> HIDE DEF x
  <2>2. x \o b \in Seq(Token) /\ (Fine(conds, x \o b) <=> Fine(conds, b))
    BY <2>1, FineParts, ConcatProperties
  <2>3. Infix(a, type, b) = a \o (x \o b)
    BY InfixType DEF Reads, Behind, x
  <2> QED BY <2>2, <2>3, FineParts
<1>2. Fine(conds, <<Tok("NOT")>> \o a) <=> Fine(conds, a)
  BY FineMark, FineParts DEF Marks
<1>3. Fine(conds, Paren(a)) <=> Fine(conds, a)
  <2> DEFINE x == <<Tok("LP")>>
             y == <<Tok("RP")>>
  <2>1. x \in Seq(Token) /\ Fine(conds, x) /\ y \in Seq(Token) /\ Fine(conds, y)
    BY FineMark DEF Marks
  <2>2. Paren(a) = (x \o a) \o y
    BY DEF Paren
  <2> HIDE DEF x, y
  <2> DEFINE z == x \o a
  <2>3. z \in Seq(Token) /\ (Fine(conds, z) <=> Fine(conds, a)) /\ Paren(a) = z \o y
    BY <2>1, <2>2, FineParts, ConcatProperties
  <2> HIDE DEF z
  <2> QED BY <2>1, <2>3, FineParts
<1> QED BY <1>1, <1>2, <1>3

LEMMA ReadableOf ==
  ASSUME NEW conds, NEW a, Readable(conds, a)
  PROVE  /\ \A type \in {"OR", "AND"} : \A b :
              Readable(conds, b) /\ Left(type, a) /\ Rest(type, b) => Readable(conds, Infix(a, type, b))
         /\ Plain(a) => Readable(conds, <<Tok("NOT")>> \o a)
         /\ Readable(conds, Paren(a))
<1>1. Legal(a) /\ Fine(conds, a) /\ a \in Seq(Token)
  BY DEF Readable, Legal
<1>2. ASSUME NEW type \in {"OR", "AND"}, NEW b, Readable(conds, b), Left(type, a), Rest(type, b)
      PROVE  Readable(conds, Infix(a, type, b))
  <2>1. Legal(b) /\ Fine(conds, b) /\ b \in Seq(Token)
    BY <1>2 DEF Readable, Legal
  <2> QED BY <1>1, <1>2, <2>1, LegalInfix, FineOf DEF Readable
<1>3. Plain(a) => Readable(conds, <<Tok("NOT")>> \o a)
  BY <1>1, LegalNot, FineOf DEF Readable
<1>4. Readable(conds, Paren(a))
  BY <1>1, LegalParen, FineOf DEF Readable
<1> QED BY <1>2, <1>3, <1>4

-----------------------------------------------------------------------------
(* What a rule has read, and what it wrote for it.                          *)

Means(s, p, c) ==
  /\ Readable(s.conds, c)
  /\ \A Q, r : Agree(Q, s.offset, p.params) =>
       Of(Row(Q, r), p.sql) = Of(Chosen(s.conds, r), c) /\ Of(Row(Q, r), p.sql) \in Three
Wrote(s, p, c) ==
  c \in Seq(Token) /\ Reads(s.rest, c, p.rest) /\ Extends(p, s) /\ Plain(p.sql)
ReadFactor(s, p) == \E c : Wrote(s, p, c) /\ Plain(c) /\ Means(s, p, c)
ReadTerm(s, p) == \E c : Wrote(s, p, c) /\ Balanced(c) /\ NoOr(c) /\ Means(s, p, c)
ReadExpr(s, p) == \E c : Wrote(s, p, c) /\ Balanced(c) /\ Means(s, p, c)
\* An item before an operator, the items after it, and both.
Item(type, s, p) == \E c : Wrote(s, p, c) /\ Left(type, c) /\ Means(s, p, c)
Series(type, s, p) == \E c : Wrote(s, p, c) /\ Rest(type, c) /\ Means(s, p, c)
More(type, s, p, d) ==
  /\ d \in Seq(Token) /\ Wrote(s, p, Behind(type, d)) /\ Rest(type, d) /\ Readable(s.conds, d)
  /\ \A Q, r : Agree(Q, s.offset, p.params) =>
       /\ Of(Chosen(s.conds, r), d) \in Three
       /\ Of(Row(Q, r), p.sql) = Both(type, Of(Row(Q, r), s.sql), Of(Chosen(s.conds, r), d))
Loop(type, s, p) == p = s \/ \E d : More(type, s, p, d)

Sane(s) == \A Q, r : Agree(Q, s.offset, s.params) => Of(Row(Q, r), s.sql) \in Three

LEMMA ItemThenLoop ==
  ASSUME NEW type \in {"OR", "AND"}, NEW s \in ParserState, NEW f, NEW p,
         Item(type, s, f), Loop(type, f, p)
  PROVE  Series(type, s, p)
<1>1. PICK c : Wrote(s, f, c) /\ Left(type, c) /\ Means(s, f, c)
  BY DEF Item
<1>2. f \in ParserState /\ Extends(f, s) /\ c \in Seq(Token)
  BY <1>1 DEF Wrote, Extends
<1>3. CASE p = f
  BY <1>1, <1>3 DEF Series, Left, Rest
<1>4. CASE p # f
  <2>1. PICK d : More(type, f, p, d)
    BY <1>4 DEF Loop
  <2>2. d \in Seq(Token) /\ p \in ParserState /\ Extends(p, f) /\ Plain(p.sql) /\ Rest(type, d)
        /\ Reads(f.rest, Behind(type, d), p.rest)
    BY <2>1 DEF More, Wrote, Extends
  <2> DEFINE e == Infix(c, type, d)
  <2>3. /\ e \in Seq(Token) /\ Behind(type, d) \in Seq(Token) /\ p.rest \in Seq(Token)
        /\ Reads(e, c, Behind(type, d))
    BY <1>2, <2>2, InfixType DEF ParserState
  <2>5. Reads(s.rest, e, p.rest)
    <3>1. Reads(s.rest, c, f.rest)
      BY <1>1 DEF Wrote
    <3> HIDE DEF e
    <3> QED BY <1>2, <2>2, <2>3, <3>1, ReadsOn
  <2>6. Extends(p, s)
    BY <1>2, <2>2, ExtendsTwice
  <2>7. Rest(type, e)
    BY <1>1, <2>2, InfixShape DEF Left, Rest
  <2>8. ASSUME NEW Q, NEW r, Agree(Q, s.offset, p.params)
        PROVE  Of(Row(Q, r), p.sql) = Of(Chosen(s.conds, r), e) /\ Of(Row(Q, r), p.sql) \in Three
    <3> DEFINE h == Row(Q, r)
               g == Chosen(s.conds, r)
    <3>1. f.conds = s.conds /\ f.offset = s.offset /\ p.offset = s.offset
      BY <1>2, <2>6 DEF Extends
    <3>2. Agree(Q, s.offset, f.params) /\ Agree(Q, f.offset, p.params)
      BY <1>2, <2>2, <2>8, <3>1, AgreeBefore
    <3>3. Of(h, f.sql) = Of(g, c) /\ Of(h, f.sql) \in Three
      BY <1>1, <3>2 DEF Means
    <3>4. Of(h, p.sql) = Both(type, Of(h, f.sql), Of(g, d)) /\ Of(g, d) \in Three
      BY <2>1, <3>1, <3>2 DEF More
    <3>5. Of(g, e) = Both(type, Of(g, c), Of(g, d))
      BY <1>1, <2>2, ChosenReads, OfInfix
    <3> HIDE DEF h, g, e
    <3>6. Of(h, p.sql) = Of(g, e)
      BY <3>3, <3>4, <3>5
    <3>7. Of(h, p.sql) \in Three
      BY <3>3, <3>4, BothIs
    <3> QED BY <3>6, <3>7 DEF h, g
  <2>r. Readable(s.conds, e)
    <3>1. Readable(s.conds, c) /\ Readable(s.conds, d)
      BY <1>1, <1>2, <2>1 DEF Means, More, Extends
    <3> QED BY <1>1, <2>2, <3>1, ReadableOf
  <2>9. Wrote(s, p, e) /\ Means(s, p, e)
    BY <2>2, <2>3, <2>5, <2>6, <2>8, <2>r DEF Wrote, Means
  <2> QED BY <2>7, <2>9 DEF Series
<1> QED BY <1>3, <1>4

LEMMA EatReads ==
  ASSUME NEW s \in ParserState, NEW type \in Marks, At(s, type)
  PROVE  /\ Eat(s) \in ParserState /\ Extends(Eat(s), s)
         /\ <<Tok(type)>> \in Seq(Token) /\ Reads(s.rest, <<Tok(type)>>, Eat(s).rest)
<1>1. s.rest # <<>> /\ Head(s.rest).type = type
  BY DEF At
<1>2. Eat(s) \in ParserState /\ Eat(s).conds = s.conds /\ Eat(s).offset = s.offset
      /\ Eat(s).params = s.params /\ s.rest = <<Head(s.rest)>> \o Eat(s).rest /\ Head(s.rest) \in Token
  BY <1>1, EatType
<1>3. Head(s.rest) = Tok(type)
  <2>1. Head(s.rest) \in SqlWord
    BY <1>2, TokensAreWords
  <2> QED BY <1>1, <2>1, MarkIs
<1>4. Extends(Eat(s), s)
  <2>1. Extends(s, s)
    BY ExtendsItself
  <2> QED BY <1>2, <2>1 DEF Extends
<1>5. <<Tok(type)>> \in Seq(Token)
  <2>1. Tok(type) \in Token
    BY MarkOf
  <2> QED BY <2>1
<1> QED BY <1>2, <1>3, <1>4, <1>5 DEF Reads

\* The same state with other words written.
LEMMA Rewritten ==
  ASSUME NEW s \in ParserState, NEW p, Extends(p, s), NEW w \in Seq(SqlWord)
  PROVE  LET q == [p EXCEPT !.sql = w]
         IN q \in ParserState /\ Extends(q, s) /\ q.rest = p.rest /\ q.sql = w
            /\ q.params = p.params /\ q.offset = p.offset /\ q.conds = p.conds /\ q.bad = p.bad
<1>1. p \in ParserState
  BY DEF Extends
<1> DEFINE q == [p EXCEPT !.sql = w]
<1>2. q \in ParserState /\ q.rest = p.rest /\ q.sql = w
      /\ q.params = p.params /\ q.offset = p.offset /\ q.conds = p.conds /\ q.bad = p.bad
  BY <1>1, WithSql
<1> HIDE DEF q
<1>3. Extends(q, s)
  BY <1>2 DEF Extends
<1> QED BY <1>2, <1>3 DEF q

-----------------------------------------------------------------------------
(* One turn of a loop.                                                      *)

LEMMA MoreOne ==
  ASSUME NEW type \in {"OR", "AND"}, NEW s \in ParserState, Plain(s.sql), At(s, type),
         NEW t, Item(type, Eat(s), t)
  PROVE  \E c : More(type, s, Joined(s, type, t), c) /\ Left(type, c)
<1> DEFINE u == Eat(s)
           j == Joined(s, type, t)
           x == <<Tok(type)>>
<1>1. u \in ParserState /\ Extends(u, s) /\ x \in Seq(Token) /\ Reads(s.rest, x, u.rest)
  BY EatReads DEF Marks
<1>2. PICK c : Wrote(u, t, c) /\ Left(type, c) /\ Means(u, t, c)
  BY DEF Item
<1>3. c \in Seq(Token) /\ t \in ParserState /\ Extends(t, u) /\ Plain(t.sql) /\ Reads(u.rest, c, t.rest)
  BY <1>2 DEF Wrote, Extends
<1>4. Extends(t, s)
  BY <1>1, <1>3, ExtendsTwice
<1> DEFINE i == Infix(s.sql, type, t.sql)
<1>5. /\ Balanced(i) /\ Plain(Paren(i)) /\ Balanced(s.sql) /\ Balanced(t.sql)
      /\ Left(type, s.sql) /\ Rest(type, t.sql)
  BY <1>3, InfixShape DEF Plain, Left, Rest
<1>6. j = [t EXCEPT !.sql = Paren(i)] /\ Paren(i) \in Seq(SqlWord)
  BY <1>3, <1>5, JoinedType DEF Infix, Plain, Balanced
<1>7. j \in ParserState /\ Extends(j, s) /\ j.rest = t.rest /\ j.sql = Paren(i) /\ j.params = t.params
  BY <1>4, <1>6, Rewritten
<1>8. Rest(type, c)
  BY <1>2 DEF Left, Rest
<1>9. Wrote(s, j, Behind(type, c))
  <2>1. Reads(Behind(type, c), x, c)
    BY DEF Behind, Reads
  <2>2. t.rest \in Seq(Token)
    BY <1>3 DEF ParserState
  <2>3. Reads(s.rest, Behind(type, c), t.rest)
    <3> HIDE DEF x, u
    <3> QED BY <1>1, <1>3, <2>1, <2>2, ReadsOn
  <2>4. Behind(type, c) \in Seq(Token)
    BY <1>3, InfixType
  <2> QED BY <1>5, <1>7, <2>3, <2>4 DEF Wrote
<1>10. ASSUME NEW Q, NEW r, Agree(Q, s.offset, j.params)
       PROVE  /\ Of(Chosen(s.conds, r), c) \in Three
              /\ Of(Row(Q, r), j.sql) = Both(type, Of(Row(Q, r), s.sql), Of(Chosen(s.conds, r), c))
  <2> DEFINE h == Row(Q, r)
             g == Chosen(s.conds, r)
  <2>1. u.conds = s.conds /\ u.offset = s.offset
    BY <1>1 DEF Extends
  <2>2. Of(h, t.sql) = Of(g, c) /\ Of(h, t.sql) \in Three
    BY <1>2, <1>7, <1>10, <2>1 DEF Means
  <2>3. Reading(h)
    BY RowReads
  <2>4. Of(h, Paren(i)) = Of(h, i)
    BY <1>5, <2>3, OfParen
  <2>5. Of(h, i) = Both(type, Of(h, s.sql), Of(h, t.sql))
    BY <1>5, <2>3, OfInfix
  <2> QED BY <1>7, <2>2, <2>4, <2>5
<1>r. Readable(s.conds, c)
  BY <1>1, <1>2 DEF Means, Extends
<1> QED BY <1>2, <1>3, <1>8, <1>9, <1>10, <1>r DEF More

LEMMA MoreThenLoop ==
  ASSUME NEW type \in {"OR", "AND"}, NEW s \in ParserState, Sane(s), NEW j, NEW c, More(type, s, j, c), Left(type, c),
         NEW p, Loop(type, j, p)
  PROVE  Loop(type, s, p)
<1>1. CASE p = j
  BY <1>1 DEF Loop
<1>2. CASE p # j
  <2>1. PICK d : More(type, j, p, d)
    BY <1>2 DEF Loop
  <2>2. /\ c \in Seq(Token) /\ j \in ParserState /\ Extends(j, s) /\ Rest(type, c)
        /\ Reads(s.rest, Behind(type, c), j.rest)
    BY DEF More, Wrote, Extends
  <2>3. /\ d \in Seq(Token) /\ p \in ParserState /\ Extends(p, j) /\ Plain(p.sql) /\ Rest(type, d)
        /\ Reads(j.rest, Behind(type, d), p.rest)
    BY <2>1 DEF More, Wrote, Extends
  <2> DEFINE e == Infix(c, type, d)
  <2>4. /\ e \in Seq(Token) /\ Behind(type, e) \in Seq(Token) /\ Behind(type, c) \in Seq(Token)
        /\ Behind(type, d) \in Seq(Token) /\ Reads(Behind(type, e), Behind(type, c), Behind(type, d))
    BY <2>2, <2>3, InfixType
  <2>5. Reads(s.rest, Behind(type, e), p.rest)
    <3>1. p.rest \in Seq(Token)
      BY <2>3 DEF ParserState
    <3> HIDE DEF e
    <3> QED BY <2>2, <2>3, <2>4, <3>1, ReadsOn
  <2>6. Extends(p, s)
    BY <2>2, <2>3, ExtendsTwice
  <2>7. Rest(type, e)
    BY <2>2, <2>3, InfixShape DEF Left, Rest
  <2>8. ASSUME NEW Q, NEW r, Agree(Q, s.offset, p.params)
        PROVE  /\ Of(Chosen(s.conds, r), e) \in Three
               /\ Of(Row(Q, r), p.sql) = Both(type, Of(Row(Q, r), s.sql), Of(Chosen(s.conds, r), e))
    <3> DEFINE h == Row(Q, r)
               g == Chosen(s.conds, r)
    <3>1. j.conds = s.conds /\ j.offset = s.offset /\ p.offset = s.offset
      BY <2>2, <2>6 DEF Extends
    <3>2. Agree(Q, s.offset, j.params) /\ Agree(Q, s.offset, s.params)
      <4>1. Agree(Q, s.offset, j.params)
        BY <2>2, <2>3, <2>8, <3>1, AgreeBefore
      <4> QED BY <2>2, <3>1, <4>1, AgreeBefore
    <3>3. Of(h, s.sql) \in Three
      BY <3>2 DEF Sane
    <3>4. Of(h, j.sql) = Both(type, Of(h, s.sql), Of(g, c)) /\ Of(g, c) \in Three
      BY <3>2 DEF More
    <3>5. Of(h, p.sql) = Both(type, Of(h, j.sql), Of(g, d)) /\ Of(g, d) \in Three
      BY <2>1, <2>8, <3>1 DEF More
    <3>6. Of(g, e) = Both(type, Of(g, c), Of(g, d))
      BY <2>2, <2>3, ChosenReads, OfInfix
    <3> HIDE DEF h, g, e
    <3>7. Of(g, e) \in Three /\ Both(type, Both(type, Of(h, s.sql), Of(g, c)), Of(g, d))
                                = Both(type, Of(h, s.sql), Both(type, Of(g, c), Of(g, d)))
      BY <3>3, <3>4, <3>5, <3>6, BothIs
    <3>8. Of(h, p.sql) = Both(type, Of(h, s.sql), Of(g, e))
      BY <3>4, <3>5, <3>6, <3>7
    <3> QED BY <3>7, <3>8 DEF h, g
  <2>9. Wrote(s, p, Behind(type, e))
    BY <2>3, <2>4, <2>5, <2>6 DEF Wrote
  <2>r. Readable(s.conds, e)
    <3>1. Readable(s.conds, c) /\ Readable(s.conds, d)
      BY <2>1, <2>2 DEF More, Extends
    <3> QED BY <2>2, <2>3, <3>1, ReadableOf
  <2> QED BY <2>4, <2>7, <2>8, <2>9, <2>r DEF Loop, More
<1> QED BY <1>1, <1>2

-----------------------------------------------------------------------------
(* What a factor may be.                                                    *)

LEMMA NotGo ==
  ASSUME NEW s \in ParserState, At(s, "NOT"), NEW t, ReadFactor(Eat(s), t)
  PROVE  ReadFactor(s, Negated(t))
<1> DEFINE u == Eat(s)
           x == <<Tok("NOT")>>
           p == Negated(t)
<1>1. u \in ParserState /\ Extends(u, s) /\ x \in Seq(Token) /\ Reads(s.rest, x, u.rest)
  BY EatReads DEF Marks
<1>2. PICK c : Wrote(u, t, c) /\ Plain(c) /\ Means(u, t, c)
  BY DEF ReadFactor
<1>3. c \in Seq(Token) /\ t \in ParserState /\ Extends(t, u) /\ Plain(t.sql) /\ Reads(u.rest, c, t.rest)
  BY <1>2 DEF Wrote, Extends
<1>4. Extends(t, s)
  BY <1>1, <1>3, ExtendsTwice
<1> DEFINE i == x \o t.sql
           e == x \o c
<1>5. /\ Balanced(i) /\ NoOr(i) /\ NoAnd(i) /\ Balanced(e) /\ NoOr(e) /\ NoAnd(e)
  BY <1>2, <1>3, NotShape DEF Plain
<1>6. i \in Seq(SqlWord) /\ p = [t EXCEPT !.sql = i]
  BY <1>5 DEF Negated, Balanced
<1>7. p \in ParserState /\ Extends(p, s) /\ p.rest = t.rest /\ p.sql = i /\ p.params = t.params
  <2> HIDE DEF p, i
  <2> QED BY <1>4, <1>6, Rewritten
<1>8. e \in Seq(Token)
  <2> HIDE DEF x
  <2> QED BY <1>1, <1>3, ConcatProperties
<1>9. Reads(s.rest, e, p.rest)
  <2>1. t.rest \in Seq(Token)
    BY <1>3 DEF ParserState
  <2>2. Reads(e, x, c)
    BY DEF Reads
  <2>3. Reads(s.rest, e, t.rest)
    <3> HIDE DEF x, u, e
    <3> QED BY <1>1, <1>3, <2>1, <2>2, ReadsOn
  <2> QED BY <1>7, <2>3
<1>10. ASSUME NEW Q, NEW r, Agree(Q, s.offset, p.params)
       PROVE  Of(Row(Q, r), p.sql) = Of(Chosen(s.conds, r), e) /\ Of(Row(Q, r), p.sql) \in Three
  <2> DEFINE h == Row(Q, r)
             g == Chosen(s.conds, r)
  <2>1. u.conds = s.conds /\ u.offset = s.offset
    BY <1>1 DEF Extends
  <2>2. Of(h, t.sql) = Of(g, c) /\ Of(h, t.sql) \in Three
    BY <1>2, <1>7, <1>10, <2>1 DEF Means
  <2>3. Of(h, i) = 2 - Of(h, t.sql)
    BY <1>3, RowReads, OfNot DEF Plain
  <2>4. Of(g, e) = 2 - Of(g, c)
    BY <1>2, ChosenReads, OfNot DEF Plain
  <2>5. Of(h, i) = Of(g, e) /\ Of(h, i) \in Three
    <3> HIDE DEF h, g, i, e
    <3> QED BY <2>2, <2>3, <2>4 DEF Three
  <2> QED BY <1>7, <2>5
<1>r. Readable(s.conds, e)
  <2>1. Readable(s.conds, c)
    BY <1>1, <1>2 DEF Means, Extends
  <2> QED BY <1>2, <2>1, ReadableOf
<1>11. Wrote(s, p, e) /\ Means(s, p, e)
  BY <1>5, <1>7, <1>8, <1>9, <1>10, <1>r DEF Wrote, Means, Plain
<1> QED BY <1>5, <1>11 DEF ReadFactor, Plain

LEMMA ParenReads ==
  ASSUME NEW c \in Seq(Token)
  PROVE  /\ Paren(c) \in Seq(Token)
         /\ \A a, b, d : Reads(a, <<Tok("LP")>>, b) /\ Reads(b, c, d) /\ d \in Seq(Token)
              => \A f \in Seq(Token) : Reads(d, <<Tok("RP")>>, f) => Reads(a, Paren(c), f)
<1> DEFINE x == <<Tok("LP")>>
           y == <<Tok("RP")>>
<1>1. x \in Seq(Token) /\ y \in Seq(Token)
  <2>1. Tok("LP") \in Token /\ Tok("RP") \in Token
    BY MarkOf DEF Marks
  <2> QED BY <2>1
<1>2. Paren(c) = (x \o c) \o y
  BY DEF Paren
<1> HIDE DEF x, y
<1>3. x \o c \in Seq(Token)
  BY <1>1, ConcatProperties
<1>4. Paren(c) \in Seq(Token)
  BY <1>1, <1>2, <1>3, ConcatProperties
<1>5. ASSUME NEW a, NEW b, NEW d, Reads(a, x, b), Reads(b, c, d), d \in Seq(Token),
             NEW f \in Seq(Token), Reads(d, y, f)
      PROVE  Reads(a, Paren(c), f)
  <2>1. Reads(x \o c, x, c) /\ Reads(Paren(c), x \o c, y)
    BY <1>2 DEF Reads
  <2>2. Reads(a, x \o c, d)
    BY <1>1, <1>5, <2>1, ReadsOn
  <2> DEFINE z == x \o c
  <2>3. z \in Seq(Token) /\ Reads(a, z, d) /\ Reads(Paren(c), z, y) /\ Reads(d, y, f)
    BY <1>3, <1>5, <2>1, <2>2
  <2> HIDE DEF z
  <2> QED BY <1>1, <2>3, ReadsOn
<1> QED BY <1>4, <1>5 DEF x, y

LEMMA ParenGo ==
  ASSUME NEW s \in ParserState, At(s, "LP"), NEW t, ReadExpr(Eat(s), t), ~Closed(t).bad
  PROVE  ReadFactor(s, Closed(t))
<1> DEFINE u == Eat(s)
           v == Eat(t)
           p == Closed(t)
<1>1. u \in ParserState /\ Extends(u, s) /\ Reads(s.rest, <<Tok("LP")>>, u.rest)
  BY EatReads DEF Marks
<1>2. PICK c : Wrote(u, t, c) /\ Balanced(c) /\ Means(u, t, c)
  BY DEF ReadExpr
<1>3. c \in Seq(Token) /\ t \in ParserState /\ Extends(t, u) /\ Plain(t.sql) /\ Reads(u.rest, c, t.rest)
  BY <1>2 DEF Wrote, Extends
<1>4. Extends(t, s)
  BY <1>1, <1>3, ExtendsTwice
<1>5. ~t.bad /\ At(t, "RP") /\ p = [v EXCEPT !.sql = Paren(@)]
  <2>1. CASE t.bad \/ ~At(t, "RP")
    <3>1. p = Fail(t)
      BY <2>1 DEF Closed
    <3> QED BY <1>3, <3>1, FailType
  <2> QED BY <2>1 DEF Closed
<1>6. v \in ParserState /\ Extends(v, t) /\ Reads(t.rest, <<Tok("RP")>>, v.rest) /\ v.sql = t.sql /\ v.params = t.params
  <2>1. t.rest # <<>>
    BY <1>5 DEF At
  <2> QED BY <1>3, <1>5, <2>1, EatReads, EatType DEF Marks
<1>7. Extends(v, s)
  BY <1>4, <1>6, ExtendsTwice
<1> DEFINE i == Paren(t.sql)
           e == Paren(c)
<1>8. /\ Balanced(i) /\ NoOr(i) /\ NoAnd(i) /\ Balanced(e) /\ NoOr(e) /\ NoAnd(e)
  BY <1>2, <1>3, ParenShape DEF Plain
<1>9. p = [v EXCEPT !.sql = i] /\ i \in Seq(SqlWord)
  BY <1>5, <1>6, <1>8 DEF Balanced
<1>10. p \in ParserState /\ Extends(p, s) /\ p.rest = v.rest /\ p.sql = i /\ p.params = t.params
  <2> HIDE DEF p, i, v
  <2> QED BY <1>6, <1>7, <1>9, Rewritten
<1>11. e \in Seq(Token) /\ Reads(s.rest, e, p.rest)
  <2>1. t.rest \in Seq(Token) /\ v.rest \in Seq(Token)
    BY <1>3, <1>6 DEF ParserState
  <2>2. e \in Seq(Token) /\ Reads(s.rest, e, v.rest)
    BY <1>1, <1>3, <1>6, <2>1, ParenReads
  <2> QED BY <1>10, <2>2
<1>12. ASSUME NEW Q, NEW r, Agree(Q, s.offset, p.params)
       PROVE  Of(Row(Q, r), p.sql) = Of(Chosen(s.conds, r), e) /\ Of(Row(Q, r), p.sql) \in Three
  <2> DEFINE h == Row(Q, r)
             g == Chosen(s.conds, r)
  <2>1. u.conds = s.conds /\ u.offset = s.offset
    BY <1>1 DEF Extends
  <2>2. Of(h, t.sql) = Of(g, c) /\ Of(h, t.sql) \in Three
    BY <1>2, <1>10, <1>12, <2>1 DEF Means
  <2>3. Of(h, i) = Of(h, t.sql)
    BY <1>3, RowReads, OfParen DEF Plain
  <2>4. Of(g, e) = Of(g, c)
    BY <1>2, ChosenReads, OfParen
  <2> QED BY <1>10, <2>2, <2>3, <2>4
<1>r. Readable(s.conds, e)
  <2>1. Readable(s.conds, c)
    BY <1>1, <1>2 DEF Means, Extends
  <2> QED BY <2>1, ReadableOf
<1>13. Wrote(s, p, e) /\ Means(s, p, e)
  BY <1>8, <1>10, <1>11, <1>12, <1>r DEF Wrote, Means, Plain
<1> QED BY <1>8, <1>13 DEF ReadFactor, Plain

KnownAll(s) == \A i \in 1..Len(s.conds) : Known(s.conds[i])

LEMMA NumGo ==
  ASSUME NEW s \in ParserState, At(s, "NUM"), KnownAll(s), ~Numbered(s).bad
  PROVE  ReadFactor(s, Numbered(s))
<1> DEFINE u == Eat(s)
           p == Numbered(s)
           w == Head(s.rest)
           n == w.value
           c == s.conds[n]
           e == <<w>>
<1>1. /\ u \in ParserState /\ u.conds = s.conds /\ u.offset = s.offset /\ u.params = s.params
      /\ s.rest = e \o u.rest /\ w \in Token /\ w.type = "NUM"
  BY EatType DEF At
<1>2. n \in 1..Len(s.conds) /\ p = Bind(u, c)
  <2>1. CASE n < 1 \/ n > Len(s.conds)
    <3>1. p = Fail(s)
      BY <2>1 DEF Numbered
    <3> QED BY <3>1, FailType
  <2>2. CASE ~(n < 1 \/ n > Len(s.conds))
    <3>1. n \in Int
      BY <1>1 DEF Token
    <3>2. Len(s.conds) \in Nat
      BY DEF ParserState
    <3>3. p = Bind(u, c)
      BY <2>2 DEF Numbered
    <3> QED BY <2>2, <3>1, <3>2, <3>3
  <2> QED BY <2>1, <2>2
<1>3. c \in Condition /\ Known(c)
  BY <1>2 DEF ParserState, KnownAll
<1>4. /\ p.rest = u.rest /\ Extends(p, u) /\ Plain(p.sql)
      /\ \A Q, r : Agree(Q, u.offset, p.params) => Of(Row(Q, r), p.sql) = ConditionValue(c, r)
  <2>1. u \in ParserState /\ ~Bind(u, c).bad
    BY <1>1, <1>2
  <2> HIDE DEF u, c, p, w, n, e
  <2>2. /\ Bind(u, c).rest = u.rest /\ Extends(Bind(u, c), u) /\ Plain(Bind(u, c).sql)
        /\ \A Q, r : Agree(Q, u.offset, Bind(u, c).params) =>
                       Of(Row(Q, r), Bind(u, c).sql) = ConditionValue(c, r)
    BY <1>3, <2>1, BindMeans
  <2> QED BY <1>2, <2>2
<1>5. Extends(p, s)
  <2>1. Extends(u, s)
    <3>1. Extends(s, s)
      BY ExtendsItself
    <3> QED BY <1>1, <3>1 DEF Extends
  <2> QED BY <1>4, <2>1, ExtendsTwice
<1>6. w \in SqlWord
  BY <1>1, TokensAreWords
<1>7. e \in Seq(Token) /\ Plain(e) /\ Reads(s.rest, e, p.rest)
  BY <1>1, <1>4, <1>6, SingleShape DEF Shaping, Plain, Reads
<1>8. ASSUME NEW Q, NEW r, Agree(Q, s.offset, p.params)
      PROVE  Of(Row(Q, r), p.sql) = Of(Chosen(s.conds, r), e) /\ Of(Row(Q, r), p.sql) \in Three
  <2>1. Of(Row(Q, r), p.sql) = ConditionValue(c, r)
    BY <1>1, <1>4, <1>8
  <2>2. ConditionValue(c, r) \in Three
    BY ConditionRange
  <2>3. Chosen(s.conds, r)[w] = Num(ConditionValue(c, r))
    BY <1>1, <1>6 DEF Chosen
  <2>4. Of(Chosen(s.conds, r), e) = ConditionValue(c, r)
    BY <1>6, <2>2, <2>3, ChosenReads, OfOne DEF Three
  <2> QED BY <2>1, <2>2, <2>4
<1>r. Readable(s.conds, e)
  <2>1. buildClause(c) # Rejected
    <3>1. buildClause(c) = Rejected => Bind(u, c) = Fail(u)
      BY DEF Bind, Bound, Rejected, Skipped
    <3> HIDE DEF u, c, p
    <3>2. ~Bind(u, c).bad
      BY <1>2 DEF p
    <3> QED BY <1>1, <3>1, <3>2, FailType
  <2>2. \A i \in DOMAIN e : e[i] = w
    OBVIOUS
  <2>3. Fine(s.conds, e)
    <3> HIDE DEF e
    <3> QED BY <1>2, <2>1, <2>2 DEF Fine
  <2>4. Legal(e)
    <3> HIDE DEF w
    <3> QED BY <1>1, LegalNum
  <2> QED BY <2>3, <2>4 DEF Readable
<1>9. Wrote(s, p, e) /\ Means(s, p, e)
  BY <1>4, <1>5, <1>7, <1>8, <1>r DEF Wrote, Means
<1> QED BY <1>7, <1>9 DEF ReadFactor

-----------------------------------------------------------------------------
(* Every rule, by induction over what it still reads.                       *)

Ready(s) == s \in ParserState /\ KnownAll(s) /\ ~s.bad
Sound(s) == Plain(s.sql) /\ Sane(s)
Result(rule, s) == parse[<<rule, s>>]
Good(rule, s) ==
  /\ rule = "factor" => ReadFactor(s, Result(rule, s))
  /\ rule = "term" => ReadTerm(s, Result(rule, s))
  /\ rule = "expr" => ReadExpr(s, Result(rule, s))
  /\ rule = "ands" /\ Sound(s) => Loop("AND", s, Result(rule, s))
  /\ rule = "ors" /\ Sound(s) => Loop("OR", s, Result(rule, s))
Holds(rule, s) == Ready(s) /\ ~Result(rule, s).bad => Good(rule, s)

Inner(type) == IF type = "OR" THEN "term" ELSE "factor"
Outer(type) == IF type = "OR" THEN "expr" ELSE "term"
Turn(type) == IF type = "OR" THEN "ors" ELSE "ands"

LEMMA ResultIs ==
  ASSUME NEW s \in ParserState, NEW rule \in Rules
  PROVE  /\ Within(Result(rule, s), s)
         /\ s.bad => Result(rule, s) = s
         /\ Result(rule, s) = ParseBy(parse, rule, s)
<1>1. Result(rule, s) = ParseBy(parse, rule, s) /\ Within(Result(rule, s), s)
  BY ParseIs DEF Result
<1> QED BY <1>1 DEF ParseBy

LEMMA ItemOf ==
  ASSUME NEW type \in {"OR", "AND"}, NEW s, NEW p
  PROVE  /\ type = "OR" /\ ReadTerm(s, p) => Item(type, s, p)
         /\ type = "AND" /\ ReadFactor(s, p) => Item(type, s, p)
         /\ type = "OR" /\ Series(type, s, p) => ReadExpr(s, p)
         /\ type = "AND" /\ Series(type, s, p) => ReadTerm(s, p)
  BY DEF Item, ReadTerm, ReadFactor, Series, ReadExpr, Left, Rest, Plain

\* An item leaves a state that the loop can go on from.
LEMMA ItemLeaves ==
  ASSUME NEW type, NEW s, KnownAll(s), NEW p, Item(type, s, p)
  PROVE  p \in ParserState /\ KnownAll(p) /\ Sound(p)
<1>1. PICK c : Wrote(s, p, c) /\ Means(s, p, c)
  BY DEF Item
<1>2. p \in ParserState /\ p.conds = s.conds /\ p.offset = s.offset /\ Plain(p.sql)
  BY <1>1 DEF Wrote, Extends
<1>3. Sane(p)
  BY <1>1, <1>2 DEF Sane, Means
<1> QED BY <1>2, <1>3 DEF KnownAll, Sound

LEMMA MoreLeaves ==
  ASSUME NEW type \in {"OR", "AND"}, NEW s \in ParserState, KnownAll(s), Sane(s), NEW p, NEW d, More(type, s, p, d)
  PROVE  p \in ParserState /\ KnownAll(p) /\ Sound(p)
<1>1. Extends(p, s) /\ Plain(p.sql)
  BY DEF More, Wrote
<1>2. p \in ParserState /\ p.conds = s.conds /\ p.offset = s.offset
  BY <1>1 DEF Extends
<1>3. ASSUME NEW Q, NEW r, Agree(Q, p.offset, p.params)
      PROVE  Of(Row(Q, r), p.sql) \in Three
  <2>1. Agree(Q, s.offset, s.params)
    BY <1>1, <1>3, AgreeBefore
  <2>2. Of(Row(Q, r), s.sql) \in Three
    BY <2>1 DEF Sane
  <2> DEFINE x == Of(Row(Q, r), s.sql)
             y == Of(Chosen(s.conds, r), d)
  <2>3. y \in Three /\ Of(Row(Q, r), p.sql) = Both(type, x, y)
    BY <1>2, <1>3 DEF More
  <2> HIDE DEF x, y
  <2>4. Both(type, x, y) \in Three
    BY <2>2, <2>3, BothIs DEF x
  <2> QED BY <2>3, <2>4
<1> QED BY <1>1, <1>2, <1>3 DEF KnownAll, Sound, Sane

LEMMA JoinedBad ==
  ASSUME NEW s \in ParserState, NEW t \in ParserState, NEW type \in {"OR", "AND"}
  PROVE  Joined(s, type, t) \in ParserState /\ (Joined(s, type, t).bad <=> t.bad)
<1>1. Joined(s, type, t) \in ParserState
      /\ Joined(s, type, t) = [t EXCEPT !.sql = Paren(s.sql \o <<Tok(type)>> \o t.sql)]
  BY JoinedType
<1> QED BY <1>1 DEF ParserState

\* A rule that reads an item and loops.
LEMMA OuterIs ==
  ASSUME NEW type \in {"OR", "AND"}, NEW s, Ready(s), ~Result(Outer(type), s).bad,
         Holds(Inner(type), s), Holds(Turn(type), Result(Inner(type), s))
  PROVE  Good(Outer(type), s)
<1> DEFINE f == Result(Inner(type), s)
           p == Result(Turn(type), f)
<1>1. s \in ParserState /\ KnownAll(s) /\ ~s.bad
  BY DEF Ready
<1>2. Outer(type) \in Rules /\ Inner(type) \in Rules /\ Turn(type) \in Rules
  BY DEF Outer, Inner, Turn, Rules
<1>3. Result(Outer(type), s) = p
  <2>1. Result(Outer(type), s) = ParseBy(parse, Outer(type), s)
    BY <1>1, <1>2, ResultIs
  <2>2. CASE type = "OR"
    BY <1>1, <2>1, <2>2 DEF ParseBy, Outer, Inner, Turn, Result
  <2>3. CASE type = "AND"
    BY <1>1, <2>1, <2>3 DEF ParseBy, Outer, Inner, Turn, Result
  <2> QED BY <2>2, <2>3
<1>4. f \in ParserState
  BY <1>1, <1>2, ResultIs DEF Within
<1>5. ~f.bad
  <2>1. f.bad => p = f
    BY <1>2, <1>4, ResultIs
  <2> QED BY <1>3, <2>1
<1>6. Item(type, s, f)
  <2>1. Good(Inner(type), s)
    BY <1>5 DEF Holds
  <2> QED BY <2>1, ItemOf DEF Good, Inner
<1>7. KnownAll(f) /\ Sound(f)
  BY <1>1, <1>6, ItemLeaves
<1>8. Loop(type, f, p)
  <2>1. Good(Turn(type), f)
    BY <1>3, <1>4, <1>5, <1>7 DEF Holds, Ready
  <2> QED BY <1>7, <2>1 DEF Good, Turn
<1>9. Series(type, s, p)
  BY <1>1, <1>6, <1>8, ItemThenLoop
<1>10. /\ type = "OR" => Outer(type) = "expr" /\ ReadExpr(s, p)
       /\ type = "AND" => Outer(type) = "term" /\ ReadTerm(s, p)
  BY <1>9, ItemOf DEF Outer
<1> QED BY <1>3, <1>10 DEF Good

\* A loop.
LEMMA TurnIs ==
  ASSUME NEW type \in {"OR", "AND"}, NEW s, Ready(s), ~Result(Turn(type), s).bad,
         At(s, type) => /\ Holds(Inner(type), Eat(s))
                        /\ Holds(Turn(type), Joined(s, type, Result(Inner(type), Eat(s))))
  PROVE  Good(Turn(type), s)
<1> DEFINE u == Eat(s)
           t == Result(Inner(type), u)
           j == Joined(s, type, t)
           p == Result(Turn(type), j)
<1>1. s \in ParserState /\ KnownAll(s) /\ ~s.bad
  BY DEF Ready
<1>2. Inner(type) \in Rules /\ Turn(type) \in Rules
  BY DEF Inner, Turn, Rules
<1>3. Result(Turn(type), s) = IF At(s, type) THEN p ELSE s
  <2>1. Result(Turn(type), s) = ParseBy(parse, Turn(type), s)
    BY <1>1, <1>2, ResultIs
  <2>2. CASE type = "OR"
    BY <1>1, <2>1, <2>2 DEF ParseBy, Inner, Turn, Result
  <2>3. CASE type = "AND"
    BY <1>1, <2>1, <2>3 DEF ParseBy, Inner, Turn, Result
  <2> QED BY <2>2, <2>3
<1>4. SUFFICES ASSUME Sound(s) PROVE Loop(type, s, Result(Turn(type), s))
  BY <1>4 DEF Good, Turn
<1>5. CASE ~At(s, type)
  BY <1>3, <1>5 DEF Loop
<1>6. CASE At(s, type)
  <2>1. u \in ParserState /\ u.conds = s.conds /\ ~u.bad
    BY <1>1, <1>6, EatType DEF At
  <2>2. t \in ParserState
    BY <1>2, <2>1, ResultIs DEF Within
  <2>3. j \in ParserState /\ (j.bad <=> t.bad)
    <3> HIDE DEF t
    <3> QED BY <1>1, <2>2, JoinedBad
  <2>4. ~j.bad
    <3>1. j.bad => p = j
      BY <1>2, <2>3, ResultIs
    <3> QED BY <1>3, <1>6, <3>1
  <2>5. Item(type, u, t)
    <3>1. KnownAll(u)
      BY <1>1, <2>1 DEF KnownAll
    <3>2. Good(Inner(type), u)
      BY <1>6, <2>1, <2>3, <2>4, <3>1 DEF Holds, Ready
    <3> QED BY <3>2, ItemOf DEF Good, Inner
  <2>6. PICK c : More(type, s, j, c) /\ Left(type, c)
    <3> HIDE DEF t
    <3> QED BY <1>1, <1>4, <1>6, <2>5, MoreOne DEF Sound
  <2>7. KnownAll(j) /\ Sound(j)
    BY <1>1, <1>4, <2>6, MoreLeaves DEF Sound
  <2>8. Loop(type, j, p)
    <3>1. Good(Turn(type), j)
      BY <1>3, <1>6, <2>3, <2>4, <2>7 DEF Holds, Ready
    <3> QED BY <2>7, <3>1 DEF Good, Turn
  <2>9. Loop(type, s, p)
    BY <1>1, <1>4, <2>6, <2>8, MoreThenLoop DEF Sound
  <2> QED BY <1>3, <1>6, <2>9
<1> QED BY <1>5, <1>6

LEMMA FactorIs ==
  ASSUME NEW s, Ready(s), ~Result("factor", s).bad,
         At(s, "NOT") => Holds("factor", Eat(s)),
         At(s, "LP") => Holds("expr", Eat(s))
  PROVE  Good("factor", s)
<1> DEFINE u == Eat(s)
           p == Result("factor", s)
<1>1. s \in ParserState /\ KnownAll(s) /\ ~s.bad
  BY DEF Ready
<1>2. p = CASE At(s, "NOT") -> Negated(Result("factor", u))
            [] At(s, "LP") -> Closed(Result("expr", u))
            [] At(s, "NUM") -> Numbered(s)
            [] OTHER -> Fail(s)
  <2>1. p = ParseBy(parse, "factor", s)
    BY <1>1, ResultIs DEF Rules
  <2> QED BY <1>1, <2>1 DEF ParseBy, Result
<1>3. At(s, "NOT") \/ At(s, "LP") => u \in ParserState /\ KnownAll(u) /\ ~u.bad
  <2>1. At(s, "NOT") \/ At(s, "LP") => u \in ParserState /\ u.conds = s.conds /\ ~u.bad
    BY <1>1, EatType DEF At
  <2> QED BY <1>1, <2>1 DEF KnownAll
<1>4. ~(At(s, "NOT") /\ At(s, "LP")) /\ ~(At(s, "NOT") /\ At(s, "NUM")) /\ ~(At(s, "LP") /\ At(s, "NUM"))
  BY DEF At
<1>5. ReadFactor(s, p)
  <2>1. CASE At(s, "NOT")
    <3> DEFINE t == Result("factor", u)
    <3>1. p = Negated(t)
      BY <1>2, <1>4, <2>1
    <3>2. t \in ParserState
      BY <1>3, <2>1, ResultIs DEF Within, Rules
    <3>3. ~t.bad
      BY <3>1, <3>2 DEF Negated, ParserState
    <3>4. ReadFactor(u, t)
      BY <1>3, <2>1, <3>3 DEF Holds, Ready, Good
    <3> QED BY <1>1, <2>1, <3>1, <3>4, NotGo
  <2>2. CASE At(s, "LP")
    <3> DEFINE t == Result("expr", u)
    <3>1. p = Closed(t)
      BY <1>2, <1>4, <2>2
    <3>2. t \in ParserState
      BY <1>3, <2>2, ResultIs DEF Within, Rules
    <3>3. ~t.bad
      <4>1. t.bad => Closed(t) = Fail(t)
        BY DEF Closed
      <4> HIDE DEF t
      <4> QED BY <3>1, <3>2, <4>1, FailType
    <3>4. ReadExpr(u, t)
      BY <1>3, <2>2, <3>3 DEF Holds, Ready, Good
    <3> HIDE DEF t, p
    <3> QED BY <1>1, <2>2, <3>1, <3>4, ParenGo DEF p
  <2>3. CASE At(s, "NUM")
    <3>1. p = Numbered(s)
      BY <1>2, <1>4, <2>3
    <3> QED BY <1>1, <2>3, <3>1, NumGo
  <2>4. CASE ~At(s, "NOT") /\ ~At(s, "LP") /\ ~At(s, "NUM")
    <3>1. p = Fail(s)
      BY <1>2, <2>4
    <3> QED BY <1>1, <3>1, FailType
  <2> QED BY <2>1, <2>2, <2>3, <2>4
<1> QED BY <1>5 DEF Good

\* Every rule of the grammar, in every state it accepts: what it writes means
\* what it read (parseExpr, parseTerm, parseFactor).
THEOREM RulesAreRight == \A rule \in Rules, s \in ParserState : Holds(rule, s)
<1> DEFINE S == {n \in Nat : \A rule \in Rules, s \in ParserState : Size(rule, s) < n => Holds(rule, s)}
<1>1. 0 \in S
  <2>1. \A rule \in Rules, s \in ParserState : ~(Size(rule, s) < 0)
    BY SizeIs
  <2> QED BY <2>1
<1>2. ASSUME NEW n \in Nat, n \in S PROVE n + 1 \in S
  <2>1. ASSUME NEW rule \in Rules, NEW s \in ParserState, Size(rule, s) < n + 1 PROVE Holds(rule, s)
    <3>1. ~(Size(rule, s) > n) /\ Size(rule, s) \in Nat
      <4>1. Size(rule, s) \in Nat
        BY SizeIs
      <4> QED BY <2>1, <4>1
    <3>2. Tame(parse, n)
      BY ParseIs DEF Tame
    <3>3. ASSUME NEW other \in Rules, NEW u \in ParserState,
                 \/ Len(u.rest) < Len(s.rest)
                 \/ Len(u.rest) <= Len(s.rest) /\ Size(other, s) < Size(rule, s)
          PROVE  Holds(other, u)
      <4>1. Size(other, u) < n
        BY <3>1, <3>2, <3>3, Asked
      <4> QED BY <1>2, <4>1
    <3>4. \A other \in Rules, u \in ParserState :
            \/ Len(u.rest) < Len(s.rest)
            \/ Len(u.rest) <= Len(s.rest) /\ Size(other, s) < Size(rule, s)
            => Holds(other, u)
      BY <3>3
    <3>5. SUFFICES ASSUME Ready(s), ~Result(rule, s).bad PROVE Good(rule, s)
      BY DEF Holds
    <3>6. CASE rule \in {"expr", "term"}
      <4>1. PICK type \in {"OR", "AND"} : rule = Outer(type)
        BY <3>6 DEF Outer
      <4> DEFINE f == Result(Inner(type), s)
      <4>2. Inner(type) \in Rules /\ Turn(type) \in Rules
        BY DEF Inner, Turn, Rules
      <4>3. f \in ParserState /\ Len(f.rest) <= Len(s.rest)
        BY <4>2, ResultIs DEF Within
      <4>4. /\ Size(Inner(type), s) < Size(rule, s) /\ Size(Turn(type), s) < Size(rule, s)
            /\ Len(s.rest) <= Len(s.rest)
        <5>1. Len(s.rest) \in Nat
          BY RestLength
        <5>2. /\ Size("expr", s) = 3 * Len(s.rest) + 2 /\ Size("term", s) = 3 * Len(s.rest) + 1
              /\ \A other \in {"factor", "ands", "ors"} : Size(other, s) = 3 * Len(s.rest)
          BY SizeIs DEF Rules
        <5>3. CASE type = "OR"
          BY <4>1, <5>1, <5>2, <5>3 DEF Inner, Turn, Outer
        <5>4. CASE type = "AND"
          BY <4>1, <5>1, <5>2, <5>4 DEF Inner, Turn, Outer
        <5> QED BY <5>3, <5>4
      <4>5. Holds(Inner(type), s)
        BY <3>4, <4>2, <4>4
      <4>6. Holds(Turn(type), f)
        <5> HIDE DEF f
        <5> QED BY <3>4, <4>2, <4>3, <4>4
      <4> QED BY <3>5, <4>1, <4>5, <4>6, OuterIs
    <3>7. CASE rule \in {"ors", "ands"}
      <4>1. PICK type \in {"OR", "AND"} : rule = Turn(type)
        BY <3>7 DEF Turn
      <4>2. Inner(type) \in Rules /\ Turn(type) \in Rules
        BY DEF Inner, Turn, Rules
      <4>3. ASSUME At(s, type)
            PROVE  /\ Holds(Inner(type), Eat(s))
                   /\ Holds(Turn(type), Joined(s, type, Result(Inner(type), Eat(s))))
        <5> DEFINE u == Eat(s)
                   t == Result(Inner(type), u)
                   j == Joined(s, type, t)
        <5>1. u \in ParserState /\ Len(u.rest) < Len(s.rest)
          BY <4>3, EatType DEF At
        <5>2. t \in ParserState /\ Len(t.rest) <= Len(u.rest)
          BY <4>2, <5>1, ResultIs DEF Within
        <5>3. j \in ParserState /\ j.rest = t.rest
          <6>1. j \in ParserState /\ j = [t EXCEPT !.sql = Paren(s.sql \o <<Tok(type)>> \o t.sql)]
            <7> HIDE DEF t
            <7> QED BY <5>2, JoinedType
          <6> HIDE DEF j, t
          <6> QED BY <5>2, <6>1 DEF ParserState
        <5>4. Len(j.rest) < Len(s.rest)
          <6>1. Len(s.rest) \in Nat /\ Len(u.rest) \in Nat /\ Len(t.rest) \in Nat
            <7> HIDE DEF u, t
            <7> QED BY <5>1, <5>2, RestLength
          <6> HIDE DEF u, t, j
          <6> QED BY <5>1, <5>2, <5>3, <6>1
        <5>5. Holds(Inner(type), u)
          <6> HIDE DEF u
          <6> QED BY <3>4, <4>2, <5>1
        <5>6. Holds(Turn(type), j)
          <6> HIDE DEF j
          <6> QED BY <3>4, <4>2, <5>3, <5>4
        <5> QED BY <5>5, <5>6
      <4> QED BY <3>5, <4>1, <4>3, TurnIs
    <3>8. CASE rule = "factor"
      <4>1. s.rest # <<>> => Holds("factor", Eat(s)) /\ Holds("expr", Eat(s))
        <5> DEFINE u == Eat(s)
        <5>1. s.rest # <<>> => u \in ParserState /\ Len(u.rest) < Len(s.rest)
          BY EatType
        <5> HIDE DEF u
        <5>2. s.rest # <<>> => Holds("factor", u) /\ Holds("expr", u)
          BY <3>4, <5>1 DEF Rules
        <5> QED BY <5>2 DEF u
      <4> QED BY <3>5, <3>8, <4>1, FactorIs DEF At
    <3> QED BY <3>6, <3>7, <3>8 DEF Rules
  <2> QED BY <2>1
<1> HIDE DEF S
<1>3. Nat \subseteq S
  BY <1>1, <1>2, SetInduction
<1>4. ASSUME NEW rule \in Rules, NEW s \in ParserState PROVE Holds(rule, s)
  <2>1. Size(rule, s) \in Nat
    BY SizeIs
  <2>2. Size(rule, s) + 1 \in S /\ Size(rule, s) < Size(rule, s) + 1
    BY <1>3, <2>1
  <2> QED BY <2>2 DEF S
<1> QED BY <1>4

-----------------------------------------------------------------------------
(* Clauses joined with AND: each of them is one conjunct.                   *)

Clausal(t) == t \in Seq(SqlWord) /\ (t # <<>> => Balanced(t) /\ NoOr(t))
Conjunct(h, t, u) == Of(h, Infix(t, "AND", u)) = Both("AND", Of(h, t), Of(h, u))
Chain(h, t) ==
  t # <<>> =>
    /\ Of(h, t) \in Three
    /\ \A u : Balanced(u) /\ NoOr(u) /\ Of(h, u) \in Three => Conjunct(h, t, u)

LEMMA PlainChain ==
  ASSUME NEW t, Plain(t)
  PROVE  Clausal(t) /\ \A h : Reading(h) /\ Of(h, t) \in Three => Chain(h, t)
<1>1. Left("AND", t)
  BY DEF Plain, Left
<1>2. ASSUME NEW h, Reading(h), NEW u, Balanced(u), NoOr(u) PROVE Conjunct(h, t, u)
  <2>1. Rest("AND", u)
    BY <1>2 DEF Rest
  <2> QED BY <1>1, <1>2, <2>1, OfInfix DEF Conjunct
<1> QED BY <1>2 DEF Clausal, Chain, Plain, Balanced

LEMMA WordsAssociate ==
  \A a, b, c \in Seq(SqlWord) : (a \o b) \o c = a \o (b \o c)
BY ConcatAssociative

LEMMA InfixTwice ==
  ASSUME NEW a \in Seq(SqlWord), NEW b \in Seq(SqlWord), NEW c \in Seq(SqlWord)
  PROVE  Infix(Infix(a, "AND", b), "AND", c) = Infix(a, "AND", Infix(b, "AND", c))
<1> DEFINE x == <<Tok("AND")>>
<1>1. x \in Seq(SqlWord)
  <2>1. Tok("AND") \in SqlWord
    BY MarkOf DEF Marks
  <2> QED BY <2>1
<1> HIDE DEF x
<1> DEFINE y == a \o x
           z == b \o x
<1>2. y \in Seq(SqlWord) /\ z \in Seq(SqlWord)
  BY <1>1, ConcatProperties
<1>3. (y \o b) \o x = y \o (b \o x)
  <2>1. y \in Seq(SqlWord) /\ b \in Seq(SqlWord) /\ x \in Seq(SqlWord)
    BY <1>1, <1>2
  <2> HIDE DEF y, z
  <2> QED BY <2>1, WordsAssociate
<1>4. (y \o z) \o c = y \o (z \o c)
  <2> HIDE DEF y, z
  <2> QED BY <1>2, WordsAssociate
<1>5. Infix(Infix(a, "AND", b), "AND", c) = ((y \o b) \o x) \o c
  BY DEF Infix, y, x
<1>6. Infix(a, "AND", Infix(b, "AND", c)) = y \o (z \o c)
  BY DEF Infix, y, z, x
<1>7. b \o x = z
  OBVIOUS
<1> HIDE DEF y, z
<1> QED BY <1>3, <1>4, <1>5, <1>6, <1>7

LEMMA AndIs ==
  ASSUME NEW a, NEW b
  PROVE  And(a, b) = IF a = <<>> THEN b ELSE IF b = <<>> THEN a ELSE Infix(a, "AND", b)
BY DEF And, Infix

LEMMA AndClausal ==
  ASSUME NEW a, NEW b, Clausal(a), Clausal(b)
  PROVE  Clausal(And(a, b))
<1>1. CASE a = <<>> \/ b = <<>>
  BY <1>1, AndIs
<1>2. CASE a # <<>> /\ b # <<>>
  <2>1. And(a, b) = Infix(a, "AND", b)
    BY <1>2, AndIs
  <2>2. Balanced(Infix(a, "AND", b)) /\ NoOr(Infix(a, "AND", b))
    BY <1>2, JoinedLevel DEF Clausal, Infix
  <2> QED BY <2>1, <2>2 DEF Clausal, Balanced
<1> QED BY <1>1, <1>2

LEMMA BothTwo ==
  ASSUME NEW x \in Three, NEW y \in Three
  PROVE  Both("AND", x, y) = 2 <=> x = 2 /\ y = 2
<1>1. x \in Int /\ y \in Int
  BY DEF Three
<1>2. Both("AND", x, y) = IF x <= y THEN x ELSE y
  BY <1>1, Lesser DEF Both
<1> QED BY <1>2 DEF Three

LEMMA AndChain ==
  ASSUME NEW h, Reading(h), NEW a, NEW b, Clausal(a), Clausal(b), Chain(h, a), Chain(h, b)
  PROVE  /\ Chain(h, And(a, b))
         /\ Of(h, And(a, b)) = 2 <=> Of(h, a) = 2 /\ Of(h, b) = 2
<1>1. CASE a = <<>> \/ b = <<>>
  BY <1>1, AndIs, OfNone
<1>2. CASE a # <<>> /\ b # <<>>
  <2> DEFINE i == Infix(a, "AND", b)
  <2>1. And(a, b) = i
    BY <1>2, AndIs
  <2>2. /\ Balanced(a) /\ NoOr(a) /\ Balanced(b) /\ NoOr(b)
        /\ a \in Seq(SqlWord) /\ b \in Seq(SqlWord)
    BY <1>2 DEF Clausal
  <2>3. Of(h, a) \in Three /\ Of(h, b) \in Three
    BY <1>2 DEF Chain
  <2>4. Of(h, i) = Both("AND", Of(h, a), Of(h, b))
    BY <1>2, <2>2, <2>3 DEF Chain, Conjunct
  <2>5. Of(h, i) \in Three /\ (Of(h, i) = 2 <=> Of(h, a) = 2 /\ Of(h, b) = 2)
    <3> DEFINE x == Of(h, a)
               y == Of(h, b)
    <3>1. x \in Three /\ y \in Three /\ Of(h, i) = Both("AND", x, y)
      BY <2>3, <2>4
    <3> HIDE DEF x, y, i
    <3>2. Both("AND", x, y) \in Three /\ (Both("AND", x, y) = 2 <=> x = 2 /\ y = 2)
      BY <3>1, BothIs, BothTwo
    <3> QED BY <3>1, <3>2 DEF x, y
  <2>6. ASSUME NEW u, Balanced(u), NoOr(u), Of(h, u) \in Three
        PROVE  Conjunct(h, i, u)
    <3> DEFINE j == Infix(b, "AND", u)
               x == Of(h, a)
               y == Of(h, b)
               z == Of(h, u)
    <3>1. Balanced(j) /\ NoOr(j)
      BY <2>2, <2>6, JoinedLevel DEF Infix
    <3>2. Of(h, j) = Both("AND", y, z)
      BY <1>2, <2>6 DEF Chain, Conjunct
    <3>3. x \in Three /\ y \in Three /\ z \in Three /\ Of(h, i) = Both("AND", x, y)
      BY <2>3, <2>4, <2>6
    <3>4. Infix(i, "AND", u) = Infix(a, "AND", j)
      BY <2>2, <2>6, InfixTwice DEF Balanced
    <3> HIDE DEF x, y, z, i, j
    <3>5. Both("AND", y, z) \in Three /\ Both("AND", Both("AND", x, y), z) = Both("AND", x, Both("AND", y, z))
      BY <3>3, BothIs
    <3>6. Of(h, Infix(a, "AND", j)) = Both("AND", x, Of(h, j))
      BY <1>2, <3>1, <3>2, <3>5 DEF Chain, Conjunct, x
    <3> QED BY <3>2, <3>3, <3>4, <3>5, <3>6 DEF Conjunct, z
  <2> HIDE DEF i
  <2> QED BY <2>1, <2>5, <2>6 DEF Chain
<1> QED BY <1>1, <1>2

-----------------------------------------------------------------------------
(* Conditions that no expression combines.                                  *)

AllTrue(conds, n, r) == \A i \in 1..n : ConditionValue(conds[i], r) = 2
Says(s, acc, n) ==
  /\ Extends(acc, s) /\ Clausal(acc.sql)
  /\ \A Q, r : Agree(Q, s.offset, acc.params) =>
       Chain(Row(Q, r), acc.sql) /\ (Of(Row(Q, r), acc.sql) = 2 <=> AllTrue(s.conds, n, r))

LEMMA SkippedOnly ==
  ASSUME NEW s \in ParserState, NEW c \in Condition, ~Bind(s, c).bad, Bind(s, c).sql = <<Tok("TRUE")>>
  PROVE  \A r : ConditionValue(c, r) = 2
<1> DEFINE cl == buildClause(c)
<1>0. Rejected # Skipped
  BY DEF Rejected, Skipped
<1>1. cl \in Clauses
  BY ClauseType
<1>2. cl # Rejected
  <2>1. cl = Rejected => Bind(s, c) = Fail(s)
    BY <1>0 DEF Bind, Bound
  <2> QED BY <2>1, FailType
<1>3. CASE cl = Skipped
  BY <1>3 DEF ConditionValue, Skipped
<1>4. CASE cl # Skipped
  <2>1. PICK o \in Seq(Seq(Int)) : cl = Clause(o)
    BY <1>1, <1>2, <1>4 DEF Clauses
  <2> DEFINE ps == [i \in DOMAIN cl.operands |-> s.offset + Len(s.params) + i]
             x == Test(c.field, c.operator, ps)
  <2>2. Bind(s, c) = [s EXCEPT !.params = s.params \o cl.operands, !.sql = <<x>>]
    BY <1>2, <1>4 DEF Bind, Bound
  <2> HIDE DEF ps
  <2>3. x.type = "TEST"
    BY DEF Test
  <2> HIDE DEF x
  <2>4. Bind(s, c).sql = <<x>>
    BY <2>2 DEF ParserState
  <2>5. x = Tok("TRUE")
    BY <2>4
  <2> QED BY <2>3, <2>5 DEF Tok
<1> QED BY <1>3, <1>4

LEMMA OneMoreTrue ==
  ASSUME NEW conds, NEW n \in Nat, n # 0, NEW r
  PROVE  AllTrue(conds, n, r) <=> AllTrue(conds, n - 1, r) /\ ConditionValue(conds[n], r) = 2
BY DEF AllTrue

LEMMA AndedType ==
  ASSUME NEW acc \in ParserState, NEW b \in ParserState
  PROVE  Anded(acc, b) \in ParserState
<1> DEFINE w == acc.sql \o <<Tok("AND")>> \o b.sql
<1>1. w \in Seq(SqlWord)
  BY JoinedType
<1>2. Anded(acc, b) \in {acc, b, [b EXCEPT !.sql = w]}
  BY DEF Anded
<1> HIDE DEF w
<1>3. [b EXCEPT !.sql = w] \in ParserState
  BY <1>1, WithSql
<1> QED BY <1>2, <1>3

LEMMA AndedSays ==
  ASSUME NEW s \in ParserState, KnownAll(s), NEW n \in 1..Len(s.conds), NEW acc \in ParserState,
         ~acc.bad => Says(s, acc, n - 1)
  PROVE  LET p == Anded(acc, Bind(acc, s.conds[n]))
         IN p \in ParserState /\ (~p.bad => Says(s, p, n))
<1> DEFINE c == s.conds[n]
           b == Bind(acc, c)
           p == Anded(acc, b)
           one == <<Tok("TRUE")>>
<1>1. c \in Condition /\ Known(c) /\ n \in Nat /\ n # 0
  BY DEF ParserState, KnownAll
<1>2. b \in ParserState
  BY <1>1, BindType
<1>3. CASE acc.bad
  BY <1>3 DEF Anded
<1>4. CASE ~acc.bad /\ b.bad
  BY <1>2, <1>4 DEF Anded
<1>5. CASE ~acc.bad /\ ~b.bad /\ b.sql = one
  <2>1. p = acc
    BY <1>5 DEF Anded
  <2>2. \A r : ConditionValue(c, r) = 2
    <3> HIDE DEF c
    <3> QED BY <1>1, <1>5, SkippedOnly
  <2>3. Says(s, acc, n)
    BY <1>1, <1>5, <2>2, OneMoreTrue DEF Says
  <2> QED BY <2>1, <2>3
<1>6. CASE ~acc.bad /\ ~b.bad /\ b.sql # one
  <2> DEFINE w == And(acc.sql, b.sql)
  <2>1. /\ Extends(b, acc) /\ Plain(b.sql)
        /\ \A Q, r : Agree(Q, acc.offset, b.params) => Of(Row(Q, r), b.sql) = ConditionValue(c, r)
    <3> HIDE DEF c
    <3> QED BY <1>1, <1>6, BindMeans
  <2>2. Says(s, acc, n - 1)
    BY <1>6
  <2>3. Extends(acc, s) /\ acc.offset = s.offset
    BY <2>2 DEF Says, Extends
  <2>4. Extends(b, s)
    BY <2>1, <2>3, ExtendsTwice
  <2>5. Clausal(b.sql)
    BY <2>1, PlainChain
  <2>6. Clausal(w)
    BY <2>2, <2>5, AndClausal DEF Says
  <2>7. p = [b EXCEPT !.sql = w]
    <3>1. b.sql # <<>>
      BY <2>1 DEF Plain, Balanced
    <3>2. CASE acc.sql = <<>>
      BY <1>2, <1>6, <3>2, AndIs DEF Anded, ParserState
    <3>3. CASE acc.sql # <<>>
      BY <1>6, <3>1, <3>3 DEF Anded, And
    <3> QED BY <3>2, <3>3
  <2>8. p \in ParserState /\ Extends(p, s) /\ p.sql = w /\ p.params = b.params
    <3>1. w \in Seq(SqlWord)
      BY <2>6 DEF Clausal
    <3> HIDE DEF w, b, p
    <3> QED BY <2>4, <2>7, <3>1, Rewritten
  <2>9. ASSUME NEW Q, NEW r, Agree(Q, s.offset, b.params)
        PROVE  Chain(Row(Q, r), w) /\ (Of(Row(Q, r), w) = 2 <=> AllTrue(s.conds, n, r))
    <3> DEFINE h == Row(Q, r)
    <3>1. Agree(Q, s.offset, acc.params)
      <4>1. b.offset = s.offset
        BY <2>4 DEF Extends
      <4> HIDE DEF b
      <4> QED BY <2>1, <2>3, <2>9, <4>1, AgreeBefore
    <3>2. Chain(h, acc.sql) /\ (Of(h, acc.sql) = 2 <=> AllTrue(s.conds, n - 1, r))
      BY <2>2, <3>1 DEF Says
    <3>3. Of(h, b.sql) = ConditionValue(c, r)
      BY <2>1, <2>3, <2>9
    <3>4. Chain(h, b.sql)
      BY <2>1, <3>3, PlainChain, RowReads, ConditionRange
    <3>5. Chain(h, w) /\ (Of(h, w) = 2 <=> Of(h, acc.sql) = 2 /\ Of(h, b.sql) = 2)
      BY <2>2, <2>5, <3>2, <3>4, RowReads, AndChain DEF Says
    <3>6. AllTrue(s.conds, n, r) <=> AllTrue(s.conds, n - 1, r) /\ ConditionValue(c, r) = 2
      BY <1>1, OneMoreTrue
    <3> QED BY <3>2, <3>3, <3>5, <3>6
  <2>10. Says(s, p, n)
    <3> HIDE DEF w, p
    <3> QED BY <2>6, <2>8, <2>9 DEF Says
  <2> QED BY <2>8, <2>10
<1> QED BY <1>3, <1>4, <1>5, <1>6

\* The states the conditions are ANDed through.
LEMMA AndAllRuns ==
  ASSUME NEW s \in ParserState
  PROVE  \E f : /\ f[0] = s /\ f[Len(s.conds)] = AndAll(s)
                /\ \A n \in 1..Len(s.conds) :
                     f[n] = Anded(f[n - 1], Bind(f[n - 1], s.conds[n]))
<1> DEFINE N == Len(s.conds)
           Body(n, x) == Anded(x, Bind(x, s.conds[n]))
           G == [p \in (1..N) \X ParserState |-> Body(p[1], p[2])]
           upTo == CHOOSE f : f = [n \in 0..N |-> IF n = 0 THEN s ELSE Body(n, f[n - 1])]
<1>1. N \in Nat
  BY DEF ParserState
<1>2. AndAll(s) = upTo[N]
  <2>1. AndAll(s) = (CHOOSE f : f = [n \in 0..Len(s.conds) |->
                                      IF n = 0 THEN s ELSE Anded(f[n - 1], Bind(f[n - 1], s.conds[n]))])[Len(s.conds)]
    BY DEF AndAll
  <2> QED BY <2>1 DEF N, Body, upTo
<1>3. \A n \in 1..N, x \in ParserState : Body(n, x) \in ParserState
  <2> SUFFICES ASSUME NEW n \in 1..N, NEW x \in ParserState PROVE Body(n, x) \in ParserState
    OBVIOUS
  <2>1. s.conds[n] \in Condition
    BY DEF ParserState
  <2>2. Bind(x, s.conds[n]) \in ParserState
    BY <2>1, BindType
  <2> QED BY <2>2, AndedType
<1> HIDE DEF Body, N
<1>4. G \in Steps(N, ParserState) /\ \A n \in 1..N, x \in ParserState : G[<<n, x>>] = Body(n, x)
  BY <1>3 DEF Steps
<1> HIDE DEF G
<1>5. \E f : f = [n \in 0..N |-> IF n = 0 THEN s ELSE Body(n, f[n - 1])]
  <2>2. PICK f : Iterates(f, N, ParserState, s, G)
    BY <1>1, <1>4, IterationExists
  <2>3. ASSUME NEW n \in 0..N PROVE f[n] = IF n = 0 THEN s ELSE Body(n, f[n - 1])
    <3>1. CASE n = 0
      BY <2>2, <3>1 DEF Iterates
    <3>2. CASE n # 0
      <4>1. n \in 1..N /\ n - 1 \in 0..N
        BY <1>1, <3>2
      <4>2. f[n - 1] \in ParserState /\ f[n] = G[<<n, f[n - 1]>>]
        BY <2>2, <4>1 DEF Iterates
      <4> QED BY <1>4, <3>2, <4>1, <4>2
    <3> QED BY <3>1, <3>2
  <2>4. f = [n \in 0..N |-> f[n]]
    BY <2>2 DEF Iterates
  <2>5. f = [n \in 0..N |-> IF n = 0 THEN s ELSE Body(n, f[n - 1])]
    BY <2>3, <2>4
  <2> QED BY <2>5
<1>6. upTo = [n \in 0..N |-> IF n = 0 THEN s ELSE Body(n, upTo[n - 1])]
  BY <1>5
<1> HIDE DEF upTo
<1>7. upTo[0] = s /\ \A n \in 1..N : upTo[n] = Body(n, upTo[n - 1])
  BY <1>1, <1>6
<1> QED BY <1>2, <1>7 DEF N, Body

LEMMA AndAllSays ==
  ASSUME NEW s \in ParserState, KnownAll(s), ~s.bad, s.sql = <<>>
  PROVE  AndAll(s) \in ParserState /\ (~AndAll(s).bad => Says(s, AndAll(s), Len(s.conds)))
<1> DEFINE N == Len(s.conds)
<1>1. N \in Nat /\ \A n \in 1..N : s.conds[n] \in Condition
  BY DEF ParserState
<1>2. PICK f : /\ f[0] = s /\ f[N] = AndAll(s)
               /\ \A n \in 1..N : f[n] = Anded(f[n - 1], Bind(f[n - 1], s.conds[n]))
  BY AndAllRuns
<1>3. \A n \in 1..N, x \in ParserState : Anded(x, Bind(x, s.conds[n])) \in ParserState
  BY <1>1, BindType, AndedType
<1>4. \A n \in 1..N, x \in ParserState :
        (~x.bad => Says(s, x, n - 1))
          => (~Anded(x, Bind(x, s.conds[n])).bad => Says(s, Anded(x, Bind(x, s.conds[n])), n))
  BY AndedSays
<1>5. Says(s, s, 0)
  <2>1. ASSUME NEW Q, NEW r
        PROVE  Chain(Row(Q, r), s.sql) /\ (Of(Row(Q, r), s.sql) = 2 <=> AllTrue(s.conds, 0, r))
    BY OfNone DEF Chain, AllTrue
  <2> QED BY <2>1, ExtendsItself DEF Says, Clausal
<1> HIDE DEF N
<1> DEFINE S == {n \in Nat : n \in 0..N => f[n] \in ParserState /\ (~f[n].bad => Says(s, f[n], n))}
<1>6. 0 \in S
  BY <1>2, <1>5
<1>7. ASSUME NEW n \in Nat, n \in S PROVE n + 1 \in S
  <2> SUFFICES ASSUME n + 1 \in 0..N
               PROVE  f[n + 1] \in ParserState /\ (~f[n + 1].bad => Says(s, f[n + 1], n + 1))
    OBVIOUS
  <2>1. n + 1 \in 1..N /\ (n + 1) - 1 = n /\ n \in 0..N
    BY <1>1
  <2>2. f[n] \in ParserState /\ (~f[n].bad => Says(s, f[n], n))
    BY <1>7, <2>1
  <2>3. f[n + 1] = Anded(f[n], Bind(f[n], s.conds[n + 1]))
    BY <1>2, <2>1
  <2> QED BY <1>3, <1>4, <2>1, <2>2, <2>3
<1> HIDE DEF S
<1>8. N \in S
  BY <1>1, <1>6, <1>7, SetInduction
<1> QED BY <1>1, <1>2, <1>8 DEF S, N

-----------------------------------------------------------------------------
(* A whole filter.                                                          *)

Lexed == [l \in Lexeme |-> TokenOf(l)]

LEMMA TokenOfType ==
  ASSUME NEW l \in Lexeme
  PROVE  /\ TokenOf(l) \in Token /\ Lexed[l] = TokenOf(l)
         /\ l.type = "NUM" => TokenOf(l) = Num(l.value) /\ l.value \in Nat
         /\ l.type # "NUM" => TokenOf(l).type # "NUM"
<1> DEFINE Marked == {Tok(type) : type \in {"AND", "OR", "NOT", "LP", "RP", "BAD"}}
           x == TokenOf(l)
<1>2. l.type # "NUM" => x \in Marked
  BY DEF TokenOf
<1>3. \A y \in Marked : y \in Token /\ y.type # "NUM"
  BY DEF Tok, Token
<1>4. l.type = "NUM" => l.value \in Nat
  BY DEF Lexeme
<1>5. l.type = "NUM" => x = Num(l.value)
  BY DEF TokenOf
<1>6. l.type = "NUM" => Num(l.value) \in Token
  BY <1>4, NumIs
<1>7. Lexed[l] = x
  BY DEF Lexed
<1> HIDE DEF Marked, x
<1> QED BY <1>2, <1>3, <1>4, <1>5, <1>6, <1>7 DEF x

LEMMA TokensOf ==
  ASSUME NEW logic \in Seq(Lexeme)
  PROVE  tokenizeLogic(logic) \in Seq(Token) /\ (tokenizeLogic(logic) = <<>> <=> logic = <<>>)
<1> DEFINE t == tokenizeLogic(logic)
<1>2. t = [i \in DOMAIN logic |-> TokenOf(logic[i])]
  BY DEF tokenizeLogic
<1>3. DOMAIN logic = 1..Len(logic) /\ Len(logic) \in Nat /\ \A i \in 1..Len(logic) : logic[i] \in Lexeme
  OBVIOUS
<1>4. t \in [1..Len(logic) -> Token]
  BY <1>2, <1>3, TokenOfType
<1>5. t \in Seq(Token) /\ Len(t) = Len(logic)
  BY <1>3, <1>4
<1> QED BY <1>5

\* A statement that asks what the scope means, its parameters after the offset.
Filtered(scope, offset, b) ==
  /\ b.sql \in Seq(SqlWord) /\ b.params \in Seq(Seq(Int)) /\ Clausal(b.sql)
  /\ \A Q, r : Agree(Q, offset, b.params) =>
       Chain(Row(Q, r), b.sql) /\ (Of(Row(Q, r), b.sql) = 2 <=> Meaning(scope, r))

LEMMA ExpressionMeans ==
  ASSUME NEW s \in ParserState, KnownAll(s), ~s.bad, ~parseLogic(s).bad
  PROVE  LET p == parseLogic(s)
         IN /\ Extends(p, s) /\ Plain(p.sql) /\ Readable(s.conds, s.rest)
            /\ \A Q, r : Agree(Q, s.offset, p.params) =>
                 /\ Of(Row(Q, r), p.sql) = Of(Chosen(s.conds, r), s.rest)
                 /\ Of(Row(Q, r), p.sql) \in Three
<1> DEFINE e == Result("expr", s)
           p == parseLogic(s)
<1>1. p = Complete(e)
  BY DEF parseLogic, Result
<1>2. e \in ParserState
  BY ResultIs DEF Rules, Within
<1>3. ~e.bad /\ e.rest = <<>> /\ p = e
  <2>1. e.bad \/ e.rest # <<>> => p = Fail(e)
    BY <1>1 DEF Complete
  <2> HIDE DEF e
  <2> QED BY <1>1, <1>2, <2>1, FailType DEF Complete
<1>4. ReadExpr(s, e)
  <2>1. Holds("expr", s)
    BY RulesAreRight DEF Rules
  <2> QED BY <1>3, <2>1 DEF Holds, Ready, Good
<1>5. PICK c : Wrote(s, e, c) /\ Balanced(c) /\ Means(s, e, c)
  BY <1>4 DEF ReadExpr
<1>6. s.rest = c
  BY <1>3, <1>5 DEF Wrote, Reads
<1> QED BY <1>3, <1>5, <1>6 DEF Wrote, Means

LEMMA WrittenType ==
  ASSUME NEW conds \in Seq(Condition), NEW logic \in Seq(Lexeme), NEW offset \in Nat
  PROVE  buildExpressionWhere(conds, logic, offset) \in ParserState
<1> DEFINE s == [rest |-> tokenizeLogic(logic), conds |-> conds, offset |-> offset,
                 params |-> <<>>, sql |-> <<>>, bad |-> FALSE]
           p == buildExpressionWhere(conds, logic, offset)
           refused == Len(s.conds) > MaxConditions \/ \E i \in DOMAIN s.conds : ~Known(s.conds[i])
<1>1. s \in ParserState /\ ~s.bad /\ s.sql = <<>>
  BY TokensOf DEF ParserState
<1>2. p = IF refused THEN Fail(s) ELSE IF s.rest = <<>> THEN AndAll(s) ELSE parseLogic(s)
  BY DEF buildExpressionWhere, Written
<1> HIDE DEF s
<1>3. CASE refused
  BY <1>1, <1>2, <1>3, FailType
<1>4. CASE ~refused /\ s.rest = <<>>
  <2>1. DOMAIN s.conds = 1..Len(s.conds)
    BY <1>1 DEF ParserState
  <2>2. KnownAll(s)
    BY <1>4, <2>1 DEF KnownAll
  <2> QED BY <1>1, <1>2, <1>4, <2>2, AndAllSays
<1>5. CASE ~refused /\ s.rest # <<>>
  <2> DEFINE e == Result("expr", s)
  <2>1. e \in ParserState
    BY <1>1, ResultIs DEF Rules, Within
  <2>2. p = IF e.bad \/ e.rest # <<>> THEN Fail(e) ELSE e
    BY <1>2, <1>5 DEF parseLogic, Result, Complete
  <2> HIDE DEF e
  <2> QED BY <2>1, <2>2, FailType
<1> QED BY <1>3, <1>4, <1>5

\* The statement built for conditions and a logic expression is true of exactly
\* the rows that satisfy the expression, with every condition bound to its own
\* parameters, whatever number they begin at (buildExpressionWhere, parseLogic).
THEOREM WrittenMeans ==
  ASSUME NEW conds \in Seq(Condition), NEW logic \in Seq(Lexeme), NEW offset \in Nat,
         ~buildExpressionWhere(conds, logic, offset).bad
  PROVE  \A scope : scope.conds = conds /\ scope.logic = logic =>
           Filtered(scope, offset, buildExpressionWhere(conds, logic, offset))
<1> DEFINE s == [rest |-> tokenizeLogic(logic), conds |-> conds, offset |-> offset,
                 params |-> <<>>, sql |-> <<>>, bad |-> FALSE]
           p == buildExpressionWhere(conds, logic, offset)
<1>1. s \in ParserState
  BY TokensOf DEF ParserState
<1>2. /\ s.rest = tokenizeLogic(logic) /\ s.conds = conds /\ s.offset = offset
      /\ s.params = <<>> /\ s.sql = <<>> /\ ~s.bad
  OBVIOUS
<1>3. p = Written(s)
  BY DEF buildExpressionWhere
<1> HIDE DEF s, p
<1>4. /\ KnownAll(s)
      /\ p = IF s.rest = <<>> THEN AndAll(s) ELSE parseLogic(s)
  <2> DEFINE refused == Len(s.conds) > MaxConditions \/ \E i \in DOMAIN s.conds : ~Known(s.conds[i])
  <2>1. p = IF refused THEN Fail(s) ELSE IF s.rest = <<>> THEN AndAll(s) ELSE parseLogic(s)
    BY <1>3 DEF Written
  <2>2. ~refused
    BY <1>1, <2>1, FailType DEF p
  <2>3. DOMAIN s.conds = 1..Len(s.conds)
    BY <1>1 DEF ParserState
  <2>4. KnownAll(s)
    BY <2>2, <2>3 DEF KnownAll
  <2> QED BY <2>1, <2>2, <2>4
<1>5. ~p.bad
  BY DEF p
<1> SUFFICES ASSUME NEW scope, scope.conds = conds, scope.logic = logic PROVE Filtered(scope, offset, p)
  BY DEF p
<1>6. CASE logic = <<>>
  <2>1. s.rest = <<>>
    BY <1>2, <1>6, TokensOf
  <2>2. p = AndAll(s)
    BY <1>4, <2>1
  <2>3. Says(s, p, Len(conds))
    BY <1>1, <1>2, <1>4, <1>5, <2>2, AndAllSays
  <2>4. ASSUME NEW r PROVE AllTrue(conds, Len(conds), r) <=> Meaning(scope, r)
    BY <1>6 DEF AllTrue, Meaning
  <2>5. p.sql \in Seq(SqlWord) /\ p.params \in Seq(Seq(Int))
    BY <2>3 DEF Says, Extends, ParserState
  <2> QED BY <1>2, <2>3, <2>4, <2>5 DEF Says, Filtered
<1>7. CASE logic # <<>>
  <2>1. s.rest # <<>> /\ s.rest \in Seq(Token)
    BY <1>2, <1>7, TokensOf
  <2>2. p = parseLogic(s)
    BY <1>4, <2>1
  <2>3. /\ Extends(p, s) /\ Plain(p.sql)
        /\ \A Q, r : Agree(Q, s.offset, p.params) =>
             /\ Of(Row(Q, r), p.sql) = Of(Chosen(s.conds, r), s.rest)
             /\ Of(Row(Q, r), p.sql) \in Three
    BY <1>1, <1>2, <1>4, <1>5, <2>2, ExpressionMeans
  <2>4. ASSUME NEW r PROVE Of(Chosen(conds, r), s.rest) = 2 <=> Meaning(scope, r)
    <3> DEFINE t == s.rest
               a == Image(Chosen(conds, r), t)
               b == [i \in DOMAIN t |-> IF t[i].type = "NUM"
                                        THEN Num(ConditionValue(scope.conds[t[i].value], r))
                                        ELSE t[i]]
    <3>1. \A i \in DOMAIN t : t[i] \in Token /\ t[i] \in SqlWord
      BY <2>1, TokensAreWords
    <3>2. \A i \in DOMAIN t : Chosen(conds, r)[t[i]] = IF t[i].type = "NUM"
                                        THEN Num(ConditionValue(scope.conds[t[i].value], r))
                                        ELSE t[i]
      BY <3>1 DEF Chosen
    <3>3. a = b
      BY <3>2 DEF Image
    <3>4. Meaning(scope, r) <=> Value[b] = 2
      BY <1>2, <1>7 DEF Meaning
    <3> QED BY <3>3, <3>4 DEF Of
  <2>5. p.sql \in Seq(SqlWord) /\ p.params \in Seq(Seq(Int))
    BY <2>3 DEF Extends, ParserState
  <2>6. Clausal(p.sql) /\ \A h : Reading(h) /\ Of(h, p.sql) \in Three => Chain(h, p.sql)
    BY <2>3, PlainChain
  <2>7. ASSUME NEW Q, NEW r, Agree(Q, offset, p.params)
        PROVE  Chain(Row(Q, r), p.sql) /\ (Of(Row(Q, r), p.sql) = 2 <=> Meaning(scope, r))
    BY <1>2, <2>3, <2>4, <2>6, <2>7, RowReads
  <2> QED BY <2>5, <2>6, <2>7 DEF Filtered
<1> QED BY <1>6, <1>7

-----------------------------------------------------------------------------
(* The other way round: every expression over conditions is read whole.     *)

\* A rule that ends in front of d.
Goes(rule, s, d) ==
  ~Result(rule, s).bad /\ Result(rule, s).rest = d /\ Result(rule, s).conds = s.conds
\* What d may not begin with, for a rule to end there.
Still(rule, d) ==
  d # <<>> => /\ rule \in {"term", "expr"} => Head(d).type # "AND"
              /\ rule = "expr" => Head(d).type # "OR"
Facing(s, c, d) ==
  s \in ParserState /\ ~s.bad /\ Fine(s.conds, c) /\ d \in Seq(Token)
Reaches(rule, c) ==
  \A s, d : Facing(s, c, d) /\ s.rest = c \o d /\ Still(rule, d) => Goes(rule, s, d)
Continues(type, c) ==
  \A s, d : Facing(s, c, d) /\ s.rest = Behind(type, c) \o d /\ Still(Outer(type), d)
              => Goes(Turn(type), s, d)

LEMMA OuterRun ==
  ASSUME NEW type \in {"OR", "AND"}, NEW s \in ParserState, ~s.bad
  PROVE  Result(Outer(type), s) = Result(Turn(type), Result(Inner(type), s))
<1>1. Outer(type) \in Rules
  BY DEF Outer, Rules
<1>2. Result(Outer(type), s) = ParseBy(parse, Outer(type), s)
  BY <1>1, ResultIs
<1>3. CASE type = "OR"
  BY <1>2, <1>3 DEF ParseBy, Outer, Inner, Turn, Result
<1>4. CASE type = "AND"
  BY <1>2, <1>4 DEF ParseBy, Outer, Inner, Turn, Result
<1> QED BY <1>3, <1>4

LEMMA TurnRun ==
  ASSUME NEW type \in {"OR", "AND"}, NEW s \in ParserState, ~s.bad
  PROVE  Result(Turn(type), s) =
           IF At(s, type) THEN Result(Turn(type), Joined(s, type, Result(Inner(type), Eat(s))))
           ELSE s
<1>1. Turn(type) \in Rules
  BY DEF Turn, Rules
<1>2. Result(Turn(type), s) = ParseBy(parse, Turn(type), s)
  BY <1>1, ResultIs
<1>3. CASE type = "OR"
  BY <1>2, <1>3 DEF ParseBy, Inner, Turn, Result
<1>4. CASE type = "AND"
  BY <1>2, <1>4 DEF ParseBy, Inner, Turn, Result
<1> QED BY <1>3, <1>4

LEMMA FactorRun ==
  ASSUME NEW s \in ParserState, ~s.bad
  PROVE  /\ At(s, "NOT") => Result("factor", s) = Negated(Result("factor", Eat(s)))
         /\ At(s, "LP") => Result("factor", s) = Closed(Result("expr", Eat(s)))
         /\ At(s, "NUM") => Result("factor", s) = Numbered(s)
<1>1. Result("factor", s) = ParseBy(parse, "factor", s)
  BY ResultIs DEF Rules
<1>2. /\ ~(At(s, "NOT") /\ At(s, "LP")) /\ ~(At(s, "NOT") /\ At(s, "NUM"))
      /\ ~(At(s, "LP") /\ At(s, "NUM"))
  BY DEF At
<1>3. Result("factor", s) = CASE At(s, "NOT") -> Negated(Result("factor", Eat(s)))
                              [] At(s, "LP") -> Closed(Result("expr", Eat(s)))
                              [] At(s, "NUM") -> Numbered(s)
                              [] OTHER -> Fail(s)
  BY <1>1 DEF ParseBy, Result
<1> QED BY <1>2, <1>3

LEMMA Starts ==
  ASSUME NEW s \in ParserState, NEW x \in Token, NEW y \in Seq(Token), s.rest = <<x>> \o y
  PROVE  /\ Eat(s) \in ParserState /\ Eat(s).rest = y /\ Eat(s).conds = s.conds /\ Eat(s).bad = s.bad
         /\ \A type : At(s, type) <=> x.type = type
<1>1. s.rest # <<>> /\ Head(s.rest) = x /\ Tail(s.rest) = y
  OBVIOUS
<1>2. Eat(s).rest = y
  BY <1>1 DEF Eat, ParserState
<1> QED BY <1>1, <1>2, EatType DEF At

LEMMA IdleIs ==
  ASSUME NEW type \in {"OR", "AND"}, NEW d \in Seq(Token), Still(Outer(type), d)
  PROVE  /\ Still(Inner(type), d)
         /\ \A s : s.rest = d => ~At(s, type)
         /\ \A b \in Seq(Token) : Still(Inner(type), Behind(type, b) \o d)
                                  /\ Behind(type, b) \o d \in Seq(Token)
<1>1. Still(Inner(type), d) /\ \A s : s.rest = d => ~At(s, type)
  BY DEF Still, Outer, Inner, At
<1>2. ASSUME NEW b \in Seq(Token)
      PROVE  Still(Inner(type), Behind(type, b) \o d) /\ Behind(type, b) \o d \in Seq(Token)
  <2>1. Tok(type) \in Token /\ Tok(type).type = type
    BY MarkOf DEF Marks
  <2> DEFINE x == Tok(type)
             z == Behind(type, b) \o d
  <2>2. Behind(type, b) = <<x>> \o b
    BY DEF Behind
  <2> HIDE DEF x
  <2>3. z \in Seq(Token) /\ Head(z) = x
    BY <2>1, <2>2 DEF x
  <2> HIDE DEF z
  <2>4. Still(Inner(type), z)
    BY <2>1, <2>3 DEF Still, Inner, x
  <2> QED BY <2>3, <2>4 DEF z
<1> QED BY <1>1, <1>2

\* An item, and the loop that goes on after it.
LEMMA ItemReaches ==
  ASSUME NEW type \in {"OR", "AND"}, NEW c, Legal(c), Rest(type, c),
         Left(type, c) => Reaches(Inner(type), c),
         \A a : Legal(a) /\ Len(a) < Len(c) /\ Left(type, a) => Reaches(Inner(type), a),
         \A b : Legal(b) /\ Len(b) < Len(c) /\ Rest(type, b) => Continues(type, b),
         NEW s, NEW d, Facing(s, c, d), s.rest = c \o d, Still(Outer(type), d)
  PROVE  LET t == Result(Inner(type), s)
         IN /\ t \in ParserState /\ ~t.bad /\ t.conds = s.conds
            /\ \A q \in ParserState : ~q.bad /\ q.rest = t.rest /\ q.conds = s.conds
                                        => Goes(Turn(type), q, d)
<1> DEFINE t == Result(Inner(type), s)
<1>1. s \in ParserState /\ ~s.bad /\ Fine(s.conds, c) /\ d \in Seq(Token)
  BY DEF Facing
<1>2. t \in ParserState
  <2>1. Inner(type) \in Rules
    BY DEF Inner, Rules
  <2> QED BY <1>1, <2>1, ResultIs DEF Within
<1>3. CASE Left(type, c)
  <2>1. Goes(Inner(type), s, d)
    BY <1>1, <1>3, IdleIs DEF Reaches
  <2>2. ASSUME NEW q \in ParserState, ~q.bad, q.rest = d, q.conds = s.conds
        PROVE  Goes(Turn(type), q, d)
    <3>1. ~At(q, type)
      BY <1>1, <2>2, IdleIs
    <3>2. Result(Turn(type), q) = q
      BY <2>2, <3>1, TurnRun
    <3> QED BY <2>2, <3>2 DEF Goes
  <2> QED BY <1>2, <2>1, <2>2 DEF Goes
<1>4. CASE \E a, b : Severs(type, c, a, b) /\ Left(type, a) /\ Rest(type, b)
  <2>1. PICK a, b : Severs(type, c, a, b) /\ Left(type, a) /\ Rest(type, b)
    BY <1>4
  <2>2. /\ Legal(a) /\ Legal(b) /\ a \in Seq(Token) /\ b \in Seq(Token)
        /\ c = Infix(a, type, b) /\ Len(a) < Len(c) /\ Len(b) < Len(c)
    BY <2>1 DEF Severs, Legal
  <2> DEFINE z == Behind(type, b) \o d
  <2>3. z \in Seq(Token) /\ Still(Inner(type), z)
    BY <1>1, <2>2, IdleIs
  <2>4. s.rest = a \o z
    <3>1. c = a \o Behind(type, b) /\ Behind(type, b) \in Seq(Token)
      BY <2>2, InfixType DEF Reads
    <3> DEFINE y == Behind(type, b)
    <3>y. y \in Seq(Token)
      BY <3>1
    <3> HIDE DEF y
    <3>2. (a \o y) \o d = a \o (y \o d)
      BY <1>1, <2>2, <3>y, ConcatAssociative
    <3> QED BY <3>1, <3>2 DEF y
  <2>5. Fine(s.conds, a) /\ Fine(s.conds, b)
    BY <1>1, <2>2, FineOf
  <2>6. Goes(Inner(type), s, z)
    <3>1. Facing(s, a, z) /\ Reaches(Inner(type), a)
      BY <1>1, <2>1, <2>2, <2>3, <2>5 DEF Facing
    <3> HIDE DEF z
    <3> QED BY <2>3, <2>4, <3>1 DEF Reaches
  <2>7. ASSUME NEW q \in ParserState, ~q.bad, q.rest = z, q.conds = s.conds
        PROVE  Goes(Turn(type), q, d)
    <3>1. Facing(q, b, d) /\ Continues(type, b)
      BY <1>1, <2>1, <2>2, <2>5, <2>7 DEF Facing
    <3> QED BY <2>7, <3>1 DEF Continues
  <2> HIDE DEF z
  <2> QED BY <1>2, <2>6, <2>7 DEF Goes
<1> QED BY <1>3, <1>4, LegalSplit

LEMMA LevelReaches ==
  ASSUME NEW type \in {"OR", "AND"}, NEW c, Legal(c), Rest(type, c),
         Left(type, c) => Reaches(Inner(type), c),
         \A a : Legal(a) /\ Len(a) < Len(c) /\ Left(type, a) => Reaches(Inner(type), a),
         \A b : Legal(b) /\ Len(b) < Len(c) /\ Rest(type, b) => Continues(type, b)
  PROVE  Reaches(Outer(type), c) /\ Continues(type, c)
<1>1. ASSUME NEW s, NEW d, Facing(s, c, d), s.rest = c \o d, Still(Outer(type), d)
      PROVE  Goes(Outer(type), s, d)
  <2> DEFINE t == Result(Inner(type), s)
  <2>1. /\ t \in ParserState /\ ~t.bad /\ t.conds = s.conds
        /\ \A q \in ParserState : ~q.bad /\ q.rest = t.rest /\ q.conds = s.conds
                                    => Goes(Turn(type), q, d)
    BY <1>1, ItemReaches
  <2>2. Goes(Turn(type), t, d)
    BY <2>1
  <2>3. Result(Outer(type), s) = Result(Turn(type), t)
    BY <1>1, OuterRun DEF Facing
  <2> QED BY <2>1, <2>2, <2>3 DEF Goes
<1>2. ASSUME NEW s, NEW d, Facing(s, c, d), s.rest = Behind(type, c) \o d, Still(Outer(type), d)
      PROVE  Goes(Turn(type), s, d)
  <2> DEFINE u == Eat(s)
             t == Result(Inner(type), u)
             j == Joined(s, type, t)
             x == Tok(type)
  <2>1. s \in ParserState /\ ~s.bad /\ Fine(s.conds, c) /\ d \in Seq(Token) /\ c \in Seq(Token)
    BY <1>2 DEF Facing, Legal
  <2>2. x \in Token /\ x.type = type
    BY MarkOf DEF Marks
  <2>3. s.rest = <<x>> \o (c \o d) /\ c \o d \in Seq(Token)
    <3> DEFINE y == <<x>>
    <3>1. y \in Seq(Token)
      BY <2>2
    <3>2. s.rest = (y \o c) \o d
      BY <1>2 DEF Behind
    <3> HIDE DEF y
    <3>3. (y \o c) \o d = y \o (c \o d) /\ c \o d \in Seq(Token)
      BY <2>1, <3>1, ConcatAssociative, ConcatProperties
    <3> QED BY <3>2, <3>3 DEF y
  <2>4. /\ u \in ParserState /\ u.rest = c \o d /\ u.conds = s.conds /\ ~u.bad
        /\ At(s, type)
    <3> HIDE DEF x
    <3> QED BY <2>1, <2>2, <2>3, Starts
  <2>5. Facing(u, c, d)
    BY <2>1, <2>4 DEF Facing
  <2>6. /\ t \in ParserState /\ ~t.bad /\ t.conds = u.conds
        /\ \A q \in ParserState : ~q.bad /\ q.rest = t.rest /\ q.conds = u.conds
                                    => Goes(Turn(type), q, d)
    <3> HIDE DEF u
    <3> QED BY <1>2, <2>4, <2>5, ItemReaches
  <2>7. j \in ParserState /\ ~j.bad /\ j.rest = t.rest /\ j.conds = t.conds
    <3> HIDE DEF t
    <3>1. j = [t EXCEPT !.sql = Paren(s.sql \o <<Tok(type)>> \o t.sql)] /\ j \in ParserState
      BY <2>1, <2>6, JoinedType
    <3> DEFINE w == Paren(s.sql \o <<Tok(type)>> \o t.sql)
    <3> HIDE DEF w, j
    <3>2. j = [t EXCEPT !.sql = w]
      BY <3>1 DEF w
    <3> QED BY <2>6, <3>1, <3>2 DEF ParserState
  <2>8. Goes(Turn(type), j, d)
    BY <2>4, <2>6, <2>7
  <2>9. Result(Turn(type), s) = Result(Turn(type), j)
    BY <2>1, <2>4, TurnRun
  <2> QED BY <2>4, <2>6, <2>7, <2>8, <2>9 DEF Goes
<1> QED BY <1>1, <1>2 DEF Reaches, Continues

LEMMA BindGood ==
  ASSUME NEW s \in ParserState, ~s.bad, NEW c \in Condition
  PROVE  /\ Bind(s, c).conds = s.conds
         /\ Bind(s, c).bad <=> buildClause(c) = Rejected
<1> DEFINE cl == buildClause(c)
           ps == [i \in DOMAIN cl.operands |-> s.offset + Len(s.params) + i]
           x == <<Test(c.field, c.operator, ps)>>
           y == s.params \o cl.operands
           T == <<Tok("TRUE")>>
<1>1. Rejected # Skipped
  BY DEF Rejected, Skipped
<1>2. Bind(s, c) = CASE cl = Rejected -> Fail(s)
                     [] cl = Skipped -> [s EXCEPT !.sql = T]
                     [] OTHER -> [s EXCEPT !.params = y, !.sql = x]
  BY DEF Bind, Bound
<1> HIDE DEF cl, x, y, T
<1>3. CASE cl = Rejected
  BY <1>1, <1>2, <1>3 DEF Fail, ParserState, cl
<1>4. CASE cl # Rejected /\ cl = Skipped
  BY <1>2, <1>4 DEF ParserState, cl
<1>5. CASE cl # Rejected /\ cl # Skipped
  BY <1>2, <1>5 DEF ParserState, cl
<1> QED BY <1>3, <1>4, <1>5

LEMMA FactorReaches ==
  ASSUME NEW c, Legal(c), Plain(c),
         \A a : Legal(a) /\ Len(a) < Len(c) => Reaches("expr", a) /\ (Plain(a) => Reaches("factor", a))
  PROVE  Reaches("factor", c)
<1> SUFFICES ASSUME NEW s, NEW d, Facing(s, c, d), s.rest = c \o d
             PROVE  Goes("factor", s, d)
  BY DEF Reaches
<1>1. s \in ParserState /\ ~s.bad /\ Fine(s.conds, c) /\ d \in Seq(Token)
  BY DEF Facing
<1> DEFINE u == Eat(s)
<1>2. CASE \E a : Legal(a) /\ Plain(a) /\ c = <<Tok("NOT")>> \o a /\ Len(a) < Len(c)
  <2>1. PICK a : Legal(a) /\ Plain(a) /\ c = <<Tok("NOT")>> \o a /\ Len(a) < Len(c)
    BY <1>2
  <2> DEFINE x == Tok("NOT")
             t == Result("factor", u)
  <2>2. x \in Token /\ x.type = "NOT" /\ a \in Seq(Token)
    BY <2>1, MarkOf DEF Marks, Legal
  <2>3. s.rest = <<x>> \o (a \o d) /\ a \o d \in Seq(Token)
    <3> DEFINE y == <<x>>
    <3>1. y \in Seq(Token)
      BY <2>2
    <3>2. s.rest = (y \o a) \o d
      BY <2>1
    <3> HIDE DEF y
    <3>3. (y \o a) \o d = y \o (a \o d) /\ a \o d \in Seq(Token)
      BY <1>1, <2>2, <3>1, ConcatAssociative, ConcatProperties
    <3> QED BY <3>2, <3>3 DEF y
  <2>4. u \in ParserState /\ u.rest = a \o d /\ u.conds = s.conds /\ ~u.bad /\ At(s, "NOT")
    <3> HIDE DEF x
    <3> QED BY <1>1, <2>2, <2>3, Starts
  <2>5. Fine(s.conds, a)
    BY <1>1, <2>1, <2>2, FineOf
  <2>6. Goes("factor", u, d)
    BY <1>1, <2>1, <2>4, <2>5 DEF Reaches, Facing, Still
  <2>7. t \in ParserState
    <3> HIDE DEF u
    <3> QED BY <2>4, ResultIs DEF Within, Rules
  <2>8. Result("factor", s) = Negated(t)
    BY <1>1, <2>4, FactorRun
  <2>9. Negated(t).rest = t.rest /\ Negated(t).conds = t.conds /\ Negated(t).bad = t.bad
    <3> HIDE DEF t
    <3>1. <<Tok("NOT")>> \o t.sql \in Seq(SqlWord)
      <4>1. Tok("NOT") \in SqlWord
        BY DEF Tok, SqlWord, Token
      <4> QED BY <2>7, <4>1 DEF ParserState
    <3> QED BY <2>7, <3>1, WithSql DEF Negated
  <2> HIDE DEF u
  <2> QED BY <2>4, <2>6, <2>8, <2>9 DEF Goes
<1>3. CASE \E a : Legal(a) /\ Balanced(a) /\ c = Paren(a) /\ Len(a) < Len(c)
  <2>1. PICK a : Legal(a) /\ c = Paren(a) /\ Len(a) < Len(c)
    BY <1>3
  <2> DEFINE x == Tok("LP")
             y == Tok("RP")
             e == <<y>> \o d
             t == Result("expr", u)
             v == Eat(t)
  <2>2. /\ x \in Token /\ x.type = "LP" /\ y \in Token /\ y.type = "RP" /\ a \in Seq(Token)
    BY <2>1, MarkOf DEF Marks, Legal
  <2>3. /\ e \in Seq(Token) /\ a \o e \in Seq(Token)
        /\ s.rest = <<x>> \o (a \o e)
    <3> DEFINE f == <<x>>
               g == <<y>>
    <3>1. f \in Seq(Token) /\ g \in Seq(Token)
      BY <2>2
    <3>2. s.rest = ((f \o a) \o g) \o d /\ e = g \o d
      BY <2>1 DEF Paren
    <3> HIDE DEF f, g, e
    <3>3. f \o a \in Seq(Token) /\ e \in Seq(Token)
      BY <1>1, <2>2, <3>1, <3>2, ConcatProperties
    <3> DEFINE h == f \o a
    <3>4. h \in Seq(Token) /\ s.rest = (h \o g) \o d
      BY <3>2, <3>3
    <3> HIDE DEF h
    <3>5. (h \o g) \o d = h \o (g \o d)
      BY <1>1, <3>1, <3>4, ConcatAssociative
    <3>6. (f \o a) \o e = f \o (a \o e) /\ a \o e \in Seq(Token)
      BY <2>2, <3>1, <3>3, ConcatAssociative, ConcatProperties
    <3>7. s.rest = f \o (a \o e)
      BY <3>2, <3>4, <3>5, <3>6 DEF h
    <3> QED BY <3>3, <3>6, <3>7 DEF f
  <2>4. u \in ParserState /\ u.rest = a \o e /\ u.conds = s.conds /\ ~u.bad /\ At(s, "LP")
    <3> HIDE DEF x, e
    <3> QED BY <1>1, <2>2, <2>3, Starts
  <2>5. Fine(s.conds, a)
    BY <1>1, <2>1, <2>2, FineOf
  <2>6. Goes("expr", u, e)
    <3>1. Still("expr", e)
      <4>1. Head(e) = y
        BY <1>1, <2>2
      <4> HIDE DEF e, y
      <4> QED BY <2>2, <4>1 DEF Still
    <3> HIDE DEF e, u
    <3> QED BY <1>1, <2>1, <2>3, <2>4, <2>5, <3>1 DEF Reaches, Facing
  <2>7. t \in ParserState /\ ~t.bad /\ t.rest = <<y>> \o d /\ t.conds = s.conds
    <3>1. t \in ParserState
      <4> HIDE DEF u
      <4> QED BY <2>4, ResultIs DEF Within, Rules
    <3> HIDE DEF u, y
    <3> QED BY <2>4, <2>6, <3>1 DEF Goes
  <2>8. Result("factor", s) = Closed(t)
    BY <1>1, <2>4, FactorRun
  <2> HIDE DEF t, u, y
  <2>9. v \in ParserState /\ v.rest = d /\ v.conds = t.conds /\ ~v.bad /\ At(t, "RP")
    <3>1. y \in Token /\ y.type = "RP" /\ t \in ParserState /\ t.rest = <<y>> \o d /\ ~t.bad
      BY <2>2, <2>7
    <3> QED BY <1>1, <3>1, Starts
  <2>10. Closed(t) = [v EXCEPT !.sql = Paren(v.sql)]
    BY <2>7, <2>9 DEF Closed
  <2>11. Closed(t).rest = d /\ Closed(t).conds = t.conds /\ ~Closed(t).bad
    <3>1. Paren(v.sql) \in Seq(SqlWord)
      BY <2>9, ParenType DEF ParserState
    <3> HIDE DEF v
    <3> QED BY <2>9, <2>10, <3>1, WithSql
  <2> QED BY <2>7, <2>8, <2>11 DEF Goes
<1>4. CASE \E v \in Int : c = <<Num(v)>>
  <2>1. PICK v \in Int : c = <<Num(v)>>
    BY <1>4
  <2> DEFINE x == Num(v)
  <2>2. x \in Token /\ x.type = "NUM" /\ x.value = v
    BY NumIs DEF Num
  <2>3. v \in 1..Len(s.conds) /\ buildClause(s.conds[v]) # Rejected
    <3>1. 1 \in DOMAIN c /\ c[1] = x
      BY <2>1
    <3> HIDE DEF x
    <3> QED BY <1>1, <2>2, <3>1 DEF Fine
  <2>4. u \in ParserState /\ u.rest = d /\ u.conds = s.conds /\ ~u.bad /\ At(s, "NUM")
    <3>1. s.rest = <<x>> \o d
      BY <2>1
    <3> HIDE DEF x
    <3> QED BY <1>1, <2>2, <3>1, Starts
  <2>5. Head(s.rest) = x
    BY <1>1, <2>1, <2>2
  <2>6. Result("factor", s) = Bind(u, s.conds[v])
    <3>1. Result("factor", s) = Numbered(s)
      BY <1>1, <2>4, FactorRun
    <3>2. ~(v < 1 \/ v > Len(s.conds))
      BY <1>1, <2>3 DEF ParserState
    <3> HIDE DEF x
    <3> QED BY <2>2, <2>5, <3>1, <3>2 DEF Numbered
  <2>7. s.conds[v] \in Condition
    BY <1>1, <2>3 DEF ParserState
  <2>8. /\ Bind(u, s.conds[v]).conds = u.conds /\ ~Bind(u, s.conds[v]).bad
        /\ Bind(u, s.conds[v]).rest = u.rest
    <3> HIDE DEF u
    <3> QED BY <2>3, <2>4, <2>7, BindGood, BindType
  <2> QED BY <2>4, <2>6, <2>8 DEF Goes
<1> QED BY <1>2, <1>3, <1>4, LegalPlain

Whole(c) ==
  /\ Plain(c) => Reaches("factor", c)
  /\ \A type \in {"OR", "AND"} : Rest(type, c) => Reaches(Outer(type), c) /\ Continues(type, c)

LEMMA WholeStep ==
  ASSUME NEW c, Legal(c), \A a : Legal(a) /\ Len(a) < Len(c) => Whole(a)
  PROVE  Whole(c)
<1>1. \A a : Legal(a) /\ Len(a) < Len(c) => Reaches("expr", a) /\ (Plain(a) => Reaches("factor", a))
  <2> TAKE a
  <2> HAVE Legal(a) /\ Len(a) < Len(c)
  <2>1. Whole(a) /\ Rest("OR", a)
    BY LegalBalanced DEF Rest
  <2> QED BY <2>1 DEF Whole, Outer
<1>2. Plain(c) => Reaches("factor", c)
  BY <1>1, FactorReaches
<1>3. \A a : Left("AND", a) <=> Plain(a)
  BY DEF Left, Plain
<1>4. \A a : Left("OR", a) <=> Rest("AND", a)
  BY DEF Left, Rest
<1>5. Rest("AND", c) => Reaches(Outer("AND"), c) /\ Continues("AND", c)
  <2>1. Left("AND", c) => Reaches(Inner("AND"), c)
    BY <1>2, <1>3 DEF Inner
  <2>2. \A a : Legal(a) /\ Len(a) < Len(c) /\ Left("AND", a) => Reaches(Inner("AND"), a)
    BY <1>1, <1>3 DEF Inner
  <2>3. \A b : Legal(b) /\ Len(b) < Len(c) /\ Rest("AND", b) => Continues("AND", b)
    BY DEF Whole
  <2> QED BY <2>1, <2>2, <2>3, LevelReaches
<1>6. Rest("OR", c) => Reaches(Outer("OR"), c) /\ Continues("OR", c)
  <2>1. Left("OR", c) => Reaches(Inner("OR"), c)
    BY <1>4, <1>5 DEF Inner, Outer
  <2>2. \A a : Legal(a) /\ Len(a) < Len(c) /\ Left("OR", a) => Reaches(Inner("OR"), a)
    BY <1>4 DEF Inner, Outer, Whole
  <2>3. \A b : Legal(b) /\ Len(b) < Len(c) /\ Rest("OR", b) => Continues("OR", b)
    BY DEF Whole
  <2> QED BY <2>1, <2>2, <2>3, LevelReaches
<1> QED BY <1>2, <1>5, <1>6 DEF Whole

LEMMA LegalWhole == \A c : Legal(c) => Whole(c)
<1> DEFINE G == {k \in Nat : \A c : Legal(c) /\ Len(c) < k => Whole(c)}
<1>0. \A c : Legal(c) => Len(c) \in Nat
  BY DEF Legal
<1>1. 0 \in G
  <2>1. \A c : Legal(c) => ~(Len(c) < 0)
    BY <1>0
  <2> QED BY <2>1
<1>2. ASSUME NEW k \in Nat, k \in G PROVE k + 1 \in G
  <2> SUFFICES ASSUME NEW c, Legal(c), Len(c) < k + 1 PROVE Whole(c)
    OBVIOUS
  <2>1. \A a : Legal(a) /\ Len(a) < Len(c) => Len(a) < k
    BY <1>0
  <2>2. \A a : Legal(a) /\ Len(a) < Len(c) => Whole(a)
    BY <1>2, <2>1
  <2> QED BY <2>2, WholeStep
<1> HIDE DEF G
<1>3. \A n \in Nat : n \in G
  BY <1>1, <1>2, SetInduction
<1> SUFFICES ASSUME NEW c, Legal(c) PROVE Whole(c)
  OBVIOUS
<1>4. Len(c) + 1 \in G /\ Len(c) < Len(c) + 1
  BY <1>0, <1>3
<1> QED BY <1>4 DEF G

\* The parser accepts the expressions over conditions that can be read, and
\* nothing else (parseLogic).
LEMMA ParsedIs ==
  ASSUME NEW s \in ParserState, KnownAll(s), ~s.bad
  PROVE  parseLogic(s).bad <=> ~Readable(s.conds, s.rest)
<1>1. ~parseLogic(s).bad => Readable(s.conds, s.rest)
  BY ExpressionMeans
<1>2. ASSUME Readable(s.conds, s.rest) PROVE ~parseLogic(s).bad
  <2> DEFINE c == s.rest
             e == Result("expr", s)
  <2>1. Legal(c) /\ Fine(s.conds, c)
    BY <1>2 DEF Readable
  <2>2. Rest("OR", c)
    BY <2>1, LegalBalanced DEF Rest
  <2>3. Reaches("expr", c)
    BY <2>1, <2>2, LegalWhole DEF Whole, Outer
  <2>4. s.rest = c \o <<>> /\ <<>> \in Seq(Token)
    BY DEF ParserState
  <2>5. Facing(s, c, <<>>) /\ Still("expr", <<>>)
    BY <2>1, <2>4 DEF Facing, Still
  <2> HIDE DEF c
  <2>6. Goes("expr", s, <<>>)
    BY <2>3, <2>4, <2>5 DEF Reaches
  <2>7. ~e.bad /\ e.rest = <<>>
    BY <2>6 DEF Goes
  <2>8. parseLogic(s) = e
    <3>1. parseLogic(s) = Complete(e)
      BY DEF parseLogic, Result
    <3> HIDE DEF e
    <3> QED BY <2>7, <3>1 DEF Complete
  <2> QED BY <2>7, <2>8
<1> QED BY <1>1, <1>2

\* Conditions without a logic expression are refused when one of them is.
LEMMA AndAllBad ==
  ASSUME NEW s \in ParserState, ~s.bad
  PROVE  AndAll(s).bad <=> \E i \in 1..Len(s.conds) : buildClause(s.conds[i]) = Rejected
<1> DEFINE N == Len(s.conds)
<1>1. N \in Nat /\ \A n \in 1..N : s.conds[n] \in Condition
  BY DEF ParserState
<1>2. PICK f : /\ f[0] = s /\ f[N] = AndAll(s)
               /\ \A n \in 1..N : f[n] = Anded(f[n - 1], Bind(f[n - 1], s.conds[n]))
  BY AndAllRuns
<1> HIDE DEF N
<1> DEFINE G == {n \in Nat : n <= N => /\ f[n] \in ParserState
                                       /\ f[n].bad <=> \E i \in 1..n : buildClause(s.conds[i]) = Rejected}
<1>3. 0 \in G
  BY <1>2
<1>4. ASSUME NEW n \in Nat, n \in G PROVE n + 1 \in G
  <2> SUFFICES ASSUME n + 1 <= N
               PROVE  /\ f[n + 1] \in ParserState
                      /\ f[n + 1].bad <=> \E i \in 1..n + 1 : buildClause(s.conds[i]) = Rejected
    OBVIOUS
  <2> DEFINE x == f[n]
             c == s.conds[n + 1]
             b == Bind(x, c)
  <2>1. n + 1 \in 1..N /\ (n + 1) - 1 = n /\ n <= N
    BY <1>1
  <2>2. x \in ParserState /\ (x.bad <=> \E i \in 1..n : buildClause(s.conds[i]) = Rejected)
    BY <1>4, <2>1
  <2>3. f[n + 1] = Anded(x, b)
    BY <1>2, <2>1
  <2>4. c \in Condition
    BY <1>1, <2>1
  <2> HIDE DEF x, c
  <2>5. b \in ParserState /\ Anded(x, b) \in ParserState
    BY <2>2, <2>4, BindType, AndedType
  <2>6. ~x.bad => (b.bad <=> buildClause(c) = Rejected)
    BY <2>2, <2>4, BindGood
  <2>7. Anded(x, b).bad <=> x.bad \/ buildClause(c) = Rejected
    <3> HIDE DEF b
    <3>1. CASE x.bad
      BY <3>1 DEF Anded
    <3>2. CASE ~x.bad /\ b.bad
      BY <2>6, <3>2 DEF Anded
    <3>3. CASE ~x.bad /\ ~b.bad
      <4>1. [b EXCEPT !.sql = x.sql \o <<Tok("AND")>> \o @].bad = b.bad
        BY <2>5 DEF ParserState
      <4> QED BY <2>6, <3>3, <4>1 DEF Anded
    <3> QED BY <3>1, <3>2, <3>3
  <2>8. (\E i \in 1..n + 1 : buildClause(s.conds[i]) = Rejected)
          <=> (\E i \in 1..n : buildClause(s.conds[i]) = Rejected) \/ buildClause(c) = Rejected
    <3>1. \A i : i \in 1..n + 1 <=> i \in 1..n \/ i = n + 1
      OBVIOUS
    <3> QED BY <3>1 DEF c
  <2> QED BY <2>2, <2>3, <2>5, <2>7, <2>8
<1> HIDE DEF G
<1>5. \A n \in Nat : n \in G
  BY <1>3, <1>4, SetInduction
<1>6. N \in G /\ N <= N
  BY <1>1, <1>5
<1> QED BY <1>2, <1>6 DEF G, N

\* A filter is answered exactly when its conditions can be read and its logic is
\* an expression over them (buildExpressionWhere, parseLogic).
THEOREM AnsweredExactly ==
  ASSUME MaxConditions \in Nat,
         NEW conds \in Seq(Condition), NEW logic \in Seq(Lexeme), NEW offset \in Nat
  PROVE  \A scope : scope.conds = conds /\ scope.logic = logic =>
           (buildExpressionWhere(conds, logic, offset).bad <=> ~Answerable(scope))
<1> DEFINE s == [rest |-> tokenizeLogic(logic), conds |-> conds, offset |-> offset,
                 params |-> <<>>, sql |-> <<>>, bad |-> FALSE]
           p == buildExpressionWhere(conds, logic, offset)
           refused == Len(s.conds) > MaxConditions \/ \E i \in DOMAIN s.conds : ~Known(s.conds[i])
<1>1. s \in ParserState
  BY TokensOf DEF ParserState
<1>2. s.rest = tokenizeLogic(logic) /\ s.conds = conds /\ ~s.bad
  OBVIOUS
<1>3. p = IF refused THEN Fail(s) ELSE IF s.rest = <<>> THEN AndAll(s) ELSE parseLogic(s)
  BY DEF buildExpressionWhere, Written
<1> HIDE DEF s, p
<1> SUFFICES ASSUME NEW scope, scope.conds = conds, scope.logic = logic
             PROVE  p.bad <=> ~Answerable(scope)
  BY DEF p
<1>4. DOMAIN conds = 1..Len(conds) /\ Len(conds) \in Nat
  OBVIOUS
<1>5. CASE refused
  <2>1. p.bad
    BY <1>1, <1>3, <1>5, FailType
  <2>2. ~Answerable(scope)
    BY <1>2, <1>4, <1>5 DEF Answerable
  <2> QED BY <2>1, <2>2
<1>6. CASE ~refused
  <2>1. Len(conds) =< MaxConditions /\ \A i \in DOMAIN conds : Known(conds[i])
    BY <1>2, <1>4, <1>6
  <2>2. KnownAll(s)
    BY <1>2, <1>4, <2>1 DEF KnownAll
  <2>3. CASE logic = <<>>
    <3>1. s.rest = <<>>
      BY <1>2, <2>3, TokensOf
    <3>2. p = AndAll(s)
      BY <1>3, <1>6, <3>1
    <3>3. p.bad <=> \E i \in 1..Len(conds) : buildClause(conds[i]) = Rejected
      BY <1>1, <1>2, <3>2, AndAllBad
    <3>4. Answerable(scope) <=> \A i \in DOMAIN conds : buildClause(conds[i]) # Rejected
      BY <2>1, <2>3 DEF Answerable
    <3> QED BY <1>4, <3>3, <3>4
  <2>4. CASE logic # <<>>
    <3> DEFINE t == tokenizeLogic(logic)
    <3>1. t # <<>> /\ t \in Seq(Token)
      BY <2>4, TokensOf
    <3>2. p = parseLogic(s)
      BY <1>2, <1>3, <1>6, <3>1
    <3>3. p.bad <=> ~Readable(conds, t)
      BY <1>1, <1>2, <2>2, <3>2, ParsedIs
    <3> HIDE DEF t
    <3>4. Answerable(scope) <=>
            WellFormed[t] /\ \A i \in DOMAIN t : t[i].type = "NUM" =>
              t[i].value \in DOMAIN conds /\ buildClause(conds[t[i].value]) # Rejected
      BY <2>1, <2>4 DEF Answerable, t
    <3>5. Readable(conds, t) <=> Answerable(scope)
      BY <1>4, <3>1, <3>4 DEF Readable, Legal, Fine
    <3> QED BY <3>3, <3>5
  <2> QED BY <2>3, <2>4
<1> QED BY <1>5, <1>6

-----------------------------------------------------------------------------
(* Two filters as one.                                                      *)

\* What holds of the numbers and is kept by the three ways of combining
\* expressions holds of every expression.
LEMMA LegalInduction ==
  ASSUME NEW S,
         \A type \in {"OR", "AND"} : \A a, b :
           Legal(a) /\ Legal(b) /\ Left(type, a) /\ Rest(type, b) /\ a \in S /\ b \in S
             => Infix(a, type, b) \in S,
         \A a : Legal(a) /\ Plain(a) /\ a \in S => <<Tok("NOT")>> \o a \in S,
         \A a : Legal(a) /\ a \in S => Paren(a) \in S,
         \A v \in Int : <<Num(v)>> \in S
  PROVE  \A t : Legal(t) => t \in S
<1> DEFINE G == {k \in Nat : \A t : Legal(t) /\ Len(t) < k => t \in S}
<1>0. \A t : Legal(t) => Len(t) \in Nat
  BY DEF Legal
<1>1. 0 \in G
  <2>1. \A t : Legal(t) => ~(Len(t) < 0)
    BY <1>0
  <2> QED BY <2>1
<1>2. ASSUME NEW k \in Nat, k \in G PROVE k + 1 \in G
  <2> SUFFICES ASSUME NEW t, Legal(t), Len(t) < k + 1 PROVE t \in S
    OBVIOUS
  <2>1. \A a : Legal(a) /\ Len(a) < Len(t) => a \in S
    <3>1. \A a : Legal(a) /\ Len(a) < Len(t) => Len(a) < k
      BY <1>0
    <3> QED BY <1>2, <3>1
  <2>2. ASSUME NEW type \in {"OR", "AND"}, NEW a, NEW b, Severs(type, t, a, b), Left(type, a), Rest(type, b)
        PROVE  t \in S
    BY <2>1, <2>2 DEF Severs
  <2>3. Rest("OR", t)
    BY LegalBalanced DEF Rest
  <2>4. CASE ~Left("OR", t)
    BY <2>2, <2>3, <2>4, LegalSplit
  <2>5. CASE Left("OR", t) /\ ~Left("AND", t)
    <3>1. Rest("AND", t)
      BY <2>5 DEF Left, Rest
    <3> QED BY <2>2, <2>5, <3>1, LegalSplit
  <2>6. CASE Left("AND", t)
    <3>1. Plain(t)
      BY <2>6 DEF Left, Plain
    <3> QED BY <2>1, <3>1, LegalPlain
  <2> QED BY <2>4, <2>5, <2>6
<1> HIDE DEF G
<1>3. \A n \in Nat : n \in G
  BY <1>1, <1>2, SetInduction
<1> SUFFICES ASSUME NEW t, Legal(t) PROVE t \in S
  OBVIOUS
<1>4. Len(t) + 1 \in G /\ Len(t) < Len(t) + 1
  BY <1>0, <1>3
<1> QED BY <1>4 DEF G

LEMMA LegalThree ==
  ASSUME NEW conds, NEW r
  PROVE  \A t : Legal(t) => Of(Chosen(conds, r), t) \in Three
<1> DEFINE h == Chosen(conds, r)
<1>1. Reading(h)
  BY ChosenReads
<1>2. ASSUME NEW v \in Int PROVE Of(h, <<Num(v)>>) \in Three
  <2>1. Num(v) \in SqlWord /\ h[Num(v)] = Num(ConditionValue(conds[v], r))
    BY NumIs, TokensAreWords DEF Chosen
  <2>2. ConditionValue(conds[v], r) \in Three /\ ConditionValue(conds[v], r) \in Int
    BY ConditionRange DEF Three
  <2> HIDE DEF h
  <2>3. Of(h, <<Num(v)>>) = ConditionValue(conds[v], r)
    BY <1>1, <2>1, <2>2, OfOne
  <2> QED BY <2>2, <2>3
<1> HIDE DEF h
<1> DEFINE S == {t \in Seq(Token) : Of(h, t) \in Three}
<1>3. ASSUME NEW type \in {"OR", "AND"}, NEW a, NEW b, Legal(a), Legal(b), Left(type, a), Rest(type, b),
             a \in S, b \in S
      PROVE  Infix(a, type, b) \in S
  <2>1. Of(h, Infix(a, type, b)) = Both(type, Of(h, a), Of(h, b))
    BY <1>1, <1>3, OfInfix
  <2>2. Both(type, Of(h, a), Of(h, b)) \in Three
    BY <1>3, BothIs
  <2> QED BY <1>3, <2>1, <2>2, InfixType
<1>4. ASSUME NEW a, Legal(a), Plain(a), a \in S PROVE <<Tok("NOT")>> \o a \in S
  <2>1. Of(h, <<Tok("NOT")>> \o a) = 2 - Of(h, a)
    BY <1>1, <1>4, OfNot DEF Plain
  <2>2. 2 - Of(h, a) \in Three
    BY <1>4 DEF Three
  <2>3. <<Tok("NOT")>> \o a \in Seq(Token)
    BY <1>4, LegalNot DEF Legal
  <2> QED BY <2>1, <2>2, <2>3
<1>5. ASSUME NEW a, Legal(a), a \in S PROVE Paren(a) \in S
  <2>1. Of(h, Paren(a)) = Of(h, a)
    BY <1>1, <1>5, OfParen, LegalBalanced
  <2>2. Paren(a) \in Seq(Token)
    BY <1>5, LegalParen DEF Legal
  <2> QED BY <1>5, <2>1, <2>2
<1>6. \A v \in Int : <<Num(v)>> \in S
  <2> TAKE v \in Int
  <2>1. <<Num(v)>> \in Seq(Token)
    BY NumIs
  <2> QED BY <1>2, <2>1
<1> HIDE DEF S
<1>7. \A t : Legal(t) => t \in S
  BY <1>3, <1>4, <1>5, <1>6, LegalInduction
<1> QED BY <1>7 DEF S, h

\* The numbers of an expression moved past those of another.
Moved(k) ==
  [w \in SqlWord |-> IF w.type = "NUM" THEN Num(w.value + k) ELSE IF w \in Token THEN w ELSE Num(0)]

LEMMA MovedReads ==
  ASSUME NEW k \in Nat
  PROVE  /\ Reading(Moved(k))
         /\ \A x \in Token : Moved(k)[x] = IF x.type = "NUM" THEN Num(x.value + k) ELSE x
<1> DEFINE h == Moved(k)
<1>1. ASSUME NEW w \in SqlWord
      PROVE  h[w] \in Token /\ (IF w.type \in Marks THEN h[w] = w ELSE h[w].type \notin Shaping)
  <2>1. w.type = "NUM" => w.value + k \in Int
    BY DEF SqlWord, Token
  <2>2. /\ w.type = "NUM" => Num(w.value + k) \in Token /\ Num(w.value + k).type = "NUM"
        /\ Num(0) \in Token /\ Num(0).type = "NUM"
    BY <2>1, NumIs
  <2>3. h[w] = IF w.type = "NUM" THEN Num(w.value + k) ELSE IF w \in Token THEN w ELSE Num(0)
    BY DEF Moved
  <2>4. w.type \in Marks => w \in Token /\ w.type # "NUM"
    BY MarkIs DEF Marks
  <2> HIDE DEF h
  <2>5. CASE w.type = "NUM"
    BY <2>2, <2>3, <2>4, <2>5 DEF Shaping, Marks
  <2>6. CASE w.type # "NUM" /\ w \in Token
    BY <2>3, <2>6 DEF Shaping, Marks
  <2>7. CASE w.type # "NUM" /\ w \notin Token
    BY <2>2, <2>3, <2>4, <2>7 DEF Shaping, Marks
  <2> QED BY <2>5, <2>6, <2>7
<1>2. h = [w \in SqlWord |-> h[w]]
  BY DEF Moved
<1>3. \A x \in Token : h[x] = IF x.type = "NUM" THEN Num(x.value + k) ELSE x
  BY TokensAreWords DEF Moved
<1> HIDE DEF h
<1>4. h \in [SqlWord -> Token]
  BY <1>1, <1>2
<1>5. Reading(h)
  BY <1>1, <1>4 DEF Reading
<1> QED BY <1>3, <1>5 DEF h

LEMMA LegalMoved ==
  ASSUME NEW k \in Nat
  PROVE  \A t : Legal(t) => Legal(Image(Moved(k), t))
<1> DEFINE h == Moved(k)
           S == {t \in Seq(Token) : Legal(Image(h, t))}
<1>1. Reading(h) /\ \A x \in Token : h[x] = IF x.type = "NUM" THEN Num(x.value + k) ELSE x
  BY MovedReads
<1> HIDE DEF h
<1>2. ASSUME NEW type \in {"OR", "AND"}, NEW a, NEW b, Legal(a), Legal(b), Left(type, a), Rest(type, b),
             a \in S, b \in S
      PROVE  Infix(a, type, b) \in S
  <2>1. a \in Seq(SqlWord) /\ b \in Seq(SqlWord) /\ Balanced(a) /\ Balanced(b)
    BY <1>2 DEF Left, Rest, Balanced
  <2>2. Image(h, Infix(a, type, b)) = Infix(Image(h, a), type, Image(h, b))
    BY <1>1, <2>1, ImageJoined DEF Infix
  <2>3. Left(type, Image(h, a)) /\ Rest(type, Image(h, b))
    BY <1>1, <1>2, <2>1, ImageKeeps DEF Left, Rest
  <2>4. Legal(Infix(Image(h, a), type, Image(h, b)))
    BY <1>2, <2>3, LegalInfix
  <2>5. Infix(a, type, b) \in Seq(Token)
    BY <1>2, InfixType
  <2> QED BY <2>2, <2>4, <2>5
<1>3. ASSUME NEW a, Legal(a), Plain(a), a \in S PROVE <<Tok("NOT")>> \o a \in S
  <2> DEFINE x == <<Tok("NOT")>>
  <2>1. x \in Seq(SqlWord) /\ Image(h, x) = x /\ a \in Seq(SqlWord)
    <3>1. Tok("NOT") \in SqlWord /\ Tok("NOT").type \in Marks
      BY MarkOf DEF Marks
    <3> QED BY <1>1, <1>3, <3>1, ImageOne DEF Plain, Balanced
  <2>2. x \o a \in Seq(Token)
    BY <1>3, LegalNot DEF Legal
  <2>3. Plain(Image(h, a))
    BY <1>1, <1>3, ImageKeeps DEF Plain
  <2>4. Legal(x \o Image(h, a))
    BY <1>3, <2>3, LegalNot
  <2> HIDE DEF x
  <2>5. Image(h, x \o a) = x \o Image(h, a)
    <3>1. x \in Seq(SqlWord) /\ a \in Seq(SqlWord)
      BY <2>1
    <3>2. Image(h, x \o a) = Image(h, x) \o Image(h, a)
      BY <1>1, <3>1, ImageConcat
    <3> QED BY <2>1, <3>2
  <2> QED BY <2>2, <2>4, <2>5 DEF x
<1>4. ASSUME NEW a, Legal(a), a \in S PROVE Paren(a) \in S
  <2> DEFINE x == <<Tok("LP")>>
             y == <<Tok("RP")>>
             z == x \o a
  <2>1. x \in Seq(SqlWord) /\ Image(h, x) = x /\ y \in Seq(SqlWord) /\ Image(h, y) = y
    <3>1. Tok("LP") \in SqlWord /\ Tok("LP").type \in Marks /\ Tok("RP") \in SqlWord /\ Tok("RP").type \in Marks
      BY MarkOf DEF Marks
    <3> QED BY <1>1, <3>1, ImageOne
  <2>2. a \in Seq(SqlWord)
    BY <1>4, LegalBalanced DEF Balanced
  <2>3. Paren(a) = z \o y /\ Paren(Image(h, a)) = (x \o Image(h, a)) \o y
    BY DEF Paren
  <2> HIDE DEF x, y
  <2>4. z \in Seq(SqlWord) /\ Image(h, z) = x \o Image(h, a)
    <3>1. x \in Seq(SqlWord) /\ a \in Seq(SqlWord)
      BY <2>1, <2>2
    <3>2. x \o a \in Seq(SqlWord) /\ Image(h, x \o a) = Image(h, x) \o Image(h, a)
      BY <1>1, <3>1, ImageConcat
    <3> QED BY <2>1, <3>2
  <2> HIDE DEF z
  <2>5. Image(h, z \o y) = Image(h, z) \o y
    <3>1. z \in Seq(SqlWord) /\ y \in Seq(SqlWord)
      BY <2>1, <2>4
    <3>2. Image(h, z \o y) = Image(h, z) \o Image(h, y)
      BY <1>1, <3>1, ImageConcat
    <3> QED BY <2>1, <3>2
  <2>6. Image(h, Paren(a)) = Paren(Image(h, a))
    BY <2>3, <2>4, <2>5
  <2>7. Legal(Paren(Image(h, a))) /\ Paren(a) \in Seq(Token)
    BY <1>4, LegalParen DEF Legal
  <2> QED BY <2>6, <2>7
<1>5. \A v \in Int : <<Num(v)>> \in S
  <2> TAKE v \in Int
  <2>1. Num(v) \in Token /\ Num(v) \in SqlWord /\ Num(v).type = "NUM" /\ Num(v).value = v /\ v + k \in Int
    BY NumIs, TokensAreWords
  <2>2. h[Num(v)] = Num(v + k)
    BY <1>1, <2>1
  <2>3. Image(h, <<Num(v)>>) = <<Num(v + k)>>
    BY <1>1, <2>1, <2>2, ImageOne
  <2>4. Num(v + k) \in Token /\ Num(v + k).type = "NUM"
    BY <2>1, NumIs
  <2>5. Legal(<<Num(v + k)>>)
    BY <2>4, LegalNum
  <2> QED BY <2>1, <2>3, <2>5
<1> HIDE DEF S
<1>6. \A t : Legal(t) => t \in S
  BY <1>2, <1>3, <1>4, <1>5, LegalInduction
<1> QED BY <1>6 DEF S, h

\* Moved past other conditions, an expression is over its own ones still.
LEMMA MovedMeans ==
  ASSUME NEW conds \in Seq(Condition), NEW all \in Seq(Condition), NEW k \in Nat,
         Len(conds) + k <= Len(all), \A i \in 1..Len(conds) : all[i + k] = conds[i],
         NEW t, Readable(conds, t)
  PROVE  /\ Readable(all, Image(Moved(k), t))
         /\ \A r : Of(Chosen(all, r), Image(Moved(k), t)) = Of(Chosen(conds, r), t)
<1> DEFINE u == Image(Moved(k), t)
<1>1. t \in Seq(Token) /\ Legal(t) /\ Fine(conds, t) /\ t \in Seq(SqlWord) /\ DOMAIN t = 1..Len(t)
  BY TokensAreWords DEF Readable, Legal
<1>2. /\ u \in Seq(Token) /\ Len(u) = Len(t) /\ DOMAIN u = 1..Len(t)
      /\ \A i \in 1..Len(t) : u[i] = Moved(k)[t[i]]
  BY <1>1, MovedReads, ImageShape
<1>3. Legal(u)
  BY <1>1, LegalMoved
<1> HIDE DEF u
<1>4. \A i \in 1..Len(t) : u[i] = IF t[i].type = "NUM" THEN Num(t[i].value + k) ELSE t[i]
  BY <1>1, <1>2, MovedReads
<1>5. \A i \in 1..Len(t) : t[i].type = "NUM" =>
        /\ t[i].value \in 1..Len(conds) /\ buildClause(conds[t[i].value]) # Rejected
        /\ t[i].value + k \in 1..Len(all) /\ all[t[i].value + k] = conds[t[i].value]
        /\ u[i].type = "NUM" /\ u[i].value = t[i].value + k
  <2> SUFFICES ASSUME NEW i \in 1..Len(t), t[i].type = "NUM"
               PROVE  /\ t[i].value \in 1..Len(conds) /\ buildClause(conds[t[i].value]) # Rejected
                      /\ t[i].value + k \in 1..Len(all) /\ all[t[i].value + k] = conds[t[i].value]
                      /\ u[i].type = "NUM" /\ u[i].value = t[i].value + k
    OBVIOUS
  <2>1. t[i].value \in 1..Len(conds) /\ buildClause(conds[t[i].value]) # Rejected
    BY <1>1 DEF Fine
  <2> DEFINE v == t[i].value
  <2> HIDE DEF v
  <2>2. v + k \in 1..Len(all) /\ all[v + k] = conds[v] /\ v + k \in Int
    <3>1. Len(all) \in Nat /\ Len(conds) \in Nat
      OBVIOUS
    <3> QED BY <2>1, <3>1 DEF v
  <2>3. u[i] = Num(v + k)
    BY <1>4 DEF v
  <2>4. u[i].type = "NUM" /\ u[i].value = v + k
    BY <2>2, <2>3, NumIs
  <2> QED BY <2>1, <2>2, <2>4 DEF v
<1>6. \A i \in 1..Len(t) : t[i].type # "NUM" => u[i] = t[i]
  BY <1>4
<1>7. Fine(all, u)
  <2> SUFFICES ASSUME NEW i \in 1..Len(t), u[i].type = "NUM"
               PROVE  u[i].value \in 1..Len(all) /\ buildClause(all[u[i].value]) # Rejected
    BY <1>2 DEF Fine
  <2>1. t[i].type = "NUM"
    BY <1>6
  <2> QED BY <1>5, <2>1
<1>8. ASSUME NEW r PROVE Of(Chosen(all, r), u) = Of(Chosen(conds, r), t)
  <2>1. ASSUME NEW i \in 1..Len(t) PROVE Chosen(all, r)[u[i]] = Chosen(conds, r)[t[i]]
    <3>1. t[i] \in SqlWord /\ u[i] \in SqlWord /\ t[i] \in Token
      BY <1>1, <1>2, TokensAreWords
    <3>2. CASE t[i].type = "NUM"
      BY <1>5, <3>1, <3>2 DEF Chosen
    <3>3. CASE t[i].type # "NUM"
      BY <1>6, <3>1, <3>3 DEF Chosen
    <3> QED BY <3>2, <3>3
  <2>2. Image(Chosen(all, r), u) = Image(Chosen(conds, r), t)
    BY <1>1, <1>2, <2>1 DEF Image
  <2> QED BY <2>2 DEF Of
<1> QED BY <1>3, <1>7, <1>8 DEF u, Readable

LEMMA LexedConcat ==
  ASSUME NEW h \in [Lexeme -> Token], NEW a \in Seq(Lexeme), NEW b \in Seq(Lexeme)
  PROVE  Image(h, a \o b) = Image(h, a) \o Image(h, b)
<1> DEFINE A == Lexeme
           B == Token
<1>0. h \in [A -> B] /\ a \in Seq(A) /\ b \in Seq(A)
  OBVIOUS
<1> HIDE DEF A, B
<1> DEFINE c == a \o b
           p == Image(h, a)
           q == Image(h, b)
           x == Image(h, c)
           y == p \o q
<1>1. /\ c \in Seq(A) /\ Len(c) = Len(a) + Len(b) /\ Len(a) \in Nat /\ Len(b) \in Nat
      /\ \A i \in 1..Len(a) + Len(b) : c[i] = IF i <= Len(a) THEN a[i] ELSE b[i - Len(a)]
  BY <1>0, ConcatProperties
<1> HIDE DEF c
<1>2. \A s \in Seq(A) : /\ Image(h, s) \in Seq(B) /\ Len(Image(h, s)) = Len(s)
                        /\ \A i \in 1..Len(s) : Image(h, s)[i] = h[s[i]]
  <2> TAKE s \in Seq(A)
  <2>1. Len(s) \in Nat /\ DOMAIN s = 1..Len(s) /\ \A i \in 1..Len(s) : s[i] \in A
    BY <1>0
  <2> DEFINE u == Image(h, s)
  <2>2. u = [i \in 1..Len(s) |-> h[s[i]]]
    BY <2>1 DEF Image
  <2>3. u \in [1..Len(s) -> B]
    BY <1>0, <2>1, <2>2
  <2> HIDE DEF u
  <2>4. u \in Seq(B) /\ Len(u) = Len(s) /\ \A i \in 1..Len(s) : u[i] = h[s[i]]
    BY <2>1, <2>2, <2>3
  <2> QED BY <2>4 DEF u
<1>3. /\ p \in Seq(B) /\ Len(p) = Len(a) /\ \A i \in 1..Len(a) : p[i] = h[a[i]]
      /\ q \in Seq(B) /\ Len(q) = Len(b) /\ \A i \in 1..Len(b) : q[i] = h[b[i]]
  BY <1>0, <1>2
<1>4. x \in Seq(B) /\ Len(x) = Len(a) + Len(b) /\ \A i \in 1..Len(a) + Len(b) : x[i] = h[c[i]]
  <2>1. x \in Seq(B) /\ Len(x) = Len(c) /\ \A i \in 1..Len(c) : x[i] = h[c[i]]
    BY <1>1, <1>2
  <2> HIDE DEF x
  <2> QED BY <1>1, <2>1
<1> HIDE DEF p, q, x
<1>5. y \in Seq(B) /\ Len(y) = Len(p) + Len(q)
      /\ \A i \in 1..Len(p) + Len(q) : y[i] = IF i <= Len(p) THEN p[i] ELSE q[i - Len(p)]
  BY <1>3, ConcatProperties
<1> HIDE DEF y
<1>6. ASSUME NEW i \in 1..Len(a) + Len(b) PROVE x[i] = y[i]
  <2>1. CASE i <= Len(a)
    <3>1. i \in 1..Len(a) /\ c[i] = a[i]
      BY <1>1, <2>1
    <3>2. y[i] = p[i]
      BY <1>3, <1>5, <2>1
    <3> QED BY <1>3, <1>4, <3>1, <3>2
  <2>2. CASE ~(i <= Len(a))
    <3>0. ASSUME NEW m \in Nat, NEW n \in Nat, i \in 1..m + n, ~(i <= m) PROVE i - m \in 1..n
      BY <3>0
    <3>1. i - Len(a) \in 1..Len(b) /\ c[i] = b[i - Len(a)]
      <4>1. i - Len(a) \in 1..Len(b)
        BY <1>1, <1>6, <2>2, <3>0
      <4>2. c[i] = b[i - Len(a)]
        BY <1>1, <1>6, <2>2
      <4> QED BY <4>1, <4>2
    <3>2. y[i] = q[i - Len(a)]
      BY <1>3, <1>5, <2>2
    <3> QED BY <1>3, <1>4, <3>1, <3>2
  <2> QED BY <2>1, <2>2
<1>7. Len(x) = Len(y) /\ \A i \in 1..Len(x) : x[i] = y[i]
  BY <1>3, <1>4, <1>5, <1>6
<1>8. x = y
  BY <1>4, <1>5, <1>7, SeqEqual
<1> QED BY <1>3, <1>8 DEF x, y, c, p, q

LEMMA TokensImage ==
  ASSUME NEW s \in Seq(Lexeme)
  PROVE  /\ tokenizeLogic(s) = Image(Lexed, s) /\ tokenizeLogic(s) \in Seq(Token)
         /\ Len(tokenizeLogic(s)) = Len(s) /\ DOMAIN tokenizeLogic(s) = 1..Len(s)
         /\ \A i \in 1..Len(s) : s[i] \in Lexeme /\ tokenizeLogic(s)[i] = TokenOf(s[i])
<1>1. Len(s) \in Nat /\ DOMAIN s = 1..Len(s) /\ \A i \in 1..Len(s) : s[i] \in Lexeme
  OBVIOUS
<1>2. tokenizeLogic(s) = [i \in DOMAIN s |-> TokenOf(s[i])]
  BY DEF tokenizeLogic, TokenOf
<1>3. \A i \in 1..Len(s) : TokenOf(s[i]) = Lexed[s[i]]
  BY <1>1, TokenOfType
<1>4. tokenizeLogic(s) = Image(Lexed, s)
  BY <1>1, <1>2, <1>3 DEF Image
<1>5. tokenizeLogic(s) \in Seq(Token)
  BY TokensOf
<1>6. DOMAIN tokenizeLogic(s) = 1..Len(s) /\ Len(tokenizeLogic(s)) = Len(s)
  BY <1>1, <1>2, <1>5
<1> QED BY <1>1, <1>2, <1>4, <1>5, <1>6

LEMMA TokensConcat ==
  ASSUME NEW a \in Seq(Lexeme), NEW b \in Seq(Lexeme)
  PROVE  a \o b \in Seq(Lexeme) /\ tokenizeLogic(a \o b) = tokenizeLogic(a) \o tokenizeLogic(b)
<1>1. a \o b \in Seq(Lexeme)
  BY ConcatProperties
<1>2. Lexed \in [Lexeme -> Token]
  BY TokenOfType DEF Lexed
<1>3. Image(Lexed, a \o b) = Image(Lexed, a) \o Image(Lexed, b)
  BY <1>2, LexedConcat
<1> DEFINE c == a \o b
<1> HIDE DEF c
<1>4. tokenizeLogic(c) = Image(Lexed, c)
  BY <1>1, TokensImage DEF c
<1> QED BY <1>1, <1>3, <1>4, TokensImage DEF c

LEMMA WordToken ==
  /\ <<Word("(")>> \in Seq(Lexeme) /\ tokenizeLogic(<<Word("(")>>) = <<Tok("LP")>>
  /\ <<Word(")")>> \in Seq(Lexeme) /\ tokenizeLogic(<<Word(")")>>) = <<Tok("RP")>>
  /\ <<Word("AND")>> \in Seq(Lexeme) /\ tokenizeLogic(<<Word("AND")>>) = <<Tok("AND")>>
<1>1. /\ Word("(") \in Lexeme /\ TokenOf(Word("(")) = Tok("LP")
      /\ Word(")") \in Lexeme /\ TokenOf(Word(")")) = Tok("RP")
      /\ Word("AND") \in Lexeme /\ TokenOf(Word("AND")) = Tok("AND")
  <2>1. ASSUME NEW x \in STRING
        PROVE  Word(x) \in Lexeme /\ Word(x).type = "WORD" /\ Word(x).text = x
    BY DEF Word, Lexeme
  <2>0. "(" \in STRING /\ ")" \in STRING /\ "AND" \in STRING
    BY WordsAssumption
  <2>2. TokenOf(Word("(")) = Tok("LP")
    <3> DEFINE w == Word("(")
    <3>1. w.type = "WORD" /\ w.text = "("
      BY <2>0, <2>1
    <3> HIDE DEF w
    <3>2. TokenOf(w) = Tok("LP")
      BY <3>1 DEF TokenOf
    <3> QED BY <3>2 DEF w
  <2>3. TokenOf(Word(")")) = Tok("RP")
    <3> DEFINE w == Word(")")
    <3>1. w.type = "WORD" /\ w.text = ")"
      BY <2>0, <2>1
    <3> HIDE DEF w
    <3>2. TokenOf(w) = Tok("RP")
      BY <3>1 DEF TokenOf
    <3> QED BY <3>2 DEF w
  <2>4. TokenOf(Word("AND")) = Tok("AND")
    <3> DEFINE w == Word("AND")
    <3>1. w.type = "WORD" /\ w.text = "AND"
      BY <2>0, <2>1
    <3> HIDE DEF w
    <3>2. TokenOf(w) = Tok("AND")
      BY <3>1 DEF TokenOf
    <3> QED BY <3>2 DEF w
  <2> QED BY <2>0, <2>1, <2>2, <2>3, <2>4
<1>2. ASSUME NEW l \in Lexeme PROVE <<l>> \in Seq(Lexeme) /\ tokenizeLogic(<<l>>) = <<TokenOf(l)>>
  <2> DEFINE s == <<l>>
             t == tokenizeLogic(s)
  <2>1. s \in Seq(Lexeme) /\ Len(s) = 1 /\ s[1] = l
    OBVIOUS
  <2> HIDE DEF s
  <2>2. t \in Seq(Token) /\ Len(t) = 1 /\ t[1] = TokenOf(l)
    BY <2>1, TokensImage
  <2>3. t = << t[1] >>
    BY <2>2
  <2> QED BY <2>1, <2>2, <2>3 DEF s
<1> QED BY <1>1, <1>2

\* A logic expression with its numbers shifted.
Shift(body, k) ==
  [i \in DOMAIN body |-> IF body[i].type = "NUM" THEN Num(body[i].value + k) ELSE body[i]]

LEMMA ShiftTokens ==
  ASSUME NEW body \in Seq(Lexeme), NEW k \in Nat
  PROVE  /\ Shift(body, k) \in Seq(Lexeme)
         /\ tokenizeLogic(Shift(body, k)) = Image(Moved(k), tokenizeLogic(body))
<1> DEFINE w == Shift(body, k)
           t == tokenizeLogic(body)
           u == tokenizeLogic(w)
           v == Image(Moved(k), t)
<1>1. Len(body) \in Nat /\ DOMAIN body = 1..Len(body) /\ \A i \in 1..Len(body) : body[i] \in Lexeme
  OBVIOUS
<1>2. ASSUME NEW l \in Lexeme
      PROVE  /\ (IF l.type = "NUM" THEN Num(l.value + k) ELSE l) \in Lexeme
             /\ TokenOf(IF l.type = "NUM" THEN Num(l.value + k) ELSE l) = Moved(k)[TokenOf(l)]
  <2>1. CASE l.type = "NUM"
    <3>1. l.value \in Nat /\ TokenOf(l) = Num(l.value)
      BY <2>1, TokenOfType
    <3>2. l.value + k \in Nat /\ l.value \in Int /\ l.value + k \in Int
      BY <3>1
    <3> DEFINE m == l.value + k
    <3>3. Num(m) \in Lexeme /\ TokenOf(Num(m)) = Num(m)
      <4> HIDE DEF m
      <4> QED BY <3>2, TokenOfType DEF Num, Lexeme, m
    <3>4. Moved(k)[Num(l.value)] = Num(m)
      <4> DEFINE y == Num(l.value)
      <4>1. y \in Token /\ y.type = "NUM" /\ y.value = l.value
        BY <3>2, NumIs
      <4> HIDE DEF y
      <4>2. Moved(k)[y] = Num(y.value + k)
        BY <4>1, MovedReads
      <4> QED BY <4>1, <4>2 DEF y
    <3> QED BY <2>1, <3>1, <3>3, <3>4
  <2>2. CASE l.type # "NUM"
    <3>1. TokenOf(l) \in Token /\ TokenOf(l).type # "NUM"
      BY <2>2, TokenOfType
    <3> QED BY <2>2, <3>1, MovedReads
  <2> QED BY <2>1, <2>2
<1>3. w = [i \in 1..Len(body) |-> IF body[i].type = "NUM" THEN Num(body[i].value + k) ELSE body[i]]
  BY <1>1 DEF Shift
<1>4. w \in [1..Len(body) -> Lexeme]
  BY <1>1, <1>2, <1>3
<1> HIDE DEF w
<1>5. w \in Seq(Lexeme) /\ Len(w) = Len(body)
  BY <1>1, <1>4
<1>6. /\ t \in Seq(Token) /\ Len(t) = Len(body) /\ \A i \in 1..Len(body) : t[i] = TokenOf(body[i])
      /\ u \in Seq(Token) /\ Len(u) = Len(body) /\ \A i \in 1..Len(body) : u[i] = TokenOf(w[i])
  BY <1>5, TokensImage
<1> HIDE DEF t, u
<1>7. v \in Seq(Token) /\ Len(v) = Len(t) /\ \A i \in 1..Len(t) : v[i] = Moved(k)[t[i]]
  <2> DEFINE h == Moved(k)
  <2>1. \A x \in Token : h[x] \in Token
    BY MovedReads, TokensAreWords DEF Reading
  <2> HIDE DEF h
  <2>2. /\ Image(h, t) \in Seq(Token) /\ Len(Image(h, t)) = Len(t)
        /\ \A i \in 1..Len(t) : Image(h, t)[i] = h[t[i]]
    <3>1. Len(t) \in Nat /\ DOMAIN t = 1..Len(t) /\ \A i \in 1..Len(t) : t[i] \in Token
      BY <1>6
    <3> DEFINE n == Len(t)
               z == Image(h, t)
    <3>2. z = [i \in 1..n |-> h[t[i]]]
      BY <3>1 DEF Image
    <3> HIDE DEF z
    <3>3. z \in [1..n -> Token]
      BY <2>1, <3>1, <3>2
    <3> HIDE DEF n
    <3>4. z \in Seq(Token) /\ Len(z) = n /\ \A i \in 1..n : z[i] = h[t[i]]
      BY <3>1, <3>2, <3>3 DEF n
    <3> QED BY <3>4 DEF z, n
  <2> QED BY <2>2 DEF h
<1> HIDE DEF v
<1>8. \A i \in 1..Len(body) : u[i] = v[i]
  <2> TAKE i \in 1..Len(body)
  <2>1. body[i] \in Lexeme /\ w[i] = IF body[i].type = "NUM" THEN Num(body[i].value + k) ELSE body[i]
    BY <1>1, <1>3
  <2>2. TokenOf(w[i]) = Moved(k)[TokenOf(body[i])]
    BY <1>2, <2>1
  <2> QED BY <1>6, <1>7, <2>2
<1>9. u = v
  BY <1>6, <1>7, <1>8, SeqEqual
<1> QED BY <1>5, <1>9 DEF u, v, t, w

\* n numbers from k + 1 on, joined with AND.
Listed(n, k) ==
  [i \in 1..(2 * n - 1) |-> IF i % 2 = 1 THEN Num(k + (i + 1) \div 2) ELSE Tok("AND")]

LEMMA ListedIs ==
  ASSUME NEW n \in Nat, n # 0, NEW k \in Nat
  PROVE  /\ Listed(n, k) \in Seq(Token) /\ Len(Listed(n, k)) = 2 * n - 1
         /\ \A i \in 1..(2 * n - 1) :
              Listed(n, k)[i] = IF i % 2 = 1 THEN Num(k + (i + 1) \div 2) ELSE Tok("AND")
<1> DEFINE l == Listed(n, k)
           m == 2 * n - 1
<1>1. m \in Nat
  OBVIOUS
<1>2. \A i \in 1..m : k + (i + 1) \div 2 \in Int
  BY <1>1
<1>3. Tok("AND") \in Token
  BY MarkOf DEF Marks
<1>4. l = [i \in 1..m |-> IF i % 2 = 1 THEN Num(k + (i + 1) \div 2) ELSE Tok("AND")]
  BY DEF Listed
<1> HIDE DEF l, m
<1>5. l \in [1..m -> Token]
  BY <1>2, <1>3, <1>4, NumIs
<1>6. l \in Seq(Token) /\ Len(l) = m
  BY <1>1, <1>5
<1> QED BY <1>4, <1>6 DEF l, m

LEMMA ListedNext ==
  ASSUME NEW n \in Nat, n # 0, NEW k \in Nat
  PROVE  /\ Listed(1, k) = <<Num(k + 1)>>
         /\ Listed(n + 1, k) = Infix(<<Num(k + 1)>>, "AND", Listed(n, k + 1))
<1>1. Listed(1, k) = <<Num(k + 1)>>
  <2> DEFINE l == Listed(1, k)
  <2>1. l \in Seq(Token) /\ Len(l) = 1 /\ l[1] = Num(k + (1 + 1) \div 2)
    <3> HIDE DEF l
    <3>1. 1 \in Nat /\ 1 # 0 /\ 2 * 1 - 1 = 1 /\ 1 % 2 = 1
      OBVIOUS
    <3>2. /\ l \in Seq(Token) /\ Len(l) = 2 * 1 - 1
          /\ \A i \in 1..(2 * 1 - 1) : l[i] = IF i % 2 = 1 THEN Num(k + (i + 1) \div 2) ELSE Tok("AND")
      BY <3>1, ListedIs DEF l
    <3> QED BY <3>1, <3>2
  <2>2. k + (1 + 1) \div 2 = k + 1
    OBVIOUS
  <2> HIDE DEF l
  <2>3. l = << l[1] >>
    BY <2>1
  <2> QED BY <2>1, <2>2, <2>3 DEF l
<1>2. Listed(n + 1, k) = Infix(<<Num(k + 1)>>, "AND", Listed(n, k + 1))
  <2> DEFINE l == Listed(n + 1, k)
             b == Listed(n, k + 1)
             x == <<Num(k + 1)>>
             y == <<Tok("AND")>>
             z == x \o y
             w == z \o b
  <2>1. /\ l \in Seq(Token) /\ Len(l) = 2 * n + 1
        /\ \A i \in 1..2 * n + 1 : l[i] = IF i % 2 = 1 THEN Num(k + (i + 1) \div 2) ELSE Tok("AND")
    <3>1. n + 1 \in Nat /\ n + 1 # 0 /\ 2 * (n + 1) - 1 = 2 * n + 1
      OBVIOUS
    <3> DEFINE m == n + 1
    <3> HIDE DEF m
    <3>2. /\ Listed(m, k) \in Seq(Token) /\ Len(Listed(m, k)) = 2 * m - 1
          /\ \A i \in 1..(2 * m - 1) :
               Listed(m, k)[i] = IF i % 2 = 1 THEN Num(k + (i + 1) \div 2) ELSE Tok("AND")
      BY <3>1, ListedIs DEF m
    <3>3. l = Listed(m, k) /\ 2 * m - 1 = 2 * n + 1
      BY <3>1 DEF m
    <3> HIDE DEF l
    <3> QED BY <3>2, <3>3
  <2>2. /\ b \in Seq(Token) /\ Len(b) = 2 * n - 1
        /\ \A i \in 1..2 * n - 1 : b[i] = IF i % 2 = 1 THEN Num((k + 1) + (i + 1) \div 2) ELSE Tok("AND")
    <3>1. k + 1 \in Nat
      OBVIOUS
    <3> QED BY <3>1, ListedIs
  <2>0. Num(k + 1) \in Token /\ Tok("AND") \in Token
    <3>1. k + 1 \in Int
      OBVIOUS
    <3> QED BY <3>1, NumIs, MarkOf DEF Marks
  <2>3. z \in Seq(Token) /\ Len(z) = 2 /\ z[1] = Num(k + 1) /\ z[2] = Tok("AND")
    BY <2>0
  <2> HIDE DEF l, b, z
  <2>4. /\ w \in Seq(Token) /\ Len(w) = 2 + (2 * n - 1)
        /\ \A i \in 1..2 + (2 * n - 1) : w[i] = IF i <= 2 THEN z[i] ELSE b[i - 2]
    <3>1. z \in Seq(Token) /\ b \in Seq(Token)
      BY <2>2, <2>3
    <3>2. /\ w \in Seq(Token) /\ Len(w) = Len(z) + Len(b)
          /\ \A i \in 1..Len(z) + Len(b) : w[i] = IF i <= Len(z) THEN z[i] ELSE b[i - Len(z)]
      <4> DEFINE T == Token
      <4>1. z \in Seq(T) /\ b \in Seq(T)
        BY <3>1
      <4> HIDE DEF T
      <4>2. /\ w \in Seq(T) /\ Len(w) = Len(z) + Len(b)
            /\ \A i \in 1..Len(z) + Len(b) : w[i] = IF i <= Len(z) THEN z[i] ELSE b[i - Len(z)]
        BY <4>1, ConcatProperties
      <4> QED BY <4>2 DEF T
    <3> HIDE DEF w
    <3> QED BY <2>2, <2>3, <3>2
  <2> HIDE DEF w
  <2>5. ASSUME NEW i \in 1..2 * n + 1 PROVE l[i] = w[i]
    <3>1. w[i] = IF i <= 2 THEN z[i] ELSE b[i - 2]
      BY <2>4
    <3>2. CASE i = 1
      <4>1. 1 % 2 = 1 /\ k + (1 + 1) \div 2 = k + 1
        OBVIOUS
      <4> QED BY <2>1, <2>3, <3>1, <3>2, <4>1
    <3>3. CASE i = 2
      BY <2>1, <2>3, <3>1, <3>3
    <3>4. CASE i > 2
      <4>1. i - 2 \in 1..2 * n - 1 /\ ~(i <= 2)
        BY <3>4
      <4>2. b[i - 2] = IF (i - 2) % 2 = 1 THEN Num((k + 1) + ((i - 2) + 1) \div 2) ELSE Tok("AND")
        BY <2>2, <4>1
      <4>3. (i - 2) % 2 = i % 2 /\ (k + 1) + ((i - 2) + 1) \div 2 = k + (i + 1) \div 2
        OBVIOUS
      <4> QED BY <2>1, <3>1, <4>1, <4>2, <4>3
    <3> QED BY <3>2, <3>3, <3>4
  <2>6. l = w
    <3>1. Len(w) = Len(l)
      BY <2>1, <2>4
    <3> QED BY <2>1, <2>4, <2>5, <3>1, SeqEqual
  <2> QED BY <2>6 DEF Infix, l, w, z, b
<1> QED BY <1>1, <1>2

LEMMA ListedMeans ==
  ASSUME NEW n \in Nat, n # 0, NEW k \in Nat
  PROVE  /\ Legal(Listed(n, k)) /\ Rest("AND", Listed(n, k))
         /\ \A conds, r : Of(Chosen(conds, r), Listed(n, k)) = 2
                            <=> \A i \in 1..n : ConditionValue(conds[k + i], r) = 2
<1> DEFINE P(m) == \A j \in Nat :
             /\ Legal(Listed(m, j)) /\ Rest("AND", Listed(m, j))
             /\ \A conds, r : Of(Chosen(conds, r), Listed(m, j)) = 2
                                <=> \A i \in 1..m : ConditionValue(conds[j + i], r) = 2
           G == {m \in Nat : m # 0 => P(m)}
<1>1. ASSUME NEW v \in Int
      PROVE  /\ Legal(<<Num(v)>>) /\ Left("AND", <<Num(v)>>) /\ Rest("AND", <<Num(v)>>)
             /\ \A conds, r : Of(Chosen(conds, r), <<Num(v)>>) = ConditionValue(conds[v], r)
  <2>1. Num(v) \in Token /\ Num(v).type = "NUM" /\ Num(v).value = v /\ Num(v) \in SqlWord
    BY NumIs, TokensAreWords
  <2>2. Balanced(<<Num(v)>>) /\ NoOr(<<Num(v)>>) /\ NoAnd(<<Num(v)>>)
    BY <2>1, SingleShape DEF Shaping
  <2>3. ASSUME NEW conds, NEW r
        PROVE  Of(Chosen(conds, r), <<Num(v)>>) = ConditionValue(conds[v], r)
    <3>1. Chosen(conds, r)[Num(v)] = Num(ConditionValue(conds[v], r))
      BY <2>1 DEF Chosen
    <3>2. ConditionValue(conds[v], r) \in Int
      BY ConditionRange DEF Three
    <3> QED BY <2>1, <3>1, <3>2, ChosenReads, OfOne
  <2> QED BY <2>1, <2>2, <2>3, LegalNum DEF Left, Rest
<1>2. 0 \in G
  OBVIOUS
<1>3. ASSUME NEW m \in Nat, m \in G PROVE m + 1 \in G
  <2>1. CASE m = 0
    <3> SUFFICES ASSUME NEW j \in Nat
                 PROVE  /\ Legal(Listed(1, j)) /\ Rest("AND", Listed(1, j))
                        /\ \A conds, r : Of(Chosen(conds, r), Listed(1, j)) = 2
                                           <=> \A i \in 1..1 : ConditionValue(conds[j + i], r) = 2
      BY <2>1
    <3>1. Listed(1, j) = <<Num(j + 1)>>
      <4>1. 1 \in Nat /\ 1 # 0
        OBVIOUS
      <4> QED BY <4>1, ListedNext
    <3>2. j + 1 \in Int
      OBVIOUS
    <3>3. \A i : i \in 1..1 <=> i = 1
      OBVIOUS
    <3> QED BY <1>1, <3>1, <3>2, <3>3
  <2>2. CASE m # 0
    <3> SUFFICES ASSUME NEW j \in Nat
                 PROVE  /\ Legal(Listed(m + 1, j)) /\ Rest("AND", Listed(m + 1, j))
                        /\ \A conds, r : Of(Chosen(conds, r), Listed(m + 1, j)) = 2
                                           <=> \A i \in 1..m + 1 : ConditionValue(conds[j + i], r) = 2
      OBVIOUS
    <3> DEFINE x == <<Num(j + 1)>>
               b == Listed(m, j + 1)
    <3>1. Listed(m + 1, j) = Infix(x, "AND", b)
      BY <2>2, ListedNext
    <3>2. Legal(x) /\ Left("AND", x) /\ Rest("AND", x)
          /\ \A conds, r : Of(Chosen(conds, r), x) = ConditionValue(conds[j + 1], r)
      <4>1. j + 1 \in Int
        OBVIOUS
      <4> QED BY <1>1, <4>1
    <3>3. /\ Legal(b) /\ Rest("AND", b)
          /\ \A conds, r : Of(Chosen(conds, r), b) = 2
                             <=> \A i \in 1..m : ConditionValue(conds[(j + 1) + i], r) = 2
      <4>1. P(m) /\ j + 1 \in Nat
        BY <1>3, <2>2
      <4> HIDE DEF b
      <4> QED BY <4>1 DEF b
    <3> HIDE DEF x, b
    <3>4. Legal(Infix(x, "AND", b)) /\ Rest("AND", Infix(x, "AND", b))
      BY <3>2, <3>3, LegalInfix, InfixShape DEF Left, Rest
    <3>5. ASSUME NEW conds, NEW r
          PROVE  Of(Chosen(conds, r), Infix(x, "AND", b)) = 2
                   <=> \A i \in 1..m + 1 : ConditionValue(conds[j + i], r) = 2
      <4> DEFINE h == Chosen(conds, r)
      <4>1. Of(h, Infix(x, "AND", b)) = Both("AND", Of(h, x), Of(h, b))
        BY <3>2, <3>3, ChosenReads, OfInfix
      <4>2. Of(h, x) \in Three /\ Of(h, b) \in Three
        BY <3>2, <3>3, LegalThree
      <4>3. Both("AND", Of(h, x), Of(h, b)) = 2 <=> Of(h, x) = 2 /\ Of(h, b) = 2
        BY <4>2, BothTwo
      <4>4. Of(h, x) = ConditionValue(conds[j + 1], r)
        BY <3>2
      <4>5. Of(h, b) = 2 <=> \A i \in 1..m : ConditionValue(conds[(j + 1) + i], r) = 2
        BY <3>3
      <4>6. (\A i \in 1..m + 1 : ConditionValue(conds[j + i], r) = 2)
              <=> ConditionValue(conds[j + 1], r) = 2
                  /\ \A i \in 1..m : ConditionValue(conds[(j + 1) + i], r) = 2
        <5>1. ASSUME \A i \in 1..m + 1 : ConditionValue(conds[j + i], r) = 2, NEW i \in 1..m
              PROVE  ConditionValue(conds[(j + 1) + i], r) = 2
          <6>1. i + 1 \in 1..m + 1 /\ j + (i + 1) = (j + 1) + i
            OBVIOUS
          <6> QED BY <5>1, <6>1
        <5>2. ASSUME ConditionValue(conds[j + 1], r) = 2,
                     \A i \in 1..m : ConditionValue(conds[(j + 1) + i], r) = 2, NEW i \in 1..m + 1
              PROVE  ConditionValue(conds[j + i], r) = 2
          <6>1. CASE i = 1
            BY <5>2, <6>1
          <6>2. CASE i # 1
            <7>1. i - 1 \in 1..m /\ (j + 1) + (i - 1) = j + i
              BY <6>2
            <7>2. ConditionValue(conds[(j + 1) + (i - 1)], r) = 2
              BY <5>2, <7>1
            <7> QED BY <7>1, <7>2
          <6> QED BY <6>1, <6>2
        <5>3. 1 \in 1..m + 1
          OBVIOUS
        <5> QED BY <5>1, <5>2, <5>3
      <4> HIDE DEF h
      <4> QED BY <4>1, <4>3, <4>4, <4>5, <4>6 DEF h
    <3> QED BY <3>1, <3>4, <3>5
  <2> QED BY <2>1, <2>2
<1> HIDE DEF G
<1>4. n \in G
  BY <1>2, <1>3, SetInduction
<1> QED BY <1>4 DEF G

\* What mergeScope writes for a filter: its expression, or its conditions
\* joined with AND.
Expressed(scope) ==
  IF scope.logic # <<>> THEN scope.logic
  ELSE [i \in 1..(2 * Len(scope.conds) - 1) |->
          IF i % 2 = 1 THEN Num((i + 1) \div 2) ELSE Word("AND")]

\* The meaning of an expression over conditions is the value of its tokens.
LEMMA MeaningIs ==
  ASSUME NEW scope, scope.logic \in Seq(Lexeme), scope.logic # <<>>, NEW r
  PROVE  Meaning(scope, r) <=> Of(Chosen(scope.conds, r), tokenizeLogic(scope.logic)) = 2
<1> DEFINE t == tokenizeLogic(scope.logic)
           h == Chosen(scope.conds, r)
           b == [i \in DOMAIN t |-> IF t[i].type = "NUM"
                                    THEN Num(ConditionValue(scope.conds[t[i].value], r))
                                    ELSE t[i]]
<1>1. t \in Seq(Token)
  BY TokensOf
<1>2. Meaning(scope, r) <=> Value[b] = 2
  BY DEF Meaning
<1> HIDE DEF t
<1>3. \A i \in DOMAIN t : t[i] \in Token /\ t[i] \in SqlWord
  BY <1>1, TokensAreWords
<1>4. \A i \in DOMAIN t : h[t[i]] = b[i]
  BY <1>3 DEF Chosen
<1>5. Image(h, t) = b
  BY <1>4 DEF Image
<1> QED BY <1>2, <1>5 DEF Of, t

LEMMA BodyIs ==
  ASSUME NEW scope, scope.conds \in Seq(Condition), scope.logic \in Seq(Lexeme),
         scope.conds # <<>>, Answerable(scope)
  PROVE  /\ Expressed(scope) \in Seq(Lexeme) /\ Readable(scope.conds, tokenizeLogic(Expressed(scope)))
         /\ \A r : Of(Chosen(scope.conds, r), tokenizeLogic(Expressed(scope))) = 2 <=> Meaning(scope, r)
<1>1. DOMAIN scope.conds = 1..Len(scope.conds) /\ Len(scope.conds) \in Nat /\ Len(scope.conds) # 0
  OBVIOUS
<1>2. CASE scope.logic # <<>>
  <2> DEFINE t == tokenizeLogic(scope.logic)
  <2>1. Expressed(scope) = scope.logic
    BY <1>2 DEF Expressed
  <2>2. t \in Seq(Token)
    BY TokensOf
  <2>3. WellFormed[t] /\ \A i \in DOMAIN t : t[i].type = "NUM" =>
          t[i].value \in DOMAIN scope.conds /\ buildClause(scope.conds[t[i].value]) # Rejected
    BY <1>2 DEF Answerable
  <2> HIDE DEF t
  <2>4. Readable(scope.conds, t)
    BY <1>1, <2>2, <2>3 DEF Readable, Legal, Fine
  <2>5. \A r : Of(Chosen(scope.conds, r), t) = 2 <=> Meaning(scope, r)
    BY <1>2, MeaningIs DEF t
  <2> QED BY <2>1, <2>4, <2>5 DEF t
<1>3. CASE scope.logic = <<>>
  <2> DEFINE n == Len(scope.conds)
             m == 2 * n - 1
             b == [i \in 1..m |-> IF i % 2 = 1 THEN Num((i + 1) \div 2) ELSE Word("AND")]
             t == tokenizeLogic(b)
  <2>1. Expressed(scope) = b
    BY <1>3 DEF Expressed
  <2>2. m \in Nat /\ \A i \in 1..m : (i + 1) \div 2 \in Nat
    BY <1>1
  <2>3. \A k \in Nat : Num(k) \in Lexeme /\ TokenOf(Num(k)) = Num(k)
    BY DEF Num, Lexeme, TokenOf
  <2>4. Word("AND") \in Lexeme /\ TokenOf(Word("AND")) = Tok("AND")
    <3> DEFINE w == Word("AND")
    <3>1. w \in Lexeme /\ w.type = "WORD" /\ w.text = "AND"
      BY WordsAssumption DEF Word, Lexeme
    <3> HIDE DEF w
    <3>2. TokenOf(w) = Tok("AND")
      BY <3>1 DEF TokenOf
    <3> QED BY <3>1, <3>2 DEF w
  <2> HIDE DEF m
  <2>5. b \in [1..m -> Lexeme]
    BY <2>2, <2>3, <2>4
  <2>6. b \in Seq(Lexeme) /\ Len(b) = m
    <3> HIDE DEF b
    <3> QED BY <2>2, <2>5
  <2>7. \A i \in 1..m : TokenOf(b[i]) = IF i % 2 = 1 THEN Num((i + 1) \div 2) ELSE Tok("AND")
    BY <2>2, <2>3, <2>4
  <2> HIDE DEF b
  <2>8. t \in Seq(Token) /\ Len(t) = m /\ \A i \in 1..m : t[i] = TokenOf(b[i])
    BY <2>6, TokensImage
  <2> HIDE DEF t
  <2>9. t = Listed(n, 0)
    <3> DEFINE l == Listed(n, 0)
    <3>1. l \in Seq(Token) /\ Len(l) = m
          /\ \A i \in 1..m : l[i] = IF i % 2 = 1 THEN Num(0 + (i + 1) \div 2) ELSE Tok("AND")
      BY <1>1, ListedIs DEF m
    <3> HIDE DEF l
    <3>2. \A i \in 1..m : 0 + (i + 1) \div 2 = (i + 1) \div 2
      BY <2>2
    <3>3. \A i \in 1..m : t[i] = l[i]
      BY <2>7, <2>8, <3>1, <3>2
    <3>4. Len(t) = Len(l) /\ \A i \in 1..Len(t) : t[i] = l[i]
      BY <2>8, <3>1, <3>3
    <3>5. t = l
      BY <2>8, <3>1, <3>4, SeqEqual
    <3> QED BY <3>5 DEF l
  <2>10. Legal(t) /\ \A conds, r : Of(Chosen(conds, r), t) = 2
                                     <=> \A i \in 1..n : ConditionValue(conds[0 + i], r) = 2
    BY <1>1, <2>9, ListedMeans
  <2>11. Fine(scope.conds, t)
    <3> SUFFICES ASSUME NEW i \in DOMAIN t, t[i].type = "NUM"
                 PROVE  t[i].value \in 1..n /\ buildClause(scope.conds[t[i].value]) # Rejected
      BY DEF Fine
    <3>1. i \in 1..m
      BY <2>8
    <3>2. t[i] = IF i % 2 = 1 THEN Num((i + 1) \div 2) ELSE Tok("AND")
      BY <2>7, <2>8, <3>1
    <3>3. i % 2 = 1
      BY <3>2 DEF Tok
    <3>4. t[i].value = (i + 1) \div 2
      BY <3>2, <3>3 DEF Num
    <3>5. (i + 1) \div 2 \in 1..n
      BY <1>1, <3>1 DEF m
    <3>6. \A j \in 1..n : buildClause(scope.conds[j]) # Rejected
      BY <1>1, <1>3 DEF Answerable
    <3> QED BY <3>4, <3>5, <3>6
  <2>12. ASSUME NEW r PROVE Of(Chosen(scope.conds, r), t) = 2 <=> Meaning(scope, r)
    <3>1. \A i \in 1..n : 0 + i = i
      OBVIOUS
    <3>2. Meaning(scope, r) <=> \A i \in 1..n : ConditionValue(scope.conds[i], r) = 2
      BY <1>1, <1>3 DEF Meaning
    <3> HIDE DEF n
    <3> QED BY <2>10, <3>1, <3>2
  <2> QED BY <2>1, <2>6, <2>10, <2>11, <2>12 DEF t, Readable
<1> QED BY <1>2, <1>3

LEMMA PartIs ==
  ASSUME NEW scope, scope.conds \in Seq(Condition), scope.logic \in Seq(Lexeme),
         scope.conds # <<>>, Answerable(scope),
         NEW all \in Seq(Condition), NEW k \in Nat, Len(scope.conds) + k <= Len(all),
         \A i \in 1..Len(scope.conds) : all[i + k] = scope.conds[i]
  PROVE  \E c : /\ Shifted(scope, k) \in Seq(Lexeme) /\ tokenizeLogic(Shifted(scope, k)) = Paren(c)
                /\ Readable(all, c)
                /\ \A r : Of(Chosen(all, r), c) = 2 <=> Meaning(scope, r)
<1> DEFINE body == Expressed(scope)
           t == tokenizeLogic(body)
           c == Image(Moved(k), t)
           w == Shift(body, k)
           lp == <<Word("(")>>
           rp == <<Word(")")>>
           x == lp \o w
           y == x \o rp
<1>1. /\ body \in Seq(Lexeme) /\ Readable(scope.conds, t)
      /\ \A r : Of(Chosen(scope.conds, r), t) = 2 <=> Meaning(scope, r)
  BY BodyIs
<1>2. Shifted(scope, k) = y
  BY DEF Shifted, Expressed, Shift
<1> HIDE DEF body
<1>3. w \in Seq(Lexeme) /\ tokenizeLogic(w) = c
  BY <1>1, ShiftTokens
<1> HIDE DEF t
<1>4. /\ Readable(all, c)
      /\ \A r : Of(Chosen(all, r), c) = Of(Chosen(scope.conds, r), t)
  <2> DEFINE cs == scope.conds
  <2>1. /\ cs \in Seq(Condition) /\ Len(cs) + k <= Len(all)
        /\ \A i \in 1..Len(cs) : all[i + k] = cs[i]
        /\ Readable(cs, t)
    BY <1>1
  <2> HIDE DEF cs
  <2>2. /\ Readable(all, Image(Moved(k), t))
        /\ \A r : Of(Chosen(all, r), Image(Moved(k), t)) = Of(Chosen(cs, r), t)
    BY <2>1, MovedMeans
  <2> QED BY <2>2 DEF cs
<1> HIDE DEF c, w
<1>5. /\ lp \in Seq(Lexeme) /\ tokenizeLogic(lp) = <<Tok("LP")>>
      /\ rp \in Seq(Lexeme) /\ tokenizeLogic(rp) = <<Tok("RP")>>
  BY WordToken
<1> HIDE DEF lp, rp
<1>6. x \in Seq(Lexeme) /\ tokenizeLogic(x) = <<Tok("LP")>> \o c
  BY <1>3, <1>5, TokensConcat
<1> HIDE DEF x
<1>7. y \in Seq(Lexeme) /\ tokenizeLogic(y) = (<<Tok("LP")>> \o c) \o <<Tok("RP")>>
  BY <1>5, <1>6, TokensConcat
<1>8. tokenizeLogic(y) = Paren(c)
  BY <1>7 DEF Paren
<1> HIDE DEF y
<1>9. \A r : Of(Chosen(all, r), c) = 2 <=> Meaning(scope, r)
  BY <1>1, <1>4
<1> QED BY <1>2, <1>4, <1>7, <1>8, <1>9

\* Two filters as one (mergeScope): each keeps its own logic, and together
\* they are refused only for having too many conditions.
THEOREM MergedIs ==
  ASSUME MaxConditions \in Nat,
         NEW base, base.conds \in Seq(Condition), base.logic \in Seq(Lexeme),
         NEW chart, chart.conds \in Seq(Condition), chart.logic \in Seq(Lexeme),
         base.conds # <<>>, chart.conds # <<>>, Answerable(base), Answerable(chart)
  PROVE  LET m == mergeScope(base, chart)
         IN /\ m.conds = base.conds \o chart.conds
            /\ m.conds \in Seq(Condition) /\ m.logic \in Seq(Lexeme)
            /\ Len(m.conds) = Len(base.conds) + Len(chart.conds)
            /\ Answerable(m) <=> Len(m.conds) <= MaxConditions
            /\ \A r : Meaning(m, r) <=> Meaning(base, r) /\ Meaning(chart, r)
<1> DEFINE m == mergeScope(base, chart)
           n == Len(base.conds)
           all == base.conds \o chart.conds
           p == Shifted(base, 0)
           q == Shifted(chart, n)
           w == <<Word("AND")>>
           x == p \o w
           y == x \o q
<1>1. m = [conds |-> all, logic |-> y]
  BY DEF mergeScope
<1>2. /\ all \in Seq(Condition) /\ Len(all) = n + Len(chart.conds)
      /\ n \in Nat /\ Len(chart.conds) \in Nat
      /\ \A i \in 1..n + Len(chart.conds) :
           all[i] = IF i <= n THEN base.conds[i] ELSE chart.conds[i - n]
  <2> DEFINE a == base.conds
             b == chart.conds
             C == Condition
  <2>1. a \in Seq(C) /\ b \in Seq(C)
    OBVIOUS
  <2> HIDE DEF a, b, C
  <2>2. /\ a \o b \in Seq(C) /\ Len(a \o b) = Len(a) + Len(b)
        /\ Len(a) \in Nat /\ Len(b) \in Nat
        /\ \A i \in 1..Len(a) + Len(b) : (a \o b)[i] = IF i <= Len(a) THEN a[i] ELSE b[i - Len(a)]
    BY <2>1, ConcatProperties
  <2> QED BY <2>2 DEF a, b, C
<1> HIDE DEF all
<1>3. PICK c : /\ p \in Seq(Lexeme) /\ tokenizeLogic(p) = Paren(c) /\ Readable(all, c)
               /\ \A r : Of(Chosen(all, r), c) = 2 <=> Meaning(base, r)
  <2>1. 0 \in Nat /\ n + 0 <= Len(all) /\ \A i \in 1..n : all[i + 0] = base.conds[i]
    <3> DEFINE g == base.conds
               k == Len(chart.conds)
    <3>1. /\ n \in Nat /\ k \in Nat /\ Len(all) = n + k
          /\ \A i \in 1..n + k : all[i] = IF i <= n THEN g[i] ELSE chart.conds[i - n]
      BY <1>2
    <3> HIDE DEF n, k, g
    <3>2. 0 \in Nat /\ n + 0 <= Len(all) /\ \A i \in 1..n : i + 0 = i /\ i \in 1..n + k
      BY <3>1
    <3>3. \A i \in 1..n : all[i + 0] = g[i]
      BY <3>1, <3>2
    <3> QED BY <3>2, <3>3 DEF g
  <2> HIDE DEF p
  <2>2. \E c : /\ Shifted(base, 0) \in Seq(Lexeme) /\ tokenizeLogic(Shifted(base, 0)) = Paren(c)
               /\ Readable(all, c)
               /\ \A r : Of(Chosen(all, r), c) = 2 <=> Meaning(base, r)
    BY <1>2, <2>1, PartIs
  <2> QED BY <2>2 DEF p
<1>4. PICK d : /\ q \in Seq(Lexeme) /\ tokenizeLogic(q) = Paren(d) /\ Readable(all, d)
               /\ \A r : Of(Chosen(all, r), d) = 2 <=> Meaning(chart, r)
  <2>1. Len(chart.conds) + n <= Len(all) /\ \A i \in 1..Len(chart.conds) : all[i + n] = chart.conds[i]
    <3> DEFINE g == chart.conds
               k == Len(chart.conds)
    <3>1. /\ n \in Nat /\ k \in Nat /\ Len(all) = n + k
          /\ \A i \in 1..n + k : all[i] = IF i <= n THEN base.conds[i] ELSE g[i - n]
      BY <1>2
    <3> HIDE DEF n, k, g
    <3>2. k + n <= Len(all) /\ \A i \in 1..k : i + n \in 1..n + k /\ ~(i + n <= n) /\ (i + n) - n = i
      BY <3>1
    <3>3. \A i \in 1..k : all[i + n] = g[i]
      BY <3>1, <3>2
    <3> QED BY <3>2, <3>3 DEF g, k
  <2> HIDE DEF q, n
  <2>2. \E d : /\ Shifted(chart, n) \in Seq(Lexeme) /\ tokenizeLogic(Shifted(chart, n)) = Paren(d)
               /\ Readable(all, d)
               /\ \A r : Of(Chosen(all, r), d) = 2 <=> Meaning(chart, r)
    BY <1>2, <2>1, PartIs
  <2> QED BY <2>2 DEF q
<1> HIDE DEF p, q
<1>5. w \in Seq(Lexeme) /\ tokenizeLogic(w) = <<Tok("AND")>>
  BY WordToken
<1> HIDE DEF w
<1>6. x \in Seq(Lexeme) /\ tokenizeLogic(x) = Paren(c) \o <<Tok("AND")>>
  <2>1. p \in Seq(Lexeme) /\ w \in Seq(Lexeme)
    BY <1>3, <1>5
  <2>2. p \o w \in Seq(Lexeme) /\ tokenizeLogic(p \o w) = tokenizeLogic(p) \o tokenizeLogic(w)
    BY <2>1, TokensConcat
  <2> QED BY <1>3, <1>5, <2>2
<1> HIDE DEF x
<1>7. y \in Seq(Lexeme) /\ tokenizeLogic(y) = (Paren(c) \o <<Tok("AND")>>) \o Paren(d)
  BY <1>4, <1>6, TokensConcat
<1>8. tokenizeLogic(y) = Infix(Paren(c), "AND", Paren(d))
  BY <1>7 DEF Infix
<1> HIDE DEF y
<1> DEFINE a == Paren(c)
           b == Paren(d)
           t == Infix(a, "AND", b)
<1>9. /\ Readable(all, a) /\ Balanced(a) /\ NoOr(a) /\ NoAnd(a)
      /\ Readable(all, b) /\ Balanced(b) /\ NoOr(b) /\ NoAnd(b)
      /\ Balanced(c) /\ Balanced(d)
  <2>1. Legal(c) /\ Legal(d)
    BY <1>3, <1>4 DEF Readable
  <2>2. Balanced(c) /\ Balanced(d)
    BY <2>1, LegalBalanced
  <2> QED BY <1>3, <1>4, <2>2, ReadableOf, ParenShape
<1>10. ASSUME NEW r
       PROVE  Of(Chosen(all, r), t) = 2 <=> Meaning(base, r) /\ Meaning(chart, r)
  <2> DEFINE h == Chosen(all, r)
  <2>1. Reading(h)
    BY ChosenReads
  <2>2. Of(h, c) \in Three /\ Of(h, d) \in Three
    BY <1>3, <1>4, LegalThree DEF Readable
  <2> HIDE DEF h
  <2>3. Of(h, a) = Of(h, c) /\ Of(h, b) = Of(h, d)
    BY <1>9, <2>1, OfParen
  <2> HIDE DEF a, b
  <2>4. Of(h, t) = Both("AND", Of(h, a), Of(h, b))
    BY <1>9, <2>1, OfInfix DEF Left, Rest
  <2>5. Of(h, t) = 2 <=> Of(h, c) = 2 /\ Of(h, d) = 2
    BY <2>2, <2>3, <2>4, BothTwo
  <2> QED BY <1>3, <1>4, <2>5 DEF h
<1>11. Readable(all, t)
  <2> HIDE DEF a, b
  <2> QED BY <1>9, ReadableOf DEF Left, Rest
<1>12. m.conds = all /\ m.logic = y
  BY <1>1
<1> HIDE DEF m, a, b
<1>13. y # <<>>
  <2>1. t # <<>>
    <3>1. Legal(t)
      BY <1>11 DEF Readable
    <3>2. Numbers(t) # {}
      BY <3>1, LegalBalanced
    <3> HIDE DEF t
    <3> QED BY <3>2 DEF Numbers
  <2> QED BY <1>7, <1>8, <2>1, TokensOf DEF a, b
<1>14. Answerable(m) <=> Len(all) <= MaxConditions
  <2>1. DOMAIN all = 1..Len(all)
    BY <1>2
  <2>2. \A i \in DOMAIN all : Known(all[i])
    <3>1. \A i \in DOMAIN base.conds : Known(base.conds[i])
      BY DEF Answerable
    <3>2. \A i \in DOMAIN chart.conds : Known(chart.conds[i])
      BY DEF Answerable
    <3>3. DOMAIN base.conds = 1..n /\ DOMAIN chart.conds = 1..Len(chart.conds)
      OBVIOUS
    <3> SUFFICES ASSUME NEW i \in 1..Len(all) PROVE Known(all[i])
      BY <2>1
    <3> DEFINE k == Len(chart.conds)
    <3>6. /\ n \in Nat /\ k \in Nat /\ Len(all) = n + k
          /\ all[i] = IF i <= n THEN base.conds[i] ELSE chart.conds[i - n]
      BY <1>2
    <3> HIDE DEF n, k
    <3>4. CASE i <= n
      <4>1. i \in 1..n
        BY <3>4, <3>6
      <4> QED BY <3>1, <3>3, <3>4, <3>6, <4>1
    <3>5. CASE ~(i <= n)
      <4>1. i - n \in 1..k
        BY <3>5, <3>6
      <4> QED BY <3>2, <3>3, <3>5, <3>6, <4>1 DEF k
    <3> QED BY <3>4, <3>5
  <2>3. tokenizeLogic(y) = t
    BY <1>8 DEF a, b
  <2>4. /\ WellFormed[t]
        /\ \A i \in DOMAIN t : t[i].type = "NUM" =>
             t[i].value \in DOMAIN all /\ buildClause(all[t[i].value]) # Rejected
    <3> HIDE DEF t
    <3> QED BY <1>11, <2>1 DEF Readable, Legal, Fine
  <2> HIDE DEF t
  <2> QED BY <1>12, <1>13, <2>2, <2>3, <2>4 DEF Answerable
<1>15. ASSUME NEW r PROVE Meaning(m, r) <=> Meaning(base, r) /\ Meaning(chart, r)
  <2>1. Meaning(m, r) <=> Of(Chosen(all, r), tokenizeLogic(y)) = 2
    BY <1>7, <1>12, <1>13, MeaningIs
  <2> QED BY <1>8, <1>10, <2>1 DEF a, b
<1> QED BY <1>2, <1>7, <1>12, <1>14, <1>15 DEF m, all
=============================================================================
