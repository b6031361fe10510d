------------------------ MODULE AccessControlProofs ------------------------
(***************************************************************************)
(* Proofs about AccessControl, for any users, roles, groups and permission *)
(* codes, any number of requests under way and any number of restarts.     *)
(***************************************************************************)
EXTENDS AccessControl, SequenceTheorems, FiniteSetTheorems, TLAPS

-----------------------------------------------------------------------------
(* The inductive invariant *)

\* A set of links is one row set per key, all of it under that key.
GoodSet(x) == x.link \in Links /\ \A p \in x.rows : p[1] = x.key

GoodStatement(s) ==
  /\ s.do = "insert" =>
       /\ s.table \in Tables \ {"view"}
       /\ s.table = "role" => DOMAIN s.row = {"name", "system"}
  /\ s.do = "update" => s.table \in Tables
  /\ s.do = "delete" => s.table \in Tables \ {"view"}
  /\ s.do \in {"grant", "revoke"} => s.link \in Links
  /\ s.do = "replace" =>
       \A x, y \in s.sets : /\ GoodSet(x)
                            /\ x.link = y.link /\ x.key = y.key => x.rows = y.rows

\* A request has a sequence of them to run.
GoodTodo(q) == \E S : q \in Seq(S) /\ \A s \in S : GoodStatement(s)

GoodRequest(r) ==
  /\ DOMAIN r = {"by", "todo", "tx"}
  /\ DOMAIN r.tx = {"open", "seen", "waits", "others"}
  /\ GoodTodo(r.todo)

TypeOK ==
  /\ Columns(db)
  /\ DOMAIN req = Clients
  /\ \A c \in Clients : GoodRequest(req[c])
  /\ DOMAIN boot = {"at", "failed", "kept"}
  /\ boot.at \in 0..7

\* Nothing is asked of an application that is starting.
QuietStart == boot.at # 0 => \A c \in Clients : req[c] = Idle

\* A transaction knows of every row of its sets: it saw the row, or another
\* commit has added it since.
TxCovers ==
  \A c \in Clients :
    req[c].tx.open =>
      /\ Running(c) /\ Now(c).do = "replace"
      /\ \A s \in Now(c).sets :
           InSet(db, s) \subseteq req[c].tx.seen[s.link] \cup req[c].tx.others[s.link]

\* A kept administrator before the seed roles are looked at, and after.
Keeps(d, u) ==
  \E r \in EffectiveRoles(d, u) : /\ <<r, ManageUsers>> \in d.rolePerm
                                  /\ r \in Legacy(d) => <<u, r>> \in d.userRole
KeepsSafely(d, u) ==
  \E r \in EffectiveRoles(d, u) : <<r, ManageUsers>> \in d.rolePerm /\ r \notin Legacy(d)

HasMember(d) == \E g \in AdminGroups(d), u \in DOMAIN d.user : <<g, u>> \in d.groupMember

\* What those of the steps 1 to n - 1 of a start that did not fail have brought
\* about.
Restored(n, d, failed) ==
  /\ n > 1 /\ 1 \notin failed => SystemAdminRole(d) # {}
  /\ n > 2 /\ 2 \notin failed => SystemAdminRole(d) \X Permissions \subseteq d.rolePerm
  /\ n > 3 /\ 3 \notin failed => AdminGroups(d) # {}
  /\ n > 4 /\ 4 \notin failed => AdminGroups(d) \X SystemAdminRole(d) \subseteq d.groupRole
  /\ n > 6 /\ failed \cap {3, 6} = {} => HasMember(d) \/ findByEmail(d, DefaultEmail) = {}

\* What all of them have, of the administrators it is to keep too.
Stage(n, d, kept) ==
  /\ \A u \in kept : u \in DOMAIN d.user /\ IF n <= 5 THEN Keeps(d, u) ELSE KeepsSafely(d, u)
  /\ Restored(n, d, {})

StartKeeps == boot.at # 0 /\ boot.failed = {} => Stage(boot.at, db, boot.kept)
StartAsserts == boot.at # 0 => Restored(boot.at, db, boot.failed)

Inv ==
  /\ TypeOK /\ QuietStart /\ UniqueNames(db)
  /\ TxCovers /\ StartKeeps /\ StartAsserts

-----------------------------------------------------------------------------
(* Statements of a request *)

LEMMA Tuples ==
  ASSUME NEW a, NEW b
  PROVE  /\ <<a>> # <<>> /\ Head(<<a>>) = a /\ Tail(<<a>>) = <<>> /\ Len(<<a>>) = 1
         /\ <<a, b>> # <<>> /\ Head(<<a, b>>) = a /\ Tail(<<a, b>>) = <<b>> /\ Len(<<a, b>>) = 2
         /\ <<a>> \o <<b>> = <<a, b>> /\ <<a>> \o <<>> = <<a>> /\ <<>> \o <<b>> = <<b>>
<1>1. /\ <<a>> # <<>> /\ Head(<<a>>) = a /\ Tail(<<a>>) = <<>> /\ Len(<<a>>) = 1
  OBVIOUS
<1>2. /\ <<a, b>> # <<>> /\ Head(<<a, b>>) = a /\ Len(<<a, b>>) = 2
  OBVIOUS
<1>3. Tail(<<a, b>>) = <<b>>
  OBVIOUS
<1>4. <<a>> \o <<b>> = <<a, b>>
  <2> DEFINE q == <<a>> \o <<b>>
  <2>1. <<a>> \in Seq({a, b}) /\ <<b>> \in Seq({a, b}) /\ <<a, b>> \in Seq({a, b})
    OBVIOUS
  <2>2. q \in Seq({a, b}) /\ Len(q) = 2 /\ q[1] = a /\ q[2] = b
    BY <2>1
  <2>3. Len(<<a, b>>) = Len(q) /\ \A i \in 1..Len(q) : <<a, b>>[i] = q[i]
    BY <2>2
  <2> QED BY <2>1, <2>2, <2>3, SeqEqual
<1>5. <<a>> \o <<>> = <<a>> /\ <<>> \o <<b>> = <<b>>
  <2>1. <<a>> \in Seq({a}) /\ <<b>> \in Seq({b})
    OBVIOUS
  <2>2. <<a>> \o <<>> = <<a>>
    BY <2>1, ConcatEmptySeq, Zenon
  <2>3. <<>> \o <<b>> = <<b>>
    BY <2>1, ConcatEmptySeq, Zenon
  <2> QED BY <2>2, <2>3
<1> QED BY <1>1, <1>2, <1>3, <1>4, <1>5

LEMMA GoodStatements ==
  ASSUME NEW x, NEW row, NEW set, NEW pair, NEW key, NEW to
  PROVE  /\ \A t \in Tables \ {"role", "view"} : GoodStatement(Insert(t, x, row))
         /\ DOMAIN row = {"name", "system"} => GoodStatement(Insert("role", x, row))
         /\ \A t \in Tables : GoodStatement(Update(t, x, set))
         /\ \A t \in Tables \ {"view"} : GoodStatement(Remove(t, x))
         /\ \A l \in Links : /\ GoodStatement(Grant(l, pair)) /\ GoodStatement(Revoke(l, pair))
                             /\ GoodStatement(Replacing({SetOf(l, key, to)}))
         /\ GoodStatement(RevokeRoles(x)) /\ GoodStatement(Provision(x, row))
         /\ GoodStatement(Issue(x)) /\ GoodStatement(CountAdmins)
<1>1. /\ \A t \in Tables \ {"role", "view"} : GoodStatement(Insert(t, x, row))
      /\ DOMAIN row = {"name", "system"} => GoodStatement(Insert("role", x, row))
  BY DEF GoodStatement, Insert, Tables
<1>2. /\ \A t \in Tables : GoodStatement(Update(t, x, set))
      /\ \A t \in Tables \ {"view"} : GoodStatement(Remove(t, x))
  BY DEF GoodStatement, Update, Remove
<1>3. \A l \in Links : GoodStatement(Grant(l, pair)) /\ GoodStatement(Revoke(l, pair))
  BY DEF GoodStatement, Grant, Revoke
<1>4. \A l \in Links : GoodStatement(Replacing({SetOf(l, key, to)}))
  BY DEF GoodStatement, GoodSet, Replacing, SetOf
<1>5. /\ GoodStatement(RevokeRoles(x)) /\ GoodStatement(Provision(x, row))
      /\ GoodStatement(Issue(x)) /\ GoodStatement(CountAdmins)
  BY DEF GoodStatement, RevokeRoles, Provision, Issue, CountAdmins
<1> QED BY <1>1, <1>2, <1>3, <1>4, <1>5

LEMMA GoodMembers ==
  ASSUME NEW S, NEW q \in Seq(S), \A s \in S : GoodStatement(s)
  PROVE  GoodTodo(q)
BY Zenon DEF GoodTodo

\* Sequences of good statements.
LEMMA GoodSequences ==
  /\ GoodTodo(<<>>)
  /\ \A a : GoodStatement(a) => GoodTodo(<<a>>)
  /\ \A a, b : GoodStatement(a) /\ GoodStatement(b) => GoodTodo(<<a, b>>)
  /\ \A p, q : GoodTodo(p) /\ GoodTodo(q) => GoodTodo(p \o q)
  /\ \A p, q : GoodTodo(q) => GoodTodo(Opt(p, q))
<1>1. GoodTodo(<<>>)
  <2> DEFINE S == {}
             q == <<>>
  <2>1. q \in Seq(S) /\ \A s \in S : GoodStatement(s)
    OBVIOUS
  <2> HIDE DEF S, q
  <2>2. GoodTodo(q)
    BY <2>1, GoodMembers
  <2> QED BY <2>2 DEF q
<1>2. ASSUME NEW a, GoodStatement(a)
      PROVE  GoodTodo(<<a>>)
  <2> DEFINE S == {a}
             q == <<a>>
  <2>1. q \in Seq(S) /\ \A s \in S : GoodStatement(s)
    BY <1>2
  <2> HIDE DEF S, q
  <2>2. GoodTodo(q)
    BY <2>1, GoodMembers
  <2> QED BY <2>2 DEF q
<1>3. ASSUME NEW a, NEW b, GoodStatement(a), GoodStatement(b)
      PROVE  GoodTodo(<<a, b>>)
  <2> DEFINE S == {a, b}
             q == <<a, b>>
  <2>1. q \in Seq(S) /\ \A s \in S : GoodStatement(s)
    BY <1>3
  <2> HIDE DEF S, q
  <2>2. GoodTodo(q)
    BY <2>1, GoodMembers
  <2> QED BY <2>2 DEF q
<1>4. ASSUME NEW p, NEW q, GoodTodo(p), GoodTodo(q)
      PROVE  GoodTodo(p \o q)
  <2>1. PICK S : p \in Seq(S) /\ \A s \in S : GoodStatement(s)
    BY <1>4 DEF GoodTodo
  <2>2. PICK T : q \in Seq(T) /\ \A s \in T : GoodStatement(s)
    BY <1>4 DEF GoodTodo
  <2>3. p \in Seq(S \cup T) /\ q \in Seq(S \cup T)
    BY <2>1, <2>2
  <2>4. p \o q \in Seq(S \cup T)
    BY <2>3
  <2>5. \A s \in S \cup T : GoodStatement(s)
    BY <2>1, <2>2
  <2> QED BY <2>4, <2>5 DEF GoodTodo
<1>5. \A p, q : GoodTodo(q) => GoodTodo(Opt(p, q))
  BY <1>1 DEF Opt
<1> QED BY <1>1, <1>2, <1>3, <1>4, <1>5

LEMMA Heads ==
  ASSUME NEW q, GoodTodo(q), q # <<>>
  PROVE  /\ GoodStatement(Head(q)) /\ GoodTodo(Tail(q)) /\ Tail(q) # q
         /\ Len(q) = 1 => Tail(q) = <<>>
<1>1. PICK S : q \in Seq(S) /\ \A s \in S : GoodStatement(s)
  BY DEF GoodTodo
<1>2. Head(q) \in S /\ Tail(q) \in Seq(S) /\ Len(Tail(q)) = Len(q) - 1 /\ Len(q) \in Nat
  BY <1>1, HeadTailProperties
<1> DEFINE t == Tail(q)
<1>3. Len(q) = 1 => t = <<>>
  <2>1. t \in Seq(S) /\ Len(t) = Len(q) - 1
    BY <1>2
  <2> HIDE DEF t
  <2>2. t # <<>> => Len(t) \in Nat \ {0}
    BY <2>1, EmptySeq
  <2> QED BY <2>1, <2>2
<1>4. t # q
  <2>1. Len(t) = Len(q) - 1 /\ Len(q) \in Nat
    BY <1>2
  <2> HIDE DEF t
  <2> QED BY <2>1
<1> QED BY <1>1, <1>2, <1>3, <1>4 DEF GoodTodo

-----------------------------------------------------------------------------
(* What statements do to the tables *)

LEMMA PruneKeeps ==
  ASSUME NEW d, DOMAIN d = Tables \cup Links
  PROVE  /\ DOMAIN Prune(d) = Tables \cup Links
         /\ Prune(d).user = d.user /\ Prune(d).role = d.role /\ Prune(d).group = d.group
         /\ Prune(d).view = d.view
         /\ Prune(d).userRole = d.userRole \cap ((DOMAIN d.user) \X (DOMAIN d.role))
         /\ Prune(d).rolePerm = d.rolePerm \cap ((DOMAIN d.role) \X Permissions)
         /\ Prune(d).groupRole = d.groupRole \cap ((DOMAIN d.group) \X (DOMAIN d.role))
         /\ Prune(d).groupMember = d.groupMember \cap ((DOMAIN d.group) \X (DOMAIN d.user))
<1> DEFINE kept == [d EXCEPT !.board = [b \in {b \in DOMAIN @ : @[b].owner \in DOMAIN d.user \cup {Nobody}}
                                          |-> @[b]]]
<1>1. /\ DOMAIN kept = Tables \cup Links
      /\ kept.user = d.user /\ kept.role = d.role /\ kept.group = d.group /\ kept.view = d.view
  <2> DEFINE boards == [b \in {b \in DOMAIN d.board : d.board[b].owner \in DOMAIN d.user \cup {Nobody}}
                          |-> d.board[b]]
  <2>1. kept = [d EXCEPT !.board = boards]
    OBVIOUS
  <2> HIDE DEF boards, kept
  <2> QED BY <2>1 DEF Tables, Links
<1>2. Prune(d) = [t \in DOMAIN d |-> IF t \in Links THEN d[t] \cap References(kept, t) ELSE kept[t]]
  BY DEF Prune
<1> HIDE DEF kept
<1>3. /\ References(kept, "userRole") = (DOMAIN d.user) \X (DOMAIN d.role)
      /\ References(kept, "rolePerm") = (DOMAIN d.role) \X Permissions
      /\ References(kept, "groupRole") = (DOMAIN d.group) \X (DOMAIN d.role)
      /\ References(kept, "groupMember") = (DOMAIN d.group) \X (DOMAIN d.user)
  <2>1. /\ LeftOf(kept, "userRole") = DOMAIN d.user
        /\ LeftOf(kept, "rolePerm") = DOMAIN d.role
        /\ LeftOf(kept, "groupRole") = DOMAIN d.group
        /\ LeftOf(kept, "groupMember") = DOMAIN d.group
    BY <1>1 DEF LeftOf
  <2>2. /\ RightOf(kept, "userRole") = DOMAIN d.role
        /\ RightOf(kept, "rolePerm") = Permissions
        /\ RightOf(kept, "groupRole") = DOMAIN d.role
        /\ RightOf(kept, "groupMember") = DOMAIN d.user
    BY <1>1 DEF RightOf
  <2> QED BY <2>1, <2>2 DEF References
<1> QED BY <1>1, <1>2, <1>3 DEF Tables, Links

LEMMA SameRoles ==
  ASSUME NEW d, NEW e, Columns(d), UniqueNames(d),
         DOMAIN e = DOMAIN d, e.role = d.role, DOMAIN e.view = DOMAIN d.view
  PROVE  Columns(e) /\ UniqueNames(e)
BY DEF Columns, UniqueNames

\* A statement that does not fail keeps the names of roles apart.
LEMMA EffectKeepsNames ==
  ASSUME NEW d, NEW s, Columns(d), UniqueNames(d), GoodStatement(s), ~Fails(d, s)
  PROVE  Columns(Effect(d, s)) /\ UniqueNames(Effect(d, s))
<1> USE DEF Columns
<1>1. CASE s.do = "insert"
  <2>1. /\ s.table \in Tables \ {"view"}
        /\ Effect(d, s) = [d EXCEPT ![s.table] = Put(@, s.id, s.row)]
    BY <1>1 DEF GoodStatement, Effect
  <2>2. CASE s.table # "role"
    BY <2>1, <2>2, SameRoles DEF Tables
  <2>3. CASE s.table = "role"
    <3>1. \A y \in DOMAIN d.role \ {s.id} : d.role[y].name # s.row.name
      BY <1>1, <2>3 DEF Fails, Unique
    <3>2. DOMAIN s.row = {"name", "system"}
      BY <1>1, <2>3 DEF GoodStatement
    <3> QED BY <2>1, <2>3, <3>1, <3>2 DEF Put, UniqueNames, Tables
  <2> QED BY <2>2, <2>3
<1>2. CASE s.do = "update"
  <2>1. s.table \in Tables /\ Effect(d, s) = IF s.id \in DOMAIN d[s.table]
                                       THEN [d EXCEPT ![s.table][s.id] = Changed(d, s)] ELSE d
    BY <1>2 DEF GoodStatement, Effect
  <2>2. CASE s.table # "role" \/ s.id \notin DOMAIN d[s.table]
    <3> DEFINE e == [d EXCEPT ![s.table][s.id] = Changed(d, s)]
    <3>1. /\ DOMAIN e = DOMAIN d /\ DOMAIN e.view = DOMAIN d.view
          /\ s.table # "role" => e.role = d.role
      BY <2>1 DEF Tables
    <3> HIDE DEF e
    <3>2. s.id \in DOMAIN d[s.table] => Columns(e) /\ UniqueNames(e)
      BY <2>2, <3>1, SameRoles DEF Columns
    <3> QED BY <2>1, <3>2 DEF e
  <2>3. CASE s.table = "role" /\ s.id \in DOMAIN d.role
    <3>1. \A y \in DOMAIN d.role \ {s.id} : d.role[y].name # Changed(d, s).name
      BY <1>2, <2>3 DEF Fails, Unique
    <3>2. DOMAIN Changed(d, s) = {"name", "system"}
      BY <2>3 DEF Changed
    <3>3. /\ DOMAIN Effect(d, s) = Tables \cup Links /\ Effect(d, s).view = d.view
          /\ Effect(d, s).role = [d.role EXCEPT ![s.id] = Changed(d, s)]
      BY <2>1, <2>3 DEF Tables
    <3> QED BY <2>3, <3>1, <3>2, <3>3 DEF UniqueNames
  <2> QED BY <2>2, <2>3
<1>3. CASE s.do = "delete"
  <2> DEFINE e == [d EXCEPT ![s.table] = [y \in DOMAIN @ \ {s.id} |-> @[y]]]
  <2>1. s.table \in Tables \ {"view"} /\ Effect(d, s) = Prune(e)
    BY <1>3 DEF GoodStatement, Effect, Delete
  <2>2. DOMAIN e = Tables \cup Links /\ e.view = d.view
    BY <2>1 DEF Tables
  <2>3. \/ e.role = d.role
        \/ e.role = [y \in DOMAIN d.role \ {s.id} |-> d.role[y]]
    BY DEF Tables
  <2> HIDE DEF e
  <2>4. DOMAIN Prune(e) = Tables \cup Links /\ Prune(e).role = e.role /\ Prune(e).view = d.view
    BY <2>2, PruneKeeps
  <2>5. /\ DOMAIN e.role \subseteq DOMAIN d.role
        /\ \A r \in DOMAIN e.role : e.role[r] = d.role[r]
    BY <2>3
  <2> QED BY <2>1, <2>4, <2>5 DEF UniqueNames
<1>4. CASE s.do \in {"grant", "revoke"}
  <2>1. s.link \in Links
    BY <1>4 DEF GoodStatement
  <2>2. \E rows : Effect(d, s) = [d EXCEPT ![s.link] = rows]
    BY <1>4 DEF Effect
  <2>3. /\ DOMAIN Effect(d, s) = DOMAIN d /\ Effect(d, s).role = d.role
        /\ Effect(d, s).view = d.view
    BY <2>1, <2>2 DEF Tables, Links
  <2> QED BY <2>3, SameRoles
<1>5. CASE s.do \in {"revokeRoles", "provision"}
  BY <1>5, SameRoles DEF Effect, Tables, Links
<1>6. CASE s.do \notin {"insert", "update", "delete", "grant", "revoke", "revokeRoles", "provision"}
  BY <1>6 DEF Effect
<1> QED BY <1>1, <1>2, <1>3, <1>4, <1>5, <1>6

LEMMA ReplacedKeepsNames ==
  ASSUME NEW c, Columns(db), UniqueNames(db)
  PROVE  Columns(Replaced(c)) /\ UniqueNames(Replaced(c))
<1>1. DOMAIN Replaced(c) = DOMAIN db /\ Replaced(c).role = db.role /\ Replaced(c).view = db.view
  BY DEF Replaced, Columns, Tables, Links
<1> QED BY <1>1, SameRoles

-----------------------------------------------------------------------------
(* What the steps of a start do *)

LEMMA StartKeepsTables ==
  ASSUME NEW d, Columns(d), NEW n \in Steps
  PROVE  /\ DOMAIN Step(n, d) = Tables \cup Links
         /\ Step(n, d).user = d.user /\ Step(n, d).view = d.view
<1> USE DEF Columns, Tables, Links
<1>1. CASE n = 1 BY <1>1 DEF Step, AssertRole
<1>2. CASE n = 2 BY <1>2 DEF Step, AssertPermissions
<1>3. CASE n = 3 BY <1>3 DEF Step, AssertGroup
<1>4. CASE n = 4 BY <1>4 DEF Step, AssertGroupRole
<1>5. CASE n = 5 BY <1>5 DEF Step, MigrateAdmins
<1>6. CASE n = 6 BY <1>6 DEF Step, SeedAdmin
<1>7. CASE n = 7
  <2> DEFINE less == [d EXCEPT !.role = [r \in DOMAIN @ \ Legacy(d) |-> @[r]]]
  <2>1. DOMAIN less = Tables \cup Links /\ less.user = d.user /\ less.view = d.view
    OBVIOUS
  <2>2. Step(n, d) = Prune(less)
    BY <1>7 DEF Step, RemoveLegacy
  <2> QED BY <2>1, <2>2, PruneKeeps
<1> QED BY <1>1, <1>2, <1>3, <1>4, <1>5, <1>6, <1>7 DEF Steps

LEMMA StartKeepsRoles ==
  ASSUME NEW d, Columns(d), NEW n \in 2..6
  PROVE  Step(n, d).role = d.role
<1> USE DEF Columns, Tables, Links
<1>2. CASE n = 2 BY <1>2 DEF Step, AssertPermissions
<1>3. CASE n = 3 BY <1>3 DEF Step, AssertGroup
<1>4. CASE n = 4 BY <1>4 DEF Step, AssertGroupRole
<1>5. CASE n = 5 BY <1>5 DEF Step, MigrateAdmins
<1>6. CASE n = 6 BY <1>6 DEF Step, SeedAdmin
<1> QED BY <1>2, <1>3, <1>4, <1>5, <1>6

LEMMA StartKeepsNames ==
  ASSUME NEW d, Columns(d), UniqueNames(d), NEW n \in Steps
  PROVE  Columns(Step(n, d)) /\ UniqueNames(Step(n, d))
<1>1. CASE n = 1
  <2>1. /\ Step(n, d) = AssertRole(d) /\ DOMAIN AssertRole(d) = Tables \cup Links
        /\ AssertRole(d).view = d.view
    BY <1>1, StartKeepsTables DEF Step
  <2>2. CASE SystemAdminRole(d) = {}
    <3>1. AssertRole(d).role = Put(d.role, AdminRole, [name |-> SystemAdmin, system |-> TRUE])
      BY <2>2 DEF AssertRole, Columns, Tables
    <3>2. \A r \in DOMAIN d.role : d.role[r].name # SystemAdmin
      BY <2>2 DEF SystemAdminRole, findByName
    <3> QED BY <2>1, <3>1, <3>2 DEF Put, Columns, UniqueNames
  <2>3. CASE SystemAdminRole(d) # {}
    <3>1. AssertRole(d).role = [r \in DOMAIN d.role |->
                                  IF r \in SystemAdminRole(d) THEN [d.role[r] EXCEPT !.system = TRUE]
                                  ELSE d.role[r]]
      BY <2>3 DEF AssertRole, Columns, Tables
    <3>2. \A r \in DOMAIN d.role : /\ DOMAIN AssertRole(d).role[r] = {"name", "system"}
                                   /\ AssertRole(d).role[r].name = d.role[r].name
      BY <3>1 DEF Columns
    <3> QED BY <2>1, <3>1, <3>2 DEF Columns, UniqueNames
  <2> QED BY <2>2, <2>3
<1>2. CASE n \in 2..6
  <2>1. DOMAIN Step(n, d) = DOMAIN d /\ Step(n, d).view = d.view
    BY StartKeepsTables DEF Columns
  <2> QED BY <1>2, <2>1, StartKeepsRoles, SameRoles
<1>3. CASE n = 7
  <2> DEFINE less == [d EXCEPT !.role = [r \in DOMAIN @ \ Legacy(d) |-> @[r]]]
  <2>1. /\ DOMAIN less = Tables \cup Links /\ less.view = d.view
        /\ less.role = [r \in DOMAIN d.role \ Legacy(d) |-> d.role[r]]
    BY DEF Columns, Tables
  <2>2. Step(n, d) = Prune(less)
    BY <1>3 DEF Step, RemoveLegacy
  <2> HIDE DEF less
  <2>3. /\ DOMAIN Prune(less) = Tables \cup Links
        /\ Prune(less).role = less.role /\ Prune(less).view = less.view
    BY <2>1, PruneKeeps
  <2> QED BY <2>1, <2>2, <2>3 DEF Columns, UniqueNames
<1> QED BY <1>1, <1>2, <1>3 DEF Steps

\* More rows, and no more seed roles, keep an administrator.
LEMMA KeepsGrows ==
  ASSUME NEW d, NEW e, NEW u,
         DOMAIN d.role \subseteq DOMAIN e.role, DOMAIN d.group \subseteq DOMAIN e.group,
         d.userRole \subseteq e.userRole, d.rolePerm \subseteq e.rolePerm,
         d.groupRole \subseteq e.groupRole, d.groupMember \subseteq e.groupMember,
         Legacy(e) \subseteq Legacy(d)
  PROVE  (Keeps(d, u) => Keeps(e, u)) /\ (KeepsSafely(d, u) => KeepsSafely(e, u))
<1>1. EffectiveRoles(d, u) \subseteq EffectiveRoles(e, u)
  BY DEF EffectiveRoles
<1> QED BY <1>1 DEF Keeps, KeepsSafely

\* A kept administrator whose seed role is his own is moved to the group.
LEMMA MigrationMoves ==
  ASSUME NEW d, NEW kept, Columns(d), Stage(5, d, kept), NEW u \in kept
  PROVE  KeepsSafely(MigrateAdmins(d), u)
<1> DEFINE e == MigrateAdmins(d)
<1>1. /\ e.role = d.role /\ e.group = d.group /\ e.user = d.user
      /\ e.userRole = d.userRole /\ e.rolePerm = d.rolePerm /\ e.groupRole = d.groupRole
      /\ e.groupMember = d.groupMember \cup (AdminGroups(d) \X DirectAdmins(d))
  BY DEF MigrateAdmins, Columns, Tables, Links
<1>2. Legacy(e) = Legacy(d)
  BY <1>1 DEF Legacy
<1> SUFFICES KeepsSafely(e, u)
  OBVIOUS
<1> HIDE DEF e
<1>3. u \in DOMAIN d.user /\ Keeps(d, u)
  BY DEF Stage
<1>4. PICK r \in EffectiveRoles(d, u) : /\ <<r, ManageUsers>> \in d.rolePerm
                                        /\ r \in Legacy(d) => <<u, r>> \in d.userRole
  BY <1>3 DEF Keeps
<1>5. CASE r \notin Legacy(d)
  <2>1. r \in EffectiveRoles(e, u)
    BY <1>1, <1>4 DEF EffectiveRoles
  <2> QED BY <1>1, <1>2, <1>4, <1>5, <2>1 DEF KeepsSafely
<1>6. CASE r \in Legacy(d)
  <2>1. u \in DirectAdmins(d)
    BY <1>3, <1>4, <1>6 DEF DirectAdmins, EffectiveRoles
  <2>2. PICK g \in AdminGroups(d), a \in SystemAdminRole(d) : TRUE
    BY DEF Stage, Restored
  <2>3. <<g, u>> \in e.groupMember /\ <<g, a>> \in e.groupRole /\ g \in DOMAIN e.group /\ a \in DOMAIN e.role
    BY <1>1, <2>1, <2>2 DEF Stage, Restored, AdminGroups, SystemAdminRole, findByName
  <2>4. a \in EffectiveRoles(e, u)
    BY <2>3 DEF EffectiveRoles
  <2>5. <<a, ManageUsers>> \in e.rolePerm
    BY <1>1, <2>2, CodesAssumption DEF Stage, Restored
  <2>6. a \notin Legacy(e)
    BY <1>1, <2>2 DEF Legacy, SystemAdminRole, findByName
  <2> QED BY <2>4, <2>5, <2>6 DEF KeepsSafely
<1> QED BY <1>5, <1>6

\* A step of a start that is run asserts what it is to, and leaves what others
\* have asserted.
LEMMA RestoredPasses ==
  ASSUME NEW d, NEW failed, NEW n \in Steps, Columns(d), Restored(n, d, failed)
  PROVE  Restored(n + 1, Step(n, d), failed)
<1> DEFINE e == Step(n, d)
<1> USE DEF Columns, Tables, Links
<1>1. CASE n = 1
  <2>1. SystemAdminRole(e) # {}
    <3>1. CASE SystemAdminRole(d) = {}
      <4>1. e.role = Put(d.role, AdminRole, [name |-> SystemAdmin, system |-> TRUE])
        BY <1>1, <3>1 DEF Step, AssertRole
      <4> QED BY <4>1 DEF Put, SystemAdminRole, findByName
    <3>2. CASE SystemAdminRole(d) # {}
      <4>1. e.role = [r \in DOMAIN d.role |->
                        IF r \in SystemAdminRole(d) THEN [d.role[r] EXCEPT !.system = TRUE]
                        ELSE d.role[r]]
        BY <1>1, <3>2 DEF Step, AssertRole
      <4>2. \A r \in DOMAIN d.role : e.role[r].name = d.role[r].name
        BY <4>1
      <4> QED BY <3>2, <4>1, <4>2 DEF SystemAdminRole, findByName
    <3> QED BY <3>1, <3>2
  <2> QED BY <1>1, <2>1 DEF Restored
<1>2. CASE n \in 2..6
  <2>1. SystemAdminRole(e) = SystemAdminRole(d)
    BY <1>2, StartKeepsRoles DEF SystemAdminRole, findByName
  <2>2. findByEmail(e, DefaultEmail) = findByEmail(d, DefaultEmail)
    BY StartKeepsTables DEF findByEmail
  <2>3. CASE n = 2
    <3>1. e.rolePerm = d.rolePerm \cup (SystemAdminRole(d) \X Permissions)
      BY <2>3 DEF Step, AssertPermissions
    <3> QED BY <2>1, <2>3, <3>1 DEF Restored
  <2>4. CASE n = 3
    <3>1. e = AssertGroup(d)
      BY <2>4 DEF Step
    <3>2. e.rolePerm = d.rolePerm /\ AdminGroups(e) # {}
      <4>1. CASE AdminGroups(d) # {}
        BY <3>1, <4>1 DEF AssertGroup
      <4>2. CASE AdminGroups(d) = {}
        <5> DEFINE g == CHOOSE g \in GroupIds : g \notin DOMAIN d.group
        <5>1. e = [d EXCEPT !.group = Put(@, g, [name |-> AdminGroupName])]
          BY <3>1, <4>2 DEF AssertGroup
        <5> HIDE DEF g, e
        <5>2. e.rolePerm = d.rolePerm /\ e.group = Put(d.group, g, [name |-> AdminGroupName])
          BY <5>1
        <5>3. g \in DOMAIN e.group /\ e.group[g].name = AdminGroupName
          BY <5>2 DEF Put
        <5> QED BY <5>2, <5>3 DEF AdminGroups, findByName
      <4> QED BY <4>1, <4>2
    <3> QED BY <2>1, <2>4, <3>2 DEF Restored
  <2>5. CASE n = 4
    <3>1. /\ e.rolePerm = d.rolePerm /\ e.group = d.group
          /\ e.groupRole = d.groupRole \cup (AdminGroups(d) \X SystemAdminRole(d))
      BY <2>5 DEF Step, AssertGroupRole
    <3>2. AdminGroups(e) = AdminGroups(d)
      BY <3>1 DEF AdminGroups, findByName
    <3> QED BY <2>1, <2>5, <3>1, <3>2 DEF Restored
  <2>6. CASE n = 5
    <3>1. e.rolePerm = d.rolePerm /\ e.group = d.group /\ e.groupRole = d.groupRole
      BY <2>6 DEF Step, MigrateAdmins
    <3>2. AdminGroups(e) = AdminGroups(d)
      BY <3>1 DEF AdminGroups, findByName
    <3> QED BY <2>1, <2>6, <3>1, <3>2 DEF Restored
  <2>7. CASE n = 6
    <3>1. e = SeedAdmin(d)
      BY <2>7 DEF Step
    <3>2. e.user = d.user /\ e.rolePerm = d.rolePerm /\ e.group = d.group /\ e.groupRole = d.groupRole
      BY <3>1 DEF SeedAdmin
    <3>3. AdminGroups(e) = AdminGroups(d)
      BY <3>2 DEF AdminGroups, findByName
    <3>4. AdminGroups(d) # {} => HasMember(e) \/ findByEmail(e, DefaultEmail) = {}
      <4>1. CASE HasMember(d)
        <5>1. e = d
          BY <3>1, <4>1 DEF SeedAdmin, HasMember
        <5> QED BY <4>1, <5>1
      <4>2. CASE ~HasMember(d)
        <5>1. e.groupMember = d.groupMember \cup (AdminGroups(d) \X findByEmail(d, DefaultEmail))
          BY <3>1, <4>2 DEF SeedAdmin, HasMember
        <5>2. findByEmail(d, DefaultEmail) \subseteq DOMAIN d.user
          BY DEF findByEmail
        <5> QED BY <2>2, <3>2, <3>3, <5>1, <5>2 DEF HasMember
      <4> QED BY <4>1, <4>2
    <3> QED BY <2>1, <2>7, <3>2, <3>3, <3>4 DEF Restored
  <2> QED BY <1>2, <2>3, <2>4, <2>5, <2>6, <2>7
<1>3. CASE n = 7
  <2> DEFINE less == [d EXCEPT !.role = [r \in DOMAIN @ \ Legacy(d) |-> @[r]]]
  <2>1. /\ DOMAIN less = Tables \cup Links
        /\ less.user = d.user /\ less.group = d.group
        /\ less.role = [r \in DOMAIN d.role \ Legacy(d) |-> d.role[r]]
        /\ less.rolePerm = d.rolePerm /\ less.groupRole = d.groupRole
        /\ less.groupMember = d.groupMember
    OBVIOUS
  <2>2. e = Prune(less)
    BY <1>3 DEF Step, RemoveLegacy
  <2> HIDE DEF less, e
  <2>3. /\ e.user = d.user /\ e.role = less.role /\ e.group = d.group
        /\ e.rolePerm = d.rolePerm \cap ((DOMAIN e.role) \X Permissions)
        /\ e.groupRole = d.groupRole \cap ((DOMAIN d.group) \X (DOMAIN e.role))
        /\ e.groupMember = d.groupMember \cap ((DOMAIN d.group) \X (DOMAIN d.user))
    BY <2>1, <2>2, PruneKeeps
  <2>4. SystemAdminRole(e) = SystemAdminRole(d) /\ SystemAdminRole(e) \subseteq DOMAIN e.role
    BY <2>1, <2>3 DEF SystemAdminRole, findByName, Legacy
  <2>5. AdminGroups(e) = AdminGroups(d) /\ AdminGroups(e) \subseteq DOMAIN d.group
    BY <2>3 DEF AdminGroups, findByName
  <2>6. findByEmail(e, DefaultEmail) = findByEmail(d, DefaultEmail)
    BY <2>3 DEF findByEmail
  <2>7. HasMember(d) => HasMember(e)
    BY <2>3, <2>5 DEF HasMember
  <2>8. /\ 1 \notin failed => SystemAdminRole(d) # {}
        /\ 2 \notin failed => SystemAdminRole(d) \X Permissions \subseteq d.rolePerm
        /\ 3 \notin failed => AdminGroups(d) # {}
        /\ 4 \notin failed => AdminGroups(d) \X SystemAdminRole(d) \subseteq d.groupRole
        /\ failed \cap {3, 6} = {} => HasMember(d) \/ findByEmail(d, DefaultEmail) = {}
    BY <1>3 DEF Restored
  <2>9. Restored(n + 1, e, failed)
    BY <2>3, <2>4, <2>5, <2>6, <2>7, <2>8 DEF Restored
  <2> QED BY <2>9 DEF e
<1> QED BY <1>1, <1>2, <1>3 DEF Steps

\* One that fails asserts nothing, and nothing is taken away.
LEMMA FailurePasses ==
  ASSUME NEW d, NEW failed, NEW n \in Steps, Restored(n, d, failed)
  PROVE  Restored(n + 1, d, failed \cup {n})
BY DEF Restored, Steps

LEMMA StagePasses ==
  ASSUME NEW d, NEW kept, NEW n \in 1..6, Columns(d), Stage(n, d, kept)
  PROVE  Stage(n + 1, Step(n, d), kept)
<1> DEFINE e == Step(n, d)
<1>0. e.user = d.user /\ Restored(n + 1, e, {})
  BY StartKeepsTables, RestoredPasses DEF Steps, Stage
<1> USE DEF Columns, Tables, Links
<1>1. CASE n = 1
  <2>1. e = AssertRole(d) /\ \A t \in (Tables \cup Links) \ {"role"} : e[t] = d[t]
    BY <1>1 DEF Step, AssertRole
  <2>2. DOMAIN d.role \subseteq DOMAIN e.role /\ Legacy(e) \subseteq Legacy(d)
    <3>1. CASE SystemAdminRole(d) = {}
      <4>1. e.role = Put(d.role, AdminRole, [name |-> SystemAdmin, system |-> TRUE])
        BY <2>1, <3>1 DEF AssertRole
      <4> QED BY <4>1 DEF Put, Legacy
    <3>2. CASE SystemAdminRole(d) # {}
      <4>1. e.role = [r \in DOMAIN d.role |->
                        IF r \in SystemAdminRole(d) THEN [d.role[r] EXCEPT !.system = TRUE]
                        ELSE d.role[r]]
        BY <2>1, <3>2 DEF AssertRole
      <4>2. \A r \in DOMAIN d.role : /\ e.role[r].name = d.role[r].name
                                     /\ r \notin SystemAdminRole(d) => e.role[r] = d.role[r]
        BY <4>1
      <4> QED BY <4>1, <4>2 DEF SystemAdminRole, findByName, Legacy
    <3> QED BY <3>1, <3>2
  <2>3. \A u \in kept : Keeps(d, u) => Keeps(e, u)
    BY <2>1, <2>2, KeepsGrows
  <2> QED BY <1>0, <1>1, <2>3 DEF Stage
<1>2. CASE n = 5
  <2>1. e = MigrateAdmins(d)
    BY <1>2 DEF Step
  <2>2. \A u \in kept : KeepsSafely(e, u)
    BY <1>2, <2>1, MigrationMoves
  <2> QED BY <1>0, <1>2, <2>2 DEF Stage
<1>3. CASE n \in {2, 3, 4, 6}
  <2>1. e.role = d.role /\ Legacy(e) = Legacy(d)
    BY <1>3, StartKeepsRoles DEF Legacy
  <2>2. /\ DOMAIN d.group \subseteq DOMAIN e.group
        /\ d.userRole \subseteq e.userRole /\ d.rolePerm \subseteq e.rolePerm
        /\ d.groupRole \subseteq e.groupRole /\ d.groupMember \subseteq e.groupMember
    <3>1. CASE n = 2 BY <3>1 DEF Step, AssertPermissions
    <3>2. CASE n = 3 BY <3>2 DEF Step, AssertGroup, Put
    <3>3. CASE n = 4 BY <3>3 DEF Step, AssertGroupRole
    <3>4. CASE n = 6 BY <3>4 DEF Step, SeedAdmin
    <3> QED BY <1>3, <3>1, <3>2, <3>3, <3>4
  <2>3. \A u : (Keeps(d, u) => Keeps(e, u)) /\ (KeepsSafely(d, u) => KeepsSafely(e, u))
    BY <2>1, <2>2, KeepsGrows
  <2> QED BY <1>0, <1>3, <2>3 DEF Stage
<1> QED BY <1>1, <1>2, <1>3

LEMMA SafelyManages ==
  ASSUME NEW d, NEW u, KeepsSafely(d, u)
  PROVE  ManageUsers \in PermissionsOf(d, u)
BY CodesAssumption DEF KeepsSafely, PermissionsOf

LEMMA RemovalKeeps ==
  ASSUME NEW d, NEW u, Columns(d), u \in DOMAIN d.user, KeepsSafely(d, u)
  PROVE  ManageUsers \in PermissionsOf(RemoveLegacy(d), u)
<1> DEFINE less == [d EXCEPT !.role = [r \in DOMAIN @ \ Legacy(d) |-> @[r]]]
           e == Prune(less)
<1>1. /\ DOMAIN less = Tables \cup Links
      /\ less.user = d.user /\ less.group = d.group
      /\ less.role = [r \in DOMAIN d.role \ Legacy(d) |-> d.role[r]]
      /\ less.userRole = d.userRole /\ less.rolePerm = d.rolePerm
      /\ less.groupRole = d.groupRole /\ less.groupMember = d.groupMember
  BY DEF Columns, Tables, Links
<1>2. RemoveLegacy(d) = e
  BY DEF RemoveLegacy
<1> HIDE DEF less
<1>3. /\ e.user = less.user /\ e.role = less.role /\ e.group = less.group
      /\ e.userRole = less.userRole \cap ((DOMAIN less.user) \X (DOMAIN less.role))
      /\ e.rolePerm = less.rolePerm \cap ((DOMAIN less.role) \X Permissions)
      /\ e.groupRole = less.groupRole \cap ((DOMAIN less.group) \X (DOMAIN less.role))
      /\ e.groupMember = less.groupMember \cap ((DOMAIN less.group) \X (DOMAIN less.user))
  BY <1>1, PruneKeeps
<1> HIDE DEF e
<1>4. PICK r \in EffectiveRoles(d, u) : <<r, ManageUsers>> \in d.rolePerm /\ r \notin Legacy(d)
  BY DEF KeepsSafely
<1>5. r \in EffectiveRoles(e, u)
  BY <1>1, <1>3, <1>4 DEF EffectiveRoles
<1>6. <<r, ManageUsers>> \in e.rolePerm
  BY <1>1, <1>3, <1>4, CodesAssumption DEF EffectiveRoles
<1> QED BY <1>2, <1>5, <1>6, CodesAssumption DEF PermissionsOf

-----------------------------------------------------------------------------
(* Requests that are let in *)

\* The request a handler begins, and what every one of them is.
Asked(by, q) == [by |-> by, todo |-> q, tx |-> Closed]
Sound(r) == GoodRequest(r) /\ r.tx = Closed

Begun(c) ==
  /\ Ready(c) /\ UNCHANGED <<db, boot>>
  /\ \E r : Sound(r) /\ req' = [req EXCEPT ![c] = r]

LEMMA GoodKeys ==
  ASSUME NEW sets, \A s \in sets : GoodSet(s),
         \A s, t \in sets : s.link = t.link /\ s.key = t.key => s.rows = t.rows
  PROVE  GoodStatement(Replacing(sets))
BY DEF GoodStatement, Replacing

LEMMA GoodImport ==
  ASSUME NEW l \in Links, NEW to, NEW keys
  PROVE  GoodStatement(Replacing({SetOf(l, x, to) : x \in keys}))
<1>1. \A x : GoodSet(SetOf(l, x, to)) /\ SetOf(l, x, to).key = x
  BY DEF SetOf, GoodSet
<1> QED BY <1>1, GoodKeys

LEMMA GoodPair ==
  ASSUME NEW l \in Links, NEW k \in Links, l # k, NEW key, NEW to, NEW other,
         NEW sets \in SUBSET {SetOf(l, key, to), SetOf(k, key, other)}
  PROVE  GoodStatement(Replacing(sets))
<1>1. GoodSet(SetOf(l, key, to)) /\ GoodSet(SetOf(k, key, other))
  BY DEF GoodSet, SetOf
<1>2. SetOf(l, key, to).link = l /\ SetOf(k, key, other).link = k
  BY DEF SetOf
<1> QED BY <1>1, <1>2, GoodKeys

LEMMA SoundAsked ==
  ASSUME NEW by, NEW q, GoodTodo(q)
  PROVE  Sound(Asked(by, q))
BY DEF Sound, Asked, GoodRequest, Closed

LEMMA SoundOne ==
  ASSUME NEW by, NEW a, GoodStatement(a)
  PROVE  Sound(Asked(by, <<a>>))
BY GoodSequences, SoundAsked

LEMMA SoundTwo ==
  ASSUME NEW by, NEW a, NEW b, GoodStatement(a), GoodStatement(b)
  PROVE  Sound(Asked(by, <<a, b>>))
BY GoodSequences, SoundAsked

LEMMA SoundOpt ==
  ASSUME NEW by, NEW a, NEW b, NEW p, GoodStatement(a), GoodStatement(b)
  PROVE  Sound(Asked(by, <<a>> \o Opt(p, <<b>>)))
<1>1. GoodTodo(<<a>>) /\ GoodTodo(Opt(p, <<b>>))
  BY GoodSequences
<1>2. GoodTodo(<<a>> \o Opt(p, <<b>>))
  BY <1>1, GoodSequences
<1> QED BY <1>2, SoundAsked

LEMMA UserRequests ==
  ASSUME NEW c \in Clients, NEW by, UserAdmin(c, by)
  PROVE  Begun(c)
<1> USE DEF Begin, Begun
<1>1. CASE createUser(c, by)
  <2>1. PICK u \in UserIds, e \in Emails, roles \in RoleSets :
          /\ Ready(c) /\ UNCHANGED <<db, boot>>
          /\ req' = [req EXCEPT ![c] = Asked(by, <<Insert("user", u, Account(e, FALSE))>>
                                      \o Opt(roles # {}, <<Replacing({SetOf("userRole", u, roles)})>>))]
    BY <1>1 DEF createUser, Asked
  <2>2. GoodStatement(Insert("user", u, Account(e, FALSE))) /\ GoodStatement(Replacing({SetOf("userRole", u, roles)}))
    BY GoodStatements DEF Links, Tables
  <2> QED BY <2>1, <2>2, SoundOpt
<1>2. CASE updateUser(c, by)
  <2>1. PICK u \in DOMAIN db.user, edit \in UserEdits :
          /\ Ready(c) /\ UNCHANGED <<db, boot>>
          /\ req' = [req EXCEPT ![c] = Asked(by, Opt(DOMAIN edit # {"roles"}, <<Update("user", u, edit)>>)
                       \o Opt("roles" \in DOMAIN edit, <<Replacing({SetOf("userRole", u, edit.roles)})>>))]
    BY <1>2 DEF updateUser, Asked
  <2>2. GoodStatement(Update("user", u, edit)) /\ GoodStatement(Replacing({SetOf("userRole", u, edit.roles)}))
    BY GoodStatements DEF Links, Tables
  <2>3. CASE DOMAIN edit # {"roles"}
    <3>1. Opt(DOMAIN edit # {"roles"}, <<Update("user", u, edit)>>) = <<Update("user", u, edit)>>
      BY <2>3 DEF Opt
    <3> QED BY <2>1, <2>2, <3>1, SoundOpt
  <2>4. CASE DOMAIN edit = {"roles"}
    <3>1. /\ Opt(DOMAIN edit # {"roles"}, <<Update("user", u, edit)>>) = <<>>
          /\ Opt("roles" \in DOMAIN edit, <<Replacing({SetOf("userRole", u, edit.roles)})>>)
               = <<Replacing({SetOf("userRole", u, edit.roles)})>>
      BY <2>4 DEF Opt
    <3> QED BY <2>1, <2>2, <3>1, Tuples, SoundOne
  <2> QED BY <2>3, <2>4
<1>3. CASE removeUser(c, by)
  <2>1. PICK u \in DOMAIN db.user \ {by} :
          /\ Ready(c) /\ UNCHANGED <<db, boot>>
          /\ req' = [req EXCEPT ![c] =
                       Asked(by, Opt(u \in activeAdmins(db), <<CountAdmins>>) \o <<Remove("user", u)>>)]
    BY <1>3 DEF removeUser, Asked
  <2>2. GoodStatement(CountAdmins) /\ GoodStatement(Remove("user", u))
    BY GoodStatements DEF Tables
  <2>3. GoodTodo(Opt(u \in activeAdmins(db), <<CountAdmins>>)) /\ GoodTodo(<<Remove("user", u)>>)
    BY <2>2, GoodSequences
  <2>4. GoodTodo(Opt(u \in activeAdmins(db), <<CountAdmins>>) \o <<Remove("user", u)>>)
    BY <2>3, GoodSequences
  <2> QED BY <2>1, <2>4, SoundAsked
<1>4. CASE importUser(c, by)
  <2>1. PICK u \in UserIds, e \in Emails, roles \in RoleSets :
          /\ Ready(c) /\ UNCHANGED <<db, boot>>
          /\ \/ req' = [req EXCEPT ![c] =
                          Asked(by, <<Replacing({SetOf("userRole", x, roles \cap DOMAIN db.role) :
                                                   x \in findByEmail(db, e)})>>)]
             \/ req' = [req EXCEPT ![c] =
                          Asked(by, <<Insert("user", u, Account(e, FALSE))>>
                                    \o Opt(roles \cap DOMAIN db.role # {},
                                           <<Replacing({SetOf("userRole", u, roles \cap DOMAIN db.role)})>>))]
    BY <1>4 DEF importUser, Asked
  <2>2. GoodStatement(Replacing({SetOf("userRole", x, roles \cap DOMAIN db.role) : x \in findByEmail(db, e)}))
    BY GoodImport DEF Links
  <2>3. /\ GoodStatement(Insert("user", u, Account(e, FALSE)))
        /\ GoodStatement(Replacing({SetOf("userRole", u, roles \cap DOMAIN db.role)}))
    BY GoodStatements DEF Links, Tables
  <2> QED BY <2>1, <2>2, <2>3, SoundOne, SoundOpt
<1> QED BY <1>1, <1>2, <1>3, <1>4 DEF UserAdmin

LEMMA RoleRequests ==
  ASSUME NEW c \in Clients, NEW by, RoleAdmin(c, by)
  PROVE  Begun(c)
<1> USE DEF Begin, Begun
<1>1. CASE createRole(c, by)
  <2>1. PICK r \in RoleIds, n \in Names \ {SystemAdmin}, permissions \in PermissionSets :
          /\ Ready(c) /\ UNCHANGED <<db, boot>>
          /\ req' = [req EXCEPT ![c] =
                       Asked(by, <<Insert("role", r, [name |-> n, system |-> FALSE]),
                                   Replacing({SetOf("rolePerm", r, permissions)})>>)]
    BY <1>1 DEF createRole, Asked
  <2>2. /\ GoodStatement(Insert("role", r, [name |-> n, system |-> FALSE]))
        /\ GoodStatement(Replacing({SetOf("rolePerm", r, permissions)}))
    BY GoodStatements DEF Links
  <2> QED BY <2>1, <2>2, SoundTwo
<1>2. CASE setPermissions(c, by)
  <2>1. PICK r \in Editable, permissions \in PermissionSets :
          /\ Ready(c) /\ UNCHANGED <<db, boot>>
          /\ req' = [req EXCEPT ![c] = Asked(by, <<Replacing({SetOf("rolePerm", r, permissions)})>>)]
    BY <1>2 DEF setPermissions, Asked
  <2>2. GoodStatement(Replacing({SetOf("rolePerm", r, permissions)}))
    BY GoodStatements DEF Links
  <2> QED BY <2>1, <2>2, SoundOne
<1>3. CASE setResources(c, by)
  <2>1. PICK r \in Editable, views \in ViewSets, boards \in {{}, DOMAIN db.board} :
          /\ Ready(c) /\ UNCHANGED <<db, boot>>
          /\ req' = [req EXCEPT ![c] =
                       Asked(by, <<Replacing({SetOf("viewGrant", r, views), SetOf("boardGrant", r, boards)})>>)]
    BY <1>3 DEF setResources, Asked
  <2>2. GoodStatement(Replacing({SetOf("viewGrant", r, views), SetOf("boardGrant", r, boards)}))
    BY GoodPair DEF Links
  <2> QED BY <2>1, <2>2, SoundOne
<1>4. CASE updateRole(c, by)
  <2>1. PICK r \in Editable, n \in Names \ {SystemAdmin} :
          /\ Ready(c) /\ UNCHANGED <<db, boot>>
          /\ req' = [req EXCEPT ![c] = Asked(by, <<Update("role", r, [name |-> n])>>)]
    BY <1>4 DEF updateRole, Asked
  <2>2. GoodStatement(Update("role", r, [name |-> n]))
    BY GoodStatements DEF Tables
  <2> QED BY <2>1, <2>2, SoundOne
<1>5. CASE removeRole(c, by)
  <2>1. PICK r \in Editable :
          /\ Ready(c) /\ UNCHANGED <<db, boot>>
          /\ req' = [req EXCEPT ![c] = Asked(by, <<Remove("role", r)>>)]
    BY <1>5 DEF removeRole, Asked
  <2>2. GoodStatement(Remove("role", r))
    BY GoodStatements DEF Tables
  <2> QED BY <2>1, <2>2, SoundOne
<1>6. CASE importRole(c, by)
  <2> DEFINE Again(n, ps) == <<Replacing({SetOf("rolePerm", x, ps) : x \in findByName(db, "role", n)})>>
             Anew(r, n, ps) == <<Insert("role", r, [name |-> n, system |-> FALSE])>>
                               \o Opt(ps # {}, <<Replacing({SetOf("rolePerm", r, ps)})>>)
  <2>1. PICK r \in RoleIds, n \in Names, ps \in PermissionSets :
          IF findByName(db, "role", n) # {}
          THEN Keep /\ Begin(c, by, "admin:roles:manage", Again(n, ps))
          ELSE Take(r) /\ Begin(c, by, "admin:roles:manage", Anew(r, n, ps))
    <3> USE <1>6 DEF importRole
    <3> HIDE DEF Begin
    <3> QED OBVIOUS
  <2>2. /\ Ready(c) /\ UNCHANGED <<db, boot>>
        /\ \/ req' = [req EXCEPT ![c] = Asked(by, Again(n, ps))]
           \/ req' = [req EXCEPT ![c] = Asked(by, Anew(r, n, ps))]
    BY <2>1 DEF Asked
  <2>3. GoodStatement(Replacing({SetOf("rolePerm", x, ps) : x \in findByName(db, "role", n)}))
    BY GoodImport DEF Links
  <2>4. /\ GoodStatement(Insert("role", r, [name |-> n, system |-> FALSE]))
        /\ GoodStatement(Replacing({SetOf("rolePerm", r, ps)}))
    BY GoodStatements DEF Links
  <2>5. Sound(Asked(by, Again(n, ps))) /\ Sound(Asked(by, Anew(r, n, ps)))
    BY <2>3, <2>4, SoundOne, SoundOpt
  <2> QED BY <2>2, <2>5
<1> QED BY <1>1, <1>2, <1>3, <1>4, <1>5, <1>6 DEF RoleAdmin

LEMMA GroupRequests ==
  ASSUME NEW c \in Clients, NEW by, GroupAdmin(c, by)
  PROVE  Begun(c)
<1> USE DEF Begin, Begun
<1>1. CASE createGroup(c, by)
  <2>1. PICK g \in GroupIds, n \in Names, roles \in RoleSets, users \in UserSets :
          /\ Ready(c) /\ UNCHANGED <<db, boot>>
          /\ req' = [req EXCEPT ![c] =
                       Asked(by, <<Insert("group", g, [name |-> n]),
                                   Replacing({SetOf("groupRole", g, roles), SetOf("groupMember", g, users)})>>)]
    BY <1>1 DEF createGroup, Asked
  <2>2. GoodStatement(Insert("group", g, [name |-> n]))
    BY GoodStatements DEF Tables
  <2>3. GoodStatement(Replacing({SetOf("groupRole", g, roles), SetOf("groupMember", g, users)}))
    BY GoodPair DEF Links
  <2> QED BY <2>1, <2>2, <2>3, SoundTwo
<1>2. CASE updateGroup(c, by)
  <2>1. PICK g \in DOMAIN db.group, edit \in GroupEdits :
          /\ Ready(c) /\ UNCHANGED <<db, boot>>
          /\ req' = [req EXCEPT ![c] =
               Asked(by, <<Update("group", g, edit),
                           Replacing({SetOf("groupRole", g, edit.roles) : x \in DOMAIN edit \cap {"roles"}}
                                     \cup {SetOf("groupMember", g, edit.users) : x \in DOMAIN edit \cap {"users"}})>>)]
    BY <1>2 DEF updateGroup, Asked
  <2> DEFINE sets == {SetOf("groupRole", g, edit.roles) : x \in DOMAIN edit \cap {"roles"}}
                     \cup {SetOf("groupMember", g, edit.users) : x \in DOMAIN edit \cap {"users"}}
  <2>2. GoodStatement(Update("group", g, edit))
    BY GoodStatements DEF Tables
  <2>3. sets \in SUBSET {SetOf("groupRole", g, edit.roles), SetOf("groupMember", g, edit.users)}
    OBVIOUS
  <2>4. GoodStatement(Replacing(sets))
    <3> HIDE DEF sets
    <3> QED BY <2>3, GoodPair DEF Links
  <2> QED BY <2>1, <2>2, <2>4, SoundTwo
<1>3. CASE removeGroup(c, by)
  <2>1. PICK g \in DOMAIN db.group :
          /\ Ready(c) /\ UNCHANGED <<db, boot>>
          /\ req' = [req EXCEPT ![c] = Asked(by, <<Remove("group", g)>>)]
    BY <1>3 DEF removeGroup, Asked
  <2>2. GoodStatement(Remove("group", g))
    BY GoodStatements DEF Tables
  <2> QED BY <2>1, <2>2, SoundOne
<1> QED BY <1>1, <1>2, <1>3 DEF GroupAdmin

\* One DELETE, and an INSERT for each of a sequence of roles.
LEMMA GoodRoles ==
  ASSUME NEW edit \in ViewEdits, "roles" \in DOMAIN edit, NEW v
  PROVE  GoodTodo(<<RevokeRoles(v)>> \o [i \in DOMAIN edit.roles |-> Grant("viewGrant", <<edit.roles[i], v>>)])
<1> DEFINE grants == [i \in DOMAIN edit.roles |-> Grant("viewGrant", <<edit.roles[i], v>>)]
           S == {Grant("viewGrant", <<edit.roles[i], v>>) : i \in DOMAIN edit.roles}
<1>1. Len(edit.roles) \in Nat /\ DOMAIN edit.roles = 1..Len(edit.roles)
  BY ViewEditsAssumption
<1>2. grants \in Seq(S)
  <2> DEFINE n == Len(edit.roles)
  <2>1. n \in Nat /\ grants \in [1..n -> S]
    BY <1>1
  <2> HIDE DEF n, S, grants
  <2> QED BY <2>1, SeqDef
<1>3. \A s \in S : GoodStatement(s)
  BY GoodStatements DEF Links
<1>4. GoodTodo(grants)
  <2> HIDE DEF grants, S
  <2> QED BY <1>2, <1>3 DEF GoodTodo
<1>5. GoodTodo(<<RevokeRoles(v)>>)
  BY GoodStatements, GoodSequences
<1> HIDE DEF grants
<1>6. GoodTodo(<<RevokeRoles(v)>> \o grants)
  BY <1>4, <1>5, GoodSequences
<1> QED BY <1>6 DEF grants

LEMMA SharingRequests ==
  ASSUME NEW c \in Clients, NEW by, Sharing(c, by)
  PROVE  Begun(c)
<1>1. ASSUME NEW p, NEW q, GoodTodo(q), Begin(c, by, p, q)
      PROVE  Begun(c)
  <2>1. Sound(Asked(by, q))
    BY <1>1, SoundAsked
  <2> QED BY <1>1, <2>1 DEF Begin, Begun, Asked
<1> USE DEF Links, Tables
<1>2. CASE createBoard(c, by)
  <2>1. PICK b \in BoardIds :
          Begin(c, by, ManageBoards, <<Insert("board", b, [owner |-> Nobody, active |-> TRUE])>>)
    BY <1>2 DEF createBoard
  <2>2. GoodStatement(Insert("board", b, [owner |-> Nobody, active |-> TRUE]))
    BY GoodStatements
  <2> QED BY <1>1, <2>1, <2>2, GoodSequences
<1>3. CASE createMine(c, by)
  <2>1. PICK b \in BoardIds : Begin(c, by, "dashboard:create",
           <<Insert("board", b, [owner |-> by, active |-> TRUE]), Grant("boardGrant", <<by, b>>)>>)
    BY <1>3 DEF createMine
  <2>2. /\ GoodStatement(Insert("board", b, [owner |-> by, active |-> TRUE]))
        /\ GoodStatement(Grant("boardGrant", <<by, b>>))
    BY GoodStatements
  <2> QED BY <1>1, <2>1, <2>2, GoodSequences
<1>4. CASE deleteMine(c, by)
  <2>1. PICK b \in DOMAIN db.board : Begin(c, by, "dashboard:create", <<Remove("board", b)>>)
    BY <1>4 DEF deleteMine
  <2>2. GoodStatement(Remove("board", b))
    BY GoodStatements
  <2> QED BY <1>1, <2>1, <2>2, GoodSequences
<1>5. CASE shareMine(c, by)
  <2>1. PICK b \in DOMAIN db.board, s \in Subjects(db) :
          Begin(c, by, "dashboard:create", <<Grant("boardGrant", <<s, b>>)>>)
    BY <1>5 DEF shareMine
  <2>2. GoodStatement(Grant("boardGrant", <<s, b>>))
    BY GoodStatements
  <2> QED BY <1>1, <2>1, <2>2, GoodSequences
<1>6. CASE grantAccess(c, by)
  <2>1. PICK v \in Views, s \in Subjects(db) : Begin(c, by, ManageReports, <<Grant("viewGrant", <<s, v>>)>>)
    BY <1>6 DEF grantAccess
  <2>2. GoodStatement(Grant("viewGrant", <<s, v>>))
    BY GoodStatements
  <2> QED BY <1>1, <2>1, <2>2, GoodSequences
<1>7. CASE revokeAccess(c, by)
  <2>1. PICK p \in db.viewGrant : Begin(c, by, ManageReports, <<Revoke("viewGrant", p)>>)
    BY <1>7 DEF revokeAccess
  <2>2. GoodStatement(Revoke("viewGrant", p))
    BY GoodStatements
  <2> QED BY <1>1, <2>1, <2>2, GoodSequences
<1>8. CASE updateBoard(c, by)
  <2>1. PICK b \in DOMAIN db.board, active \in BOOLEAN :
          Begin(c, by, ManageBoards, <<Update("board", b, [active |-> active])>>)
    BY <1>8 DEF updateBoard
  <2>2. GoodStatement(Update("board", b, [active |-> active]))
    BY GoodStatements
  <2> QED BY <1>1, <2>1, <2>2, GoodSequences
<1>9. CASE updateView(c, by)
  <2> DEFINE Roles(v, edit) == <<RevokeRoles(v)>>
                               \o [i \in DOMAIN edit.roles |-> Grant("viewGrant", <<edit.roles[i], v>>)]
  <2>1. PICK v \in Views, edit \in ViewEdits :
          Begin(c, by, ManageReports,
                <<Update("view", v, edit)>> \o Opt("roles" \in DOMAIN edit, Roles(v, edit)))
    BY <1>9 DEF updateView
  <2>2. GoodTodo(<<Update("view", v, edit)>>)
    BY GoodStatements, GoodSequences
  <2>3. "roles" \in DOMAIN edit => GoodTodo(Roles(v, edit))
    BY GoodRoles
  <2> HIDE DEF Roles
  <2>4. GoodTodo(Opt("roles" \in DOMAIN edit, Roles(v, edit)))
    BY <2>3, GoodSequences DEF Opt
  <2>5. GoodTodo(<<Update("view", v, edit)>> \o Opt("roles" \in DOMAIN edit, Roles(v, edit)))
    BY <2>2, <2>4, GoodSequences
  <2> QED BY <1>1, <2>1, <2>5
<1> QED BY <1>2, <1>3, <1>4, <1>5, <1>6, <1>7, <1>8, <1>9 DEF Sharing

LEMMA IdleSound == Sound(Idle) /\ Idle.todo = <<>>
<1>1. Idle.todo = <<>> /\ Idle.tx = Closed
  BY DEF Idle
<1>2. GoodRequest(Idle)
  BY <1>1, GoodSequences DEF GoodRequest, Idle, Closed
<1> QED BY <1>1, <1>2 DEF Sound

LEMMA Callbacks ==
  ASSUME NEW c \in Clients, handleCallback(c)
  PROVE  Begun(c) \/ UNCHANGED <<db, req, boot>>
<1>1. PICK u \in UserIds, e \in Emails :
        /\ Ready(c) /\ UNCHANGED <<db, boot>>
        /\ \/ req' = [req EXCEPT ![c] = [Idle EXCEPT !.todo = <<Provision(u, Account(e, TRUE)), Issue(u)>>]]
           \/ UNCHANGED req
  BY DEF handleCallback
<1> DEFINE q == <<Provision(u, Account(e, TRUE)), Issue(u)>>
           r == [Idle EXCEPT !.todo = q]
<1>2. GoodTodo(q)
  BY GoodStatements, GoodSequences
<1> HIDE DEF q
<1>3. r.todo = q /\ r.tx = Closed /\ DOMAIN r = {"by", "todo", "tx"}
  BY DEF Idle
<1>4. Sound(r)
  BY <1>2, <1>3 DEF Sound, GoodRequest, Closed
<1> QED BY <1>1, <1>4 DEF Begun, q

\* Every step is one of these.
LEMMA StepKinds ==
  ASSUME [Next]_vars
  PROVE  \/ onApplicationBootstrap \/ restart \/ UNCHANGED <<db, req, boot>>
         \/ \E c \in Clients : \/ Begun(c) \/ Statement(c) \/ IssueToken(c)
                               \/ DeleteOld(c) \/ InsertNew(c)
<1>1. CASE UNCHANGED vars
  BY <1>1 DEF vars
<1>2. ASSUME NEW u \in UserIds, login(u) \/ refresh(u)
      PROVE  UNCHANGED <<db, req, boot>>
  BY <1>2 DEF login, refresh
<1>3. ASSUME NEW c \in Clients, NEW by \in UserIds,
             UserAdmin(c, by) \/ RoleAdmin(c, by) \/ GroupAdmin(c, by) \/ Sharing(c, by)
      PROVE  Begun(c)
  BY <1>3, UserRequests, RoleRequests, GroupRequests, SharingRequests
<1> QED BY <1>1, <1>2, <1>3, Callbacks DEF Next

-----------------------------------------------------------------------------
(* Commits *)

LEMMA Advances ==
  ASSUME NEW c, GoodRequest(req[c]), Running(c)
  PROVE  /\ GoodRequest(Advance(c)) /\ Advance(c).tx = Closed
         /\ Advance(c).todo = Tail(req[c].todo)
<1>1. GoodTodo(req[c].todo) /\ req[c].todo # <<>>
  BY DEF GoodRequest, Running
<1>2. CASE Len(req[c].todo) = 1
  BY <1>1, <1>2, Heads, IdleSound DEF Advance, Sound
<1>3. CASE Len(req[c].todo) # 1
  <2>1. /\ Advance(c).todo = Tail(req[c].todo) /\ Advance(c).tx = Closed
        /\ DOMAIN Advance(c) = {"by", "todo", "tx"}
    BY <1>3 DEF Advance, GoodRequest
  <2> QED BY <1>1, <2>1, Heads DEF GoodRequest, Closed
<1> QED BY <1>2, <1>3

\* What a commit leaves the other requests with.
Noticed(c, o, added) ==
  IF ~req[o].tx.open THEN req[o]
  ELSE [req[o] EXCEPT !.tx.waits = @ \ {c},
                      !.tx.others = [t \in Links |-> @[t] \cup added[t]]]

LEMMA Notices ==
  ASSUME NEW c, NEW o, NEW added, GoodRequest(req[o])
  PROVE  LET r == Noticed(c, o, added)
         IN /\ GoodRequest(r)
            /\ r.todo = req[o].todo
            /\ r.tx.open = req[o].tx.open /\ r.tx.seen = req[o].tx.seen
            /\ req[o].tx.open =>
                 \A t \in Links : r.tx.others[t] = req[o].tx.others[t] \cup added[t]
BY DEF Noticed, GoodRequest

LEMMA Aborts ==
  ASSUME NEW c, NEW o, GoodRequest(req[o])
  PROVE  LET r == [req[o] EXCEPT !.tx.waits = @ \ {c}]
         IN /\ GoodRequest(r)
            /\ r.todo = req[o].todo
            /\ r.tx.open = req[o].tx.open /\ r.tx.seen = req[o].tx.seen
            /\ r.tx.others = req[o].tx.others
BY DEF GoodRequest

Runs(c) == Statement(c) \/ IssueToken(c) \/ InsertNew(c)

\* A statement, a token and a replacement end in an abort or in a commit that
\* the others notice.
LEMMA Outcomes ==
  ASSUME NEW c \in Clients, Runs(c), Columns(db)
  PROVE  /\ Running(c) /\ boot' = boot
         /\ \/ /\ req' = [o \in Clients |-> IF o = c THEN Idle ELSE [req[o] EXCEPT !.tx.waits = @ \ {c}]]
               /\ db' = db
            \/ \E added : /\ req' = [o \in Clients |-> IF o = c THEN Advance(c) ELSE Noticed(c, o, added)]
                          /\ \A t \in Links : db'[t] \ db[t] \subseteq added[t]
<1>1. CASE Statement(c)
  <2>1. CASE Fails(db, Now(c))
    BY <1>1, <2>1 DEF Statement, Abort
  <2>2. CASE ~Fails(db, Now(c))
    <3> DEFINE d == Effect(db, Now(c))
    <3>1. /\ Running(c) /\ boot' = boot /\ db' = d
          /\ req' = [o \in Clients |-> IF o = c THEN Advance(c) ELSE Noticed(c, o, Added(d))]
      BY <1>1, <2>2 DEF Statement, Commit, Noticed
    <3> HIDE DEF d
    <3>2. \A t \in Links : db'[t] \ db[t] \subseteq Added(d)[t]
      BY <3>1 DEF Added
    <3> QED BY <3>1, <3>2
  <2> QED BY <2>1, <2>2
<1>2. CASE IssueToken(c)
  <2>1. /\ Running(c) /\ boot' = boot /\ db' = db
        /\ req' = [o \in Clients |-> IF o = c THEN Advance(c) ELSE Noticed(c, o, Nothing)]
    BY <1>2 DEF IssueToken, Commit, Noticed
  <2>2. \A t \in Links : db'[t] \ db[t] \subseteq Nothing[t]
    BY <2>1
  <2> QED BY <2>1, <2>2
<1>3. CASE InsertNew(c)
  <2>1. CASE \A t \in Links : New(c)[t] \subseteq References(db, t)
    <3>1. /\ Running(c) /\ boot' = boot /\ db' = Replaced(c)
          /\ req' = [o \in Clients |-> IF o = c THEN Advance(c) ELSE Noticed(c, o, New(c))]
      BY <1>3, <2>1 DEF InsertNew, Commit, Noticed
    <3>2. \A t \in Links : Replaced(c)[t] \ db[t] \subseteq New(c)[t]
      BY DEF Replaced, Columns
    <3> QED BY <3>1, <3>2
  <2>2. CASE ~(\A t \in Links : New(c)[t] \subseteq References(db, t))
    BY <1>3, <2>2 DEF InsertNew, Abort
  <2> QED BY <2>1, <2>2
<1> QED BY <1>1, <1>2, <1>3 DEF Runs

\* What such a step leaves of the other requests, and of its own.
Spared(o, r) ==
  /\ GoodRequest(r) /\ r.todo = req[o].todo
  /\ r.tx.open = req[o].tx.open /\ r.tx.seen = req[o].tx.seen

LEMMA OthersSpared ==
  ASSUME NEW c \in Clients, Runs(c), TypeOK
  PROVE  /\ DOMAIN req' = Clients /\ boot' = boot
         /\ \A o \in Clients \ {c} :
              /\ Spared(o, req'[o])
              /\ req[o].tx.open =>
                   \A t \in Links :
                     req[o].tx.others[t] \cup (db'[t] \ db[t]) \subseteq req'[o].tx.others[t]
         /\ Running(c)
         /\ \/ req'[c] = Advance(c)
            \/ req'[c] = Idle /\ db' = db
<1>1. CASE /\ req' = [o \in Clients |-> IF o = c THEN Idle ELSE [req[o] EXCEPT !.tx.waits = @ \ {c}]]
           /\ db' = db
  <2>1. \A o \in Clients \ {c} : Spared(o, req'[o]) /\ req'[o].tx.others = req[o].tx.others
    <3> TAKE o \in Clients \ {c}
    <3> DEFINE r == [req[o] EXCEPT !.tx.waits = @ \ {c}]
    <3>1. req'[o] = r /\ GoodRequest(req[o])
      BY <1>1 DEF TypeOK
    <3>2. /\ GoodRequest(r) /\ r.todo = req[o].todo
          /\ r.tx.open = req[o].tx.open /\ r.tx.seen = req[o].tx.seen
          /\ r.tx.others = req[o].tx.others
      BY <3>1, Aborts
    <3> HIDE DEF r
    <3> QED BY <3>1, <3>2 DEF Spared
  <2> QED BY <1>1, <2>1, Outcomes DEF TypeOK
<1>2. ASSUME NEW added,
             req' = [o \in Clients |-> IF o = c THEN Advance(c) ELSE Noticed(c, o, added)],
             \A t \in Links : db'[t] \ db[t] \subseteq added[t]
      PROVE  /\ DOMAIN req' = Clients
             /\ \A o \in Clients \ {c} :
                  /\ Spared(o, req'[o])
                  /\ req[o].tx.open =>
                       \A t \in Links :
                         req[o].tx.others[t] \cup (db'[t] \ db[t]) \subseteq req'[o].tx.others[t]
             /\ req'[c] = Advance(c)
  <2>1. DOMAIN req' = Clients /\ req'[c] = Advance(c)
    BY <1>2
  <2>2. \A o \in Clients \ {c} :
          /\ Spared(o, req'[o])
          /\ req[o].tx.open => \A t \in Links : req'[o].tx.others[t] = req[o].tx.others[t] \cup added[t]
    BY <1>2, Notices DEF TypeOK, Spared
  <2> QED BY <1>2, <2>1, <2>2
<1> QED BY <1>1, <1>2, Outcomes DEF TypeOK

-----------------------------------------------------------------------------
(* The invariant *)

LEMMA KeptStage ==
  ASSUME NEW d
  PROVE  Stage(1, d, KeptAdmins(d))
BY DEF Stage, Restored, KeptAdmins, Keeps

LEMMA InitInv == Init => Inv
<1> SUFFICES ASSUME Init PROVE Inv
  OBVIOUS
<1>1. Columns(db) /\ UniqueNames(db)
  BY AtFirstAssumption DEF Init
<1>2. /\ DOMAIN req = Clients /\ \A c \in Clients : req[c] = Idle
      /\ boot = [at |-> 1, failed |-> {}, kept |-> KeptAdmins(db)]
  BY DEF Init
<1>3. \A c \in Clients : GoodRequest(req[c]) /\ ~req[c].tx.open
  BY <1>2, IdleSound DEF Sound, Closed
<1>4. TypeOK
  BY <1>1, <1>2, <1>3 DEF TypeOK
<1>5. StartKeeps /\ StartAsserts
  BY <1>2, KeptStage DEF StartKeeps, StartAsserts, Restored
<1> QED BY <1>1, <1>2, <1>3, <1>4, <1>5 DEF Inv, QuietStart, TxCovers

\* A step of a start, and what it leaves alone.
LEMMA BootSteps ==
  ASSUME TypeOK, UniqueNames(db), onApplicationBootstrap
  PROVE  /\ boot.at \in Steps /\ req' = req
         /\ DOMAIN boot' = {"at", "failed", "kept"}
         /\ IF boot.at = 7 THEN boot'.at = 0 ELSE boot'.at = boot.at + 1 /\ boot'.kept = boot.kept
         /\ \/ db' = Step(boot.at, db) /\ boot'.failed = boot.failed
            \/ db' = db /\ boot'.failed = boot.failed \cup {boot.at}
         /\ Columns(db') /\ UniqueNames(db')
<1>1. /\ boot.at \in Steps /\ req' = req
      /\ \/ db' = Step(boot.at, db) /\ boot' = NextStep(boot.failed)
         \/ boot' = NextStep(boot.failed \cup {boot.at}) /\ db' = db
  BY DEF onApplicationBootstrap
<1>2. \A f : /\ DOMAIN NextStep(f) = {"at", "failed", "kept"} /\ NextStep(f).failed = f
             /\ IF boot.at = 7 THEN NextStep(f).at = 0
                ELSE NextStep(f).at = boot.at + 1 /\ NextStep(f).kept = boot.kept
  BY DEF NextStep, Started, TypeOK
<1>3. Columns(db') /\ UniqueNames(db')
  BY <1>1, StartKeepsNames DEF TypeOK
<1>4. CASE db' = Step(boot.at, db) /\ boot' = NextStep(boot.failed)
  BY <1>1, <1>2, <1>3, <1>4
<1>5. CASE boot' = NextStep(boot.failed \cup {boot.at}) /\ db' = db
  BY <1>1, <1>2, <1>3, <1>5
<1> QED BY <1>1, <1>4, <1>5

LEMMA TypeStep ==
  ASSUME TypeOK, UniqueNames(db), [Next]_vars
  PROVE  TypeOK' /\ UniqueNames(db)'
<1>1. CASE onApplicationBootstrap
  BY <1>1, BootSteps DEF TypeOK, Steps
<1>2. CASE restart
  <2>1. /\ db' = db /\ req' = [c \in Clients |-> Idle]
        /\ boot' = [at |-> 1, failed |-> {}, kept |-> KeptAdmins(db)]
    BY <1>2 DEF restart
  <2> QED BY <2>1, IdleSound DEF TypeOK, Sound
<1>3. CASE UNCHANGED <<db, req, boot>>
  BY <1>3 DEF TypeOK
<1>4. ASSUME NEW c \in Clients, Begun(c)
      PROVE  TypeOK' /\ UniqueNames(db)'
  BY <1>4 DEF Begun, TypeOK, Sound
<1>5. ASSUME NEW c \in Clients, Runs(c)
      PROVE  TypeOK' /\ UniqueNames(db)'
  <2>1. Columns(db') /\ UniqueNames(db')
    <3>1. CASE Statement(c)
      <4>1. GoodStatement(Now(c))
        <5>1. GoodRequest(req[c]) /\ req[c].todo # <<>>
          BY <3>1 DEF TypeOK, Statement, Running
        <5> QED BY <5>1, Heads DEF GoodRequest, Now
      <4>2. \/ db' = db
            \/ db' = Effect(db, Now(c)) /\ ~Fails(db, Now(c))
        BY <3>1 DEF Statement, Abort, Commit
      <4> QED BY <4>1, <4>2, EffectKeepsNames DEF TypeOK
    <3>2. CASE IssueToken(c)
      <4>1. db' = db
        BY <3>2 DEF IssueToken, Commit
      <4> QED BY <4>1 DEF TypeOK
    <3>3. CASE InsertNew(c)
      <4>1. db' = db \/ db' = Replaced(c)
        BY <3>3 DEF InsertNew, Abort, Commit
      <4> QED BY <4>1, ReplacedKeepsNames DEF TypeOK
    <3> QED BY <1>5, <3>1, <3>2, <3>3 DEF Runs
  <2>2. \A o \in Clients : GoodRequest(req'[o])
    BY <1>5, OthersSpared, Advances, IdleSound DEF TypeOK, Spared, Sound
  <2> QED BY <1>5, <2>1, <2>2, OthersSpared DEF TypeOK
<1>6. ASSUME NEW c \in Clients, DeleteOld(c)
      PROVE  TypeOK' /\ UniqueNames(db)'
  <2>1. /\ db' = db /\ boot' = boot /\ DOMAIN req' = Clients
        /\ \A o \in Clients \ {c} : req'[o] = req[o]
        /\ DOMAIN req'[c] = DOMAIN req[c] /\ req'[c].todo = req[c].todo
        /\ DOMAIN req'[c].tx = {"open", "seen", "waits", "others"}
    BY <1>6 DEF DeleteOld, TypeOK, GoodRequest
  <2> QED BY <2>1 DEF TypeOK, GoodRequest
<1> QED BY <1>1, <1>2, <1>3, <1>4, <1>5, <1>6, StepKinds DEF Runs

LEMMA QuietStep ==
  ASSUME TypeOK, UniqueNames(db), QuietStart, [Next]_vars
  PROVE  QuietStart'
<1>1. CASE onApplicationBootstrap
  BY <1>1, BootSteps DEF QuietStart, Steps
<1>2. CASE restart
  BY <1>2 DEF restart, QuietStart
<1>3. CASE UNCHANGED <<db, req, boot>>
  BY <1>3 DEF QuietStart
<1>4. ASSUME NEW c \in Clients, Begun(c)
      PROVE  QuietStart'
  BY <1>4 DEF Begun, Ready, QuietStart
<1>5. ASSUME NEW c \in Clients, Running(c), boot' = boot
      PROVE  QuietStart'
  BY <1>5, IdleSound DEF QuietStart, Running
<1>6. ASSUME NEW c \in Clients, Runs(c)
      PROVE  QuietStart'
  BY <1>5, <1>6, OthersSpared
<1>7. ASSUME NEW c \in Clients, DeleteOld(c)
      PROVE  QuietStart'
  BY <1>5, <1>7 DEF DeleteOld
<1> QED BY <1>1, <1>2, <1>3, <1>4, <1>6, <1>7, StepKinds DEF Runs

\* What TxCovers says of one request.
Covers(d, r) ==
  r.tx.open =>
    /\ r.todo # <<>> /\ Head(r.todo).do = "replace"
    /\ \A s \in Head(r.todo).sets : InSet(d, s) \subseteq r.tx.seen[s.link] \cup r.tx.others[s.link]

LEMMA CoversAll == TxCovers <=> \A c \in Clients : Covers(db, req[c])
BY DEF TxCovers, Covers, Running, Now

LEMMA TxStep ==
  ASSUME TypeOK, TypeOK', UniqueNames(db), QuietStart, TxCovers, [Next]_vars
  PROVE  TxCovers'
<1> SUFFICES \A c \in Clients : Covers(db', req'[c])
  BY DEF TxCovers, Covers, Running, Now, InSet
<1>0. \A c \in Clients : Covers(db, req[c])
  BY CoversAll
<1>1. \A d, r : r.tx = Closed => Covers(d, r)
  BY DEF Covers, Closed
<1>2. Idle.tx = Closed
  BY IdleSound DEF Sound
<1>3. CASE onApplicationBootstrap
  BY <1>1, <1>2, <1>3, BootSteps DEF QuietStart, Steps
<1>4. CASE restart
  BY <1>1, <1>2, <1>4 DEF restart
<1>5. CASE UNCHANGED <<db, req, boot>>
  BY <1>0, <1>5
<1>6. ASSUME NEW c \in Clients, Begun(c)
      PROVE  \A o \in Clients : Covers(db', req'[o])
  <2>1. PICK r : r.tx = Closed /\ req' = [req EXCEPT ![c] = r] /\ db' = db
    BY <1>6 DEF Begun, Sound
  <2> QED BY <1>0, <1>1, <2>1 DEF TypeOK
<1>7. ASSUME NEW c \in Clients, Runs(c)
      PROVE  \A o \in Clients : Covers(db', req'[o])
  <2>1. req'[c].tx = Closed
    BY <1>2, <1>7, OthersSpared, Advances DEF TypeOK
  <2>2. ASSUME NEW o \in Clients \ {c}, req'[o].tx.open
        PROVE  Covers(db', req'[o])
    <3>1. /\ req[o].tx.open /\ req'[o].todo = req[o].todo /\ req'[o].tx.seen = req[o].tx.seen
          /\ \A t \in Links : req[o].tx.others[t] \cup (db'[t] \ db[t]) \subseteq req'[o].tx.others[t]
      BY <1>7, <2>2, OthersSpared DEF Spared
    <3>2. /\ req[o].todo # <<>> /\ Head(req[o].todo).do = "replace"
          /\ \A s \in Head(req[o].todo).sets :
               InSet(db, s) \subseteq req[o].tx.seen[s.link] \cup req[o].tx.others[s.link]
      BY <1>0, <3>1 DEF Covers
    <3>3. GoodStatement(Head(req[o].todo))
      BY <3>2, Heads DEF TypeOK, GoodRequest
    <3>4. \A s \in Head(req[o].todo).sets : s.link \in Links
      BY <3>2, <3>3 DEF GoodStatement, GoodSet
    <3>5. \A s \in Head(req[o].todo).sets :
            InSet(db', s) \subseteq req'[o].tx.seen[s.link] \cup req'[o].tx.others[s.link]
      BY <3>1, <3>2, <3>4 DEF InSet
    <3> QED BY <3>1, <3>2, <3>5 DEF Covers
  <2> QED BY <1>1, <2>1, <2>2 DEF Covers
<1>8. ASSUME NEW c \in Clients, DeleteOld(c)
      PROVE  \A o \in Clients : Covers(db', req'[o])
  <2>1. /\ db' = db /\ \A o \in Clients \ {c} : req'[o] = req[o]
        /\ req'[c].todo = req[c].todo /\ req[c].todo # <<>> /\ Head(req[c].todo).do = "replace"
        /\ req'[c].tx.seen = [t \in Links |-> Old(c, t)]
    BY <1>8 DEF DeleteOld, TypeOK, GoodRequest, Running, Now
  <2>2. GoodStatement(Head(req[c].todo))
    BY <2>1, Heads DEF TypeOK, GoodRequest
  <2>3. \A s \in Head(req[c].todo).sets : s.link \in Links /\ InSet(db, s) \subseteq Old(c, s.link)
    BY <2>1, <2>2 DEF GoodStatement, GoodSet, Old, SetsIn, Now
  <2>4. Covers(db', req'[c])
    BY <2>1, <2>3 DEF Covers
  <2> QED BY <1>0, <2>1, <2>4
<1> QED BY <1>3, <1>4, <1>5, <1>6, <1>7, <1>8, StepKinds DEF Runs

LEMMA StartStep ==
  ASSUME TypeOK, UniqueNames(db), QuietStart, StartKeeps, StartAsserts, [Next]_vars
  PROVE  StartKeeps' /\ StartAsserts'
<1>1. CASE onApplicationBootstrap
  <2>1. ASSUME boot'.at # 0
        PROVE  /\ boot.at \in 1..6 /\ boot'.at = boot.at + 1 /\ boot'.kept = boot.kept
               /\ \/ db' = Step(boot.at, db) /\ boot'.failed = boot.failed
                  \/ db' = db /\ boot'.failed = boot.failed \cup {boot.at}
    BY <1>1, <2>1, BootSteps DEF Steps
  <2>2. ASSUME boot'.at # 0
        PROVE  Restored(boot'.at, db', boot'.failed)
    <3>1. boot.at \in Steps /\ Restored(boot.at, db, boot.failed) /\ Columns(db)
      BY <2>1, <2>2 DEF StartAsserts, TypeOK, Steps
    <3> QED BY <2>1, <2>2, <3>1, RestoredPasses, FailurePasses
  <2>3. ASSUME boot'.at # 0, boot'.failed = {}
        PROVE  Stage(boot'.at, db', boot'.kept)
    <3>1. boot.failed = {} /\ db' = Step(boot.at, db)
      BY <2>1, <2>3
    <3>2. Stage(boot.at, db, boot.kept)
      BY <2>1, <2>3, <3>1 DEF StartKeeps
    <3> QED BY <2>1, <2>3, <3>1, <3>2, StagePasses DEF TypeOK
  <2> QED BY <2>2, <2>3 DEF StartKeeps, StartAsserts, Stage, Restored
<1>2. CASE restart
  <2>1. db' = db /\ boot' = [at |-> 1, failed |-> {}, kept |-> KeptAdmins(db)]
    BY <1>2 DEF restart
  <2> QED BY <2>1, KeptStage DEF StartKeeps, StartAsserts, Restored
<1>3. CASE db' = db /\ boot' = boot
  BY <1>3 DEF StartKeeps, StartAsserts
<1>4. ASSUME NEW c \in Clients, Begun(c) \/ DeleteOld(c)
      PROVE  db' = db /\ boot' = boot
  BY <1>4 DEF Begun, DeleteOld
<1>5. ASSUME NEW c \in Clients, Runs(c)
      PROVE  boot.at = 0 /\ boot' = boot
  BY <1>5, OthersSpared, IdleSound DEF QuietStart, Running
<1>6. ASSUME boot.at = 0, boot' = boot
      PROVE  StartKeeps' /\ StartAsserts'
  BY <1>6 DEF StartKeeps, StartAsserts
<1> QED BY <1>1, <1>2, <1>3, <1>4, <1>5, <1>6, StepKinds DEF Runs

LEMMA InvStep == Inv /\ [Next]_vars => Inv'
<1> SUFFICES ASSUME Inv, [Next]_vars PROVE Inv'
  OBVIOUS
<1>1. TypeOK' /\ UniqueNames(db)'
  BY TypeStep DEF Inv
<1>2. QuietStart'
  BY QuietStep DEF Inv
<1>3. TxCovers'
  BY <1>1, TxStep DEF Inv
<1>4. StartKeeps' /\ StartAsserts'
  BY StartStep DEF Inv
<1> QED BY <1>1, <1>2, <1>3, <1>4 DEF Inv

-----------------------------------------------------------------------------
(* What follows *)

\* The invariant holds however many requests interleave: in particular no two
\* roles ever have the same name (RolesService.create, update and importRoles,
\* the System Admin role of a start).
THEOREM AccessInvariant == Spec => []Inv
<1>1. Init => Inv
  BY InitInv
<1>2. Inv /\ [Next]_vars => Inv'
  BY InvStep
<1> QED BY <1>1, <1>2, PTL DEF Spec

LEMMA NamesShow ==
  ASSUME UniqueNames(db)
  PROVE  SeesWhatIsGranted
<1>1. \A u \in DOMAIN db.user, r \in DOMAIN db.role :
        db.role[r].name \in RoleNames(db, u) <=> r \in EffectiveRoles(db, u)
  BY DEF UniqueNames, RoleNames, EffectiveRoles
<1>2. \A u \in DOMAIN db.user, p \in {ManageBoards, ManageReports} :
        adminBypass(db, RoleNames(db, u), p) <=> p \in PermissionsOf(db, u)
  BY <1>1, CodesAssumption DEF adminBypass, PermissionsOf, EffectiveRoles
<1>3. ASSUME NEW u \in DOMAIN db.user, NEW grants, NEW x
      PROVE  (\E s \in {u} \cup EffectiveRoles(db, u) : <<s, x>> \in grants)
               <=> \/ <<u, x>> \in grants
                   \/ \E r \in DOMAIN db.role : /\ <<r, x>> \in grants
                                                /\ db.role[r].name \in RoleNames(db, u)
  BY <1>1 DEF EffectiveRoles
<1>4. ASSUME NEW u \in DOMAIN db.user, NEW v \in Views
      PROVE  v \in accessibleViews(db, u, RoleNames(db, u))
               <=> db.view[v].active /\ MaySee(db, u, db.viewGrant, v, ManageReports)
  BY <1>2, <1>3 DEF accessibleViews, MaySee
<1>5. ASSUME NEW u \in DOMAIN db.user, NEW b \in DOMAIN db.board
      PROVE  b \in accessibleBoards(db, u, RoleNames(db, u))
               <=> /\ db.board[b].active
                   /\ db.board[b].owner = u \/ MaySee(db, u, db.boardGrant, b, ManageBoards)
  BY <1>2, <1>3 DEF accessibleBoards, MaySee
<1> QED BY <1>4, <1>5 DEF SeesWhatIsGranted

\* Whoever's token carries his roles' names is shown the active views and
\* dashboards that are granted to him, to his roles or to his groups' roles, his
\* own dashboards, and nothing else
\* (reports.repository.ts and dashboard.repository.ts, listAccessible).
THEOREM ShownWhatIsGranted == Spec => []SeesWhatIsGranted
<1>1. Inv => SeesWhatIsGranted
  BY NamesShow DEF Inv
<1> QED BY <1>1, AccessInvariant, PTL

LEMMA StartsKeep ==
  ASSUME Inv, [Next]_vars, boot.at = 7, boot.failed = {}, boot'.at = 0, NEW u \in boot.kept
  PROVE  ManageUsers \in PermissionsOf(db', u)
<1>1. u \in DOMAIN db.user /\ KeepsSafely(db, u)
  BY DEF Inv, StartKeeps, Stage
<1>2. CASE onApplicationBootstrap
  <2>1. db' = db \/ db' = RemoveLegacy(db)
    BY <1>2, BootSteps DEF Inv, Step
  <2> QED BY <1>1, <2>1, SafelyManages, RemovalKeeps DEF Inv, TypeOK
<1>3. CASE restart
  BY <1>3 DEF restart
<1>4. ASSUME NEW c \in Clients, Begun(c) \/ DeleteOld(c) \/ Runs(c)
      PROVE  boot' = boot
  BY <1>4, OthersSpared DEF Begun, DeleteOld, Inv
<1> QED BY <1>2, <1>3, <1>4, StepKinds DEF Runs

\* A start none of whose steps failed keeps every administrator
\* (schema-bootstrap.service.ts).
THEOREM AdministratorsKept == Spec => BootKeepsAdmins
<1>1. Inv /\ [Next]_vars => (boot.at = 7 /\ boot.failed = {} /\ boot'.at = 0 =>
                               \A u \in boot.kept : ManageUsers \in PermissionsOf(db', u))
  BY StartsKeep
<1> QED BY <1>1, AccessInvariant, PTL DEF Spec, BootKeepsAdmins

LEMMA StartsRestore ==
  ASSUME Inv, [Next]_vars, boot.at = 7, boot'.at = 0
  PROVE  /\ boot'.failed \cap {1, 2, 4} = {} =>
              \A g \in AdminGroups(db'), u \in DOMAIN db'.user :
                <<g, u>> \in db'.groupMember => Permissions \subseteq PermissionsOf(db', u)
         /\ boot'.failed \cap {3, 6} = {} =>
              \/ \E g \in AdminGroups(db'), u \in DOMAIN db'.user : <<g, u>> \in db'.groupMember
              \/ findByEmail(db', DefaultEmail) = {}
<1> USE DEF Inv
<1>1. CASE onApplicationBootstrap
  <2>1. \/ db' = Step(7, db) /\ boot'.failed = boot.failed
        \/ db' = db /\ boot'.failed = boot.failed \cup {7}
    BY <1>1, BootSteps
  <2>2. Restored(7, db, boot.failed) /\ Columns(db) /\ 7 \in Steps
    BY DEF StartAsserts, TypeOK, Steps
  <2>3. Restored(7 + 1, db', boot'.failed)
    BY <2>1, <2>2, RestoredPasses, FailurePasses
  <2>4. ASSUME boot'.failed \cap {1, 2, 4} = {},
               NEW g \in AdminGroups(db'), NEW u \in DOMAIN db'.user, <<g, u>> \in db'.groupMember
        PROVE  Permissions \subseteq PermissionsOf(db', u)
    <3>1. PICK r : r \in SystemAdminRole(db')
      BY <2>3, <2>4 DEF Restored
    <3>2. /\ <<g, r>> \in db'.groupRole /\ \A p \in Permissions : <<r, p>> \in db'.rolePerm
      BY <2>3, <2>4, <3>1 DEF Restored
    <3>3. r \in EffectiveRoles(db', u)
      BY <2>4, <3>1, <3>2 DEF EffectiveRoles, AdminGroups, SystemAdminRole, findByName
    <3> QED BY <3>2, <3>3 DEF PermissionsOf
  <2>5. boot'.failed \cap {3, 6} = {} => HasMember(db') \/ findByEmail(db', DefaultEmail) = {}
    BY <2>3 DEF Restored
  <2> QED BY <2>4, <2>5 DEF HasMember
<1>2. CASE restart
  BY <1>2 DEF restart
<1>3. ASSUME NEW c \in Clients, Begun(c) \/ DeleteOld(c) \/ Runs(c)
      PROVE  boot' = boot
  BY <1>3, OthersSpared DEF Begun, DeleteOld
<1> QED BY <1>1, <1>2, <1>3, StepKinds DEF Runs

\* Whatever requests have made of the role and the group, and whichever steps
\* of the start fail: those that are run give the members of the administrators'
\* group every permission, and the group a member while the account of the
\* default address is there (schema-bootstrap.service.ts).
THEOREM AdministratorsRestored == Spec => StartRestores
<1>1. Inv /\ [Next]_vars =>
        (boot.at = 7 /\ boot'.at = 0 =>
           /\ boot'.failed \cap {1, 2, 4} = {} =>
                \A g \in AdminGroups(db'), u \in DOMAIN db'.user :
                  <<g, u>> \in db'.groupMember => Permissions \subseteq PermissionsOf(db', u)
           /\ boot'.failed \cap {3, 6} = {} =>
                \/ \E g \in AdminGroups(db'), u \in DOMAIN db'.user : <<g, u>> \in db'.groupMember
                \/ findByEmail(db', DefaultEmail) = {})
  BY StartsRestore
<1> QED BY <1>1, AccessInvariant, PTL DEF Spec, StartRestores

LEMMA SavesReplace ==
  ASSUME Inv, [Next]_vars, NEW c \in Clients, req[c].tx.open,
         req'[c].todo = Tail(req[c].todo), db' # db, NEW s \in Now(c).sets
  PROVE  InSet(db', s) = s.rows \cup (req[c].tx.others[s.link] \cap InSet(db, s))
<1> USE DEF Inv
<1>0. /\ TypeOK /\ Columns(db) /\ GoodRequest(req[c]) /\ Running(c) /\ Now(c).do = "replace"
      /\ InSet(db, s) \subseteq req[c].tx.seen[s.link] \cup req[c].tx.others[s.link]
  BY DEF TypeOK, TxCovers
<1>1. /\ GoodStatement(Now(c)) /\ req'[c].todo # req[c].todo
      /\ req[c].tx # Closed
  <2>1. GoodTodo(req[c].todo) /\ req[c].todo # <<>>
    BY <1>0 DEF GoodRequest, Running
  <2>2. GoodStatement(Now(c)) /\ Tail(req[c].todo) # req[c].todo
    BY <2>1, Heads DEF Now
  <2> QED BY <2>2 DEF Closed
<1>2. ~onApplicationBootstrap /\ ~restart /\ ~(UNCHANGED <<db, req, boot>>)
  BY <1>0, <1>1, BootSteps DEF restart
<1>3. ASSUME NEW o \in Clients, Begun(o) \/ DeleteOld(o)
      PROVE  FALSE
  BY <1>3 DEF Begun, DeleteOld
<1>4. ASSUME NEW o \in Clients, Runs(o)
      PROVE  o = c /\ InsertNew(c)
  <2>1. o = c
    BY <1>0, <1>1, <1>4, OthersSpared DEF Spared
  <2>2. ~Statement(c) /\ ~IssueToken(c)
    BY <1>0 DEF Statement, IssueToken
  <2> QED BY <1>4, <2>1, <2>2 DEF Runs
<1>5. InsertNew(c)
  BY <1>2, <1>3, <1>4, StepKinds DEF Runs
<1>6. db' = Replaced(c)
  BY <1>5 DEF InsertNew, Commit, Abort
<1>7. /\ s.link \in Links /\ \A p \in s.rows : p[1] = s.key
      /\ \A x \in Now(c).sets : /\ \A p \in x.rows : p[1] = x.key
                                /\ x.link = s.link /\ x.key = s.key => x.rows = s.rows
  BY <1>0, <1>1 DEF GoodStatement, GoodSet
<1>8. db'[s.link] = (db[s.link] \ Deleted(c, s.link)) \cup New(c)[s.link]
  BY <1>0, <1>6, <1>7 DEF Replaced, Columns
<1>9. \A p : p \in New(c)[s.link] /\ p[1] = s.key <=> p \in s.rows
  BY <1>7 DEF New, SetsIn
<1>10. \A p \in InSet(db, s) : p \notin Deleted(c, s.link) <=> p \in req[c].tx.others[s.link]
  BY <1>0 DEF Deleted
<1> QED BY <1>8, <1>9, <1>10 DEF InSet

\* A set that was replaced holds what was asked and what others have committed
\* since the old rows were deleted, and nothing older (setRoles,
\* setPermissions, setMembership, setResourceGrants).
THEOREM SavesReplaceAll == Spec => SaveReplaces
<1>1. Inv /\ [Next]_vars =>
        \A c \in Clients :
          req[c].tx.open /\ req'[c].todo = Tail(req[c].todo) /\ db' # db =>
            \A s \in Now(c).sets :
              InSet(db', s) = s.rows \cup (req[c].tx.others[s.link] \cap InSet(db, s))
  BY SavesReplace
<1> QED BY <1>1, AccessInvariant, PTL DEF Spec, SaveReplaces
=============================================================================
