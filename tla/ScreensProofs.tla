--------------------------- MODULE ScreensProofs ---------------------------
(***************************************************************************)
(* Proofs about the screens, for any views, datasets, dashboards and       *)
(* users, and however much is clicked: what a table or the designer shows  *)
(* is the answer to the last thing asked, and the crumbs of a drilled      *)
(* chart describe its bars.  The invariant Good ties the requests under    *)
(* way to the screen they were sent for: SendKinds and what follows say    *)
(* what a set of requests is after others are sent, dropped, answered or   *)
(* retried; the sections after it take the steps of each screen.           *)
(***************************************************************************)
EXTENDS Screens, SequenceTheorems, TLAPS

-----------------------------------------------------------------------------
(* The invariant *)

CallFields == {"kind", "arg", "newest", "phase", "twin"}
TableFields == {"at", "src", "about", "sort", "page", "typed", "search", "applied",
                "timer", "fresh", "shown", "failed"}
BoardFields == {"at", "src", "shell", "loaded", "pending", "data", "failed", "drill", "editor",
                "hidden"}
DrillFields == {"open", "on", "steps", "rows", "records", "busy", "raced"}
EditorFields == {"open", "existing", "src", "schema", "type", "mode", "dim", "groups", "compare",
                 "path", "cond", "steps", "timer", "result", "failed"}

CallShapes(cs) == \A c \in cs : c = [f \in CallFields |-> c[f]] /\ c.newest \in BOOLEAN

\* The newest request of a kind.
IsNewest(c, kind) == c.kind = kind /\ c.newest

\* A request is of the screen that is open, and of a part of it that is there.
Belongs(s, c) ==
  /\ c.kind \in {"data", "config", "schema"} => s.at \in {"report", "dataset"}
  /\ c.kind = "config" => s.at = "report"
  /\ c.kind = "schema" => s.at = "dataset" /\ c.arg[1] = s.src
  /\ c.kind \in C!BoardCalls => s.at = "board"
  /\ c.kind \in C!DesignCalls => s.editor.open
  /\ c.kind \in C!DrillCalls => s.drill.open
  /\ c.kind \in V!ViewCalls => s.at = "views"

AllBelong(s, cs) == \A c \in cs : Belongs(s, c)

\* The newest rows asked for are those chosen now; they are shown, refused or
\* under way.
TableGood(s, cs) ==
  s.at \in {"report", "dataset"} =>
    /\ DOMAIN s = TableFields
    /\ s.at = "dataset" /\ s.about # "" => s.src # ""
    /\ s.at = "dataset" /\ s.about = "" => \A c \in cs : c.kind # "data"
    /\ \A c \in cs : IsNewest(c, "data") => c.arg = T!Query(s)
    /\ T!Ready(s) => \/ s.failed \/ s.shown = T!Query(s)
                     \/ \E c \in cs : IsNewest(c, "data")

\* The same of the preview, while its timer does not run.
PreviewGood(e, cs) ==
  C!Complete(e) /\ ~e.timer =>
    /\ \A c \in cs : IsNewest(c, "preview") => c.arg = C!PreviewOf(e)
    /\ \/ e.failed \/ e.result = C!PreviewOf(e)
       \/ \E c \in cs : IsNewest(c, "preview")

OneDrill(cs) ==
  \A c1, c2 \in cs : c1.kind \in C!DrillCalls /\ c2.kind \in C!DrillCalls => c1 = c2

\* Unless a jump met a click, a drill waits for one answer at most, and the
\* records that are asked for lie one level below the crumbs.
DrillGood(d, cs) ==
  /\ C!PathHolds(d) /\ d.steps \in Seq(Bars)
  /\ OneDrill(cs)
  /\ \A c \in cs : c.kind \in C!DrillCalls =>
       /\ d.busy /\ d.on /\ ~d.records.open /\ c.arg \in Seq(Bars)
       /\ c.kind = "records" => SubSeq(c.arg, 1, Len(c.arg) - 1) = d.steps

BoardGood(s, cs) ==
  s.at = "board" =>
    /\ DOMAIN s = BoardFields
    /\ s.hidden # {} => ~s.drill.open
    /\ s.editor.open => DOMAIN s.editor = EditorFields /\ ~s.drill.open /\ PreviewGood(s.editor, cs)
    /\ s.drill.open => DOMAIN s.drill = DrillFields /\ (~s.drill.raced => DrillGood(s.drill, cs))

GoodFor(s, cs) ==
  /\ "at" \in DOMAIN s
  /\ CallShapes(cs) /\ AllBelong(s, cs)
  /\ TableGood(s, cs) /\ BoardGood(s, cs)

Good == GoodFor(screen, calls)

-----------------------------------------------------------------------------
(* Sending, dropping and retrying requests *)

Asks(asks) == \A a \in asks : a = [kind |-> a.kind, arg |-> a.arg]

\* What a set of requests is after `asks' are sent: the requests of other kinds
\* are as they were, and of an asked kind only what is asked is the newest.
Sends(cs, asks, new) ==
  /\ CallShapes(new)
  /\ \A x : (\A a \in asks : a.kind # x.kind) => (x \in new <=> x \in cs)
  /\ \A x \in new : (\E a \in asks : x.kind = a.kind /\ x.arg = a.arg)
                    \/ (\E c \in cs : x.kind = c.kind /\ x.arg = c.arg)
  /\ \A x \in new : x.newest /\ (\E a \in asks : a.kind = x.kind)
                      => \E a \in asks : x.kind = a.kind /\ x.arg = a.arg
  /\ \A a \in asks : \E x \in new : IsNewest(x, a.kind) /\ x.arg = a.arg
  /\ \A a \in asks : (\A b \in asks : b.kind = a.kind => b = a) /\ (\A c \in cs : c.kind # a.kind)
       => \A x, y \in new : x.kind = a.kind /\ y.kind = a.kind => x = y

\* Send, whatever numbers the twins are given.
Superseded(c, asks) == [c EXCEPT !.newest = @ /\ \A a \in asks : a.kind # c.kind]
Fresh(a, n) == [kind |-> a.kind, arg |-> a.arg, newest |-> TRUE, phase |-> "sent", twin |-> n]
Mixed(cs, asks, twins) == {Superseded(c, asks) : c \in cs} \cup {Fresh(a, twins[a]) : a \in asks}

LEMMA CopiesOfAsk ==
  ASSUME NEW k, NEW a
  PROVE  T!Ask(k, a) = Ask(k, a) /\ C!Ask(k, a) = Ask(k, a) /\ V!Ask(k, a) = Ask(k, a)
BY DEF T!Ask, C!Ask, V!Ask, Ask

LEMMA CopiesOfWithout ==
  ASSUME NEW cs, NEW ks
  PROVE  T!Without(cs, ks) = Without(cs, ks) /\ C!Without(cs, ks) = Without(cs, ks)
BY DEF T!Without, C!Without, Without

LEMMA OldCall ==
  ASSUME NEW c, c = [f \in CallFields |-> c[f]], c.newest \in BOOLEAN, NEW p \in BOOLEAN,
         NEW x, x = [c EXCEPT !.newest = c.newest /\ p]
  PROVE  /\ x = [f \in CallFields |-> x[f]] /\ x.newest \in BOOLEAN
         /\ x.kind = c.kind /\ x.arg = c.arg
         /\ x.newest <=> c.newest /\ p
         /\ p => x = c
BY DEF CallFields

LEMMA NewCall ==
  ASSUME NEW k, NEW a, NEW n
  PROVE  LET x == [kind |-> k, arg |-> a, newest |-> TRUE, phase |-> "sent", twin |-> n]
         IN  /\ x = [f \in CallFields |-> x[f]] /\ x.newest \in BOOLEAN
             /\ x.kind = k /\ x.arg = a /\ x.newest
BY DEF CallFields

LEMMA MixedSends ==
  ASSUME NEW cs, NEW asks, NEW twins, CallShapes(cs)
  PROVE  Sends(cs, asks, Mixed(cs, asks, twins))
<1> DEFINE P(c) == \A a \in asks : a.kind # c.kind
           Before(c) == Superseded(c, asks)
           After(a) == Fresh(a, twins[a])
           new == Mixed(cs, asks, twins)
<1>1. new = {Before(c) : c \in cs} \cup {After(a) : a \in asks}
  BY DEF Mixed
<1>2. ASSUME NEW c \in cs
      PROVE  /\ Before(c) = [f \in CallFields |-> Before(c)[f]] /\ Before(c).newest \in BOOLEAN
             /\ Before(c).kind = c.kind /\ Before(c).arg = c.arg
             /\ Before(c).newest <=> c.newest /\ P(c)
             /\ P(c) => Before(c) = c
  <2>1. c = [f \in CallFields |-> c[f]] /\ c.newest \in BOOLEAN
    BY CallShapes(cs) DEF CallShapes
  <2>2. P(c) \in BOOLEAN
    OBVIOUS
  <2>3. Before(c) = [c EXCEPT !.newest = c.newest /\ P(c)]
    BY DEF Superseded
  <2> HIDE DEF P, Before
  <2> QED BY <2>1, <2>2, <2>3, OldCall
<1>3. ASSUME NEW a \in asks
      PROVE  /\ After(a) = [f \in CallFields |-> After(a)[f]] /\ After(a).newest \in BOOLEAN
             /\ After(a).kind = a.kind /\ After(a).arg = a.arg /\ After(a).newest
  BY NewCall DEF Fresh
<1> HIDE DEF Before, After, new
<1>4. CallShapes(new)
  BY <1>1, <1>2, <1>3 DEF CallShapes
<1>5. ASSUME NEW x, P(x) PROVE x \in new <=> x \in cs
  BY <1>1, <1>2, <1>3, <1>5
<1>6. \A x \in new : (\E a \in asks : x.kind = a.kind /\ x.arg = a.arg)
                     \/ (\E c \in cs : x.kind = c.kind /\ x.arg = c.arg)
  BY <1>1, <1>2, <1>3
<1>7. \A x \in new : x.newest /\ (\E a \in asks : a.kind = x.kind)
                       => \E a \in asks : x.kind = a.kind /\ x.arg = a.arg
  BY <1>1, <1>2, <1>3
<1>8. \A a \in asks : \E x \in new : IsNewest(x, a.kind) /\ x.arg = a.arg
  BY <1>1, <1>3 DEF IsNewest
<1>9. ASSUME NEW a \in asks, \A b \in asks : b.kind = a.kind => b = a, \A c \in cs : c.kind # a.kind,
             NEW x \in new, NEW y \in new, x.kind = a.kind, y.kind = a.kind
      PROVE  x = y
  <2>1. x = After(a) /\ y = After(a)
    BY <1>1, <1>2, <1>3, <1>9
  <2> QED BY <2>1
<1> QED BY <1>4, <1>5, <1>6, <1>7, <1>8, <1>9 DEF Sends, new

LEMMA SendIs ==
  ASSUME NEW cs, NEW asks, CallShapes(cs)
  PROVE  /\ Sends(cs, asks, Send(cs, asks)) /\ Sends(cs, asks, T!Send(cs, asks))
         /\ Sends(cs, asks, C!Send(cs, asks)) /\ Sends(cs, asks, V!Send(cs, asks))
<1>1. Send(cs, asks) = Mixed(cs, asks, [a \in asks |-> Twin(cs, a)])
  BY DEF Send, Mixed, Superseded, Fresh
<1>2. T!Send(cs, asks) = Mixed(cs, asks, [a \in asks |-> T!Twin(cs, a)])
  BY DEF T!Send, Mixed, Superseded, Fresh
<1>3. C!Send(cs, asks) = Mixed(cs, asks, [a \in asks |-> C!Twin(cs, a)])
  BY DEF C!Send, Mixed, Superseded, Fresh
<1>4. V!Send(cs, asks) = Mixed(cs, asks, [a \in asks |-> V!Twin(cs, a)])
  BY DEF V!Send, Mixed, Superseded, Fresh
<1> QED BY <1>1, <1>2, <1>3, <1>4, MixedSends

\* As far as the screens go, a set of requests asks the same as another.
Same(x, c) == x.kind = c.kind /\ x.arg = c.arg /\ (x.newest <=> c.newest)
Alike(cs, new) ==
  /\ CallShapes(new)
  /\ \A x \in new : x.kind \in ScreenCalls => \E c \in cs : Same(x, c)
  /\ \A c \in cs : c.kind \in ScreenCalls => \E x \in new : Same(x, c)
  /\ OneDrill(cs) => OneDrill(new)

LEMMA AlikeKeeps ==
  ASSUME NEW s, NEW cs, NEW new, GoodFor(s, cs), Alike(cs, new)
  PROVE  GoodFor(s, new)
<1>1. \A x \in new : x.kind \in ScreenCalls => \E c \in cs : Same(x, c)
  BY DEF Alike
<1>2. \A c \in cs : c.kind \in ScreenCalls => \E x \in new : Same(x, c)
  BY DEF Alike
<1>3. {"data", "config", "schema"} \cup C!BoardCalls \cup C!DesignCalls \cup C!DrillCalls
        \cup V!ViewCalls \subseteq ScreenCalls
  BY DEF ScreenCalls, T!TableCalls, C!BoardCalls, C!DesignCalls, C!DrillCalls
<1>4. "data" \in ScreenCalls /\ "preview" \in ScreenCalls
  BY <1>3 DEF C!DesignCalls
<1>5. AllBelong(s, new)
  <2> SUFFICES ASSUME NEW x \in new PROVE Belongs(s, x)
    BY DEF AllBelong
  <2>1. CASE x.kind \in ScreenCalls
    <3>1. PICK c \in cs : Same(x, c)
      BY <1>1, <2>1
    <3>2. Belongs(s, c)
      BY DEF GoodFor, AllBelong
    <3> QED BY <3>1, <3>2 DEF Belongs, Same
  <2>2. CASE x.kind \notin ScreenCalls
    BY <1>3, <2>2 DEF Belongs
  <2> QED BY <2>1, <2>2
<1>6. ASSUME NEW kind \in ScreenCalls
      PROVE  /\ \A x \in new : IsNewest(x, kind) => \E c \in cs : IsNewest(c, kind) /\ x.arg = c.arg
             /\ (\E c \in cs : IsNewest(c, kind)) => \E x \in new : IsNewest(x, kind)
  BY <1>1, <1>2 DEF Same, IsNewest
<1>7. TableGood(s, new)
  <2>1. TableGood(s, cs)
    BY DEF GoodFor
  <2>2. \A x \in new : x.kind = "data" => \E c \in cs : c.kind = "data"
    BY <1>1, <1>4 DEF Same
  <2> QED BY <1>4, <1>6, <2>1, <2>2 DEF TableGood
<1>8. ASSUME NEW e, PreviewGood(e, cs) PROVE PreviewGood(e, new)
  BY <1>4, <1>6, <1>8 DEF PreviewGood
<1>9. ASSUME NEW d, DrillGood(d, cs) PROVE DrillGood(d, new)
  <2>1. OneDrill(new)
    BY <1>9 DEF DrillGood, Alike
  <2>2. ASSUME NEW x \in new, x.kind \in C!DrillCalls
        PROVE  \E c \in cs : x.kind = c.kind /\ x.arg = c.arg
    BY <1>1, <1>3, <2>2 DEF Same
  <2> QED BY <1>9, <2>1, <2>2 DEF DrillGood
<1>10. BoardGood(s, new)
  BY <1>8, <1>9 DEF GoodFor, BoardGood
<1> QED BY <1>5, <1>7, <1>10 DEF GoodFor, Alike

\* Requests of App itself are sent, or one of them is answered.
LEMMA AppSends ==
  ASSUME NEW cs, NEW asks, NEW new, CallShapes(cs), Sends(cs, asks, new),
         \A a \in asks : a.kind \notin ScreenCalls
  PROVE  Alike(cs, new)
<1>1. \A x : x.kind \in ScreenCalls => (x \in new <=> x \in cs)
  BY DEF Sends
<1>2. C!DrillCalls \subseteq ScreenCalls
  BY DEF C!DrillCalls, C!BoardCalls, ScreenCalls
<1>3. OneDrill(cs) => OneDrill(new)
  BY <1>1, <1>2 DEF OneDrill
<1>4. CallShapes(new)
  BY DEF Sends
<1> QED BY <1>1, <1>3, <1>4 DEF Alike, Same

LEMMA AppAnswered ==
  ASSUME NEW cs, NEW c \in cs, CallShapes(cs), c.kind \notin ScreenCalls
  PROVE  CallShapes(cs \ {c}) /\ Alike(cs, cs \ {c})
BY DEF Alike, Same, CallShapes, OneDrill

LEMMA AlikeTwice ==
  ASSUME NEW cs, NEW mid, NEW new, Alike(cs, mid), Alike(mid, new)
  PROVE  Alike(cs, new)
BY DEF Alike, Same

-----------------------------------------------------------------------------
(* Opening a screen *)

Bare(cs) == CallShapes(cs) /\ \A c \in cs : c.kind \notin ScreenCalls
OfApp(asks) == \A a \in asks : a.kind \notin ScreenCalls

\* A screen as it opens is good, whatever else App asks at the same time.
Opens(turn) ==
  \A cs, asks, new :
    Bare(cs) /\ OfApp(asks) /\ Sends(cs, turn.asks \cup asks, new) => GoodFor(turn.to, new)

AppAsks == {"me", "login", "list", "create", "remove"}

LEMMA KindsApart ==
  /\ AppAsks \cap ScreenCalls = {}
  /\ {"data", "config", "schema", "shell", "views", "widget", "unchart", "drill", "records",
      "fields", "preview", "save", "columns", "matches", "saveView", "deleteView"} = ScreenCalls
  /\ C!DesignCalls = {"fields", "preview"} /\ C!DrillCalls = {"drill", "records"}
BY DEF AppAsks, ScreenCalls, T!TableCalls, C!BoardCalls, C!DesignCalls, C!DrillCalls, V!ViewCalls

LEMMA NoCallsGood ==
  ASSUME NEW s, NEW cs, Bare(cs), "at" \in DOMAIN s, s.at \notin {"report", "dataset", "board"}
  PROVE  GoodFor(s, cs)
<1>1. AllBelong(s, cs)
  BY KindsApart DEF AllBelong, Belongs, Bare, C!BoardCalls, V!ViewCalls
<1> QED BY <1>1 DEF GoodFor, TableGood, BoardGood, Bare

LEMMA PlainOpens ==
  ASSUME NEW at, at \notin {"report", "dataset", "board"}
  PROVE  Opens([to |-> Plain(at), asks |-> {}])
<1> SUFFICES ASSUME NEW cs, NEW asks, NEW new, Bare(cs), OfApp(asks), Sends(cs, asks, new)
             PROVE  GoodFor(Plain(at), new)
  BY DEF Opens
<1>1. Bare(new)
  BY DEF Bare, OfApp, Sends
<1>2. "at" \in DOMAIN Plain(at) /\ Plain(at).at = at
  BY DEF Plain
<1> QED BY <1>1, <1>2, NoCallsGood

\* What is under way after a screen has opened.
LEMMA Opening ==
  ASSUME NEW cs, NEW first, NEW asks, NEW new, Bare(cs), OfApp(asks), Sends(cs, first \cup asks, new),
         \A a \in first : a.kind \in ScreenCalls
  PROVE  /\ CallShapes(new)
         /\ \A x \in new : x.kind \in ScreenCalls => \E a \in first : x.kind = a.kind /\ x.arg = a.arg
         /\ \A a \in first : \E x \in new : IsNewest(x, a.kind) /\ x.arg = a.arg
<1>1. ASSUME NEW x \in new, x.kind \in ScreenCalls
      PROVE  \E a \in first : x.kind = a.kind /\ x.arg = a.arg
  <2>1. (\E a \in first \cup asks : x.kind = a.kind /\ x.arg = a.arg)
        \/ (\E c \in cs : x.kind = c.kind /\ x.arg = c.arg)
    BY DEF Sends
  <2> QED BY <1>1, <2>1 DEF Bare, OfApp
<1> QED BY <1>1 DEF Sends

LEMMA NewTables ==
  ASSUME NEW at, NEW k
  PROVE  LET s == T!NewTable(at, k)
         IN  /\ DOMAIN s = TableFields /\ s.at = at /\ s.src = k /\ s.about = ""
BY DEF T!NewTable, TableFields

LEMMA ReportOpens ==
  ASSUME NEW k
  PROVE  Opens(T!OpenReport(k))
<1> DEFINE s == T!NewTable("report", k)
           first == {T!Ask("config", <<k>>), T!Ask("data", T!Query(s))}
<1> SUFFICES ASSUME NEW cs, NEW asks, NEW new, Bare(cs), OfApp(asks), Sends(cs, first \cup asks, new)
             PROVE  GoodFor(s, new)
  BY DEF Opens, T!OpenReport
<1>1. \A a \in first : a.kind \in {"config", "data"} /\ (a.kind = "data" => a.arg = T!Query(s))
  BY DEF T!Ask
<1>2. \E a \in first : a.kind = "data"
  BY DEF T!Ask
<1>3. DOMAIN s = TableFields /\ s.at = "report"
  BY NewTables
<1> HIDE DEF s, first
<1>4. /\ CallShapes(new)
      /\ \A x \in new : x.kind \in ScreenCalls => \E a \in first : x.kind = a.kind /\ x.arg = a.arg
      /\ \A a \in first : \E x \in new : IsNewest(x, a.kind) /\ x.arg = a.arg
  BY <1>1, KindsApart, Opening
<1>5. AllBelong(s, new)
  BY <1>1, <1>3, <1>4, KindsApart DEF AllBelong, Belongs, C!BoardCalls, V!ViewCalls
<1>6. \A x \in new : IsNewest(x, "data") => x.arg = T!Query(s)
  BY <1>1, <1>4, KindsApart DEF IsNewest
<1>7. \E x \in new : IsNewest(x, "data")
  BY <1>2, <1>4
<1>8. TableGood(s, new)
  BY <1>3, <1>6, <1>7 DEF TableGood
<1>9. "at" \in DOMAIN s
  BY <1>3 DEF TableFields
<1> QED BY <1>3, <1>4, <1>5, <1>8, <1>9 DEF GoodFor, BoardGood

LEMMA DatasetOpens ==
  ASSUME NEW k
  PROVE  Opens(T!OpenDataset(k))
<1> DEFINE s == T!NewTable("dataset", k)
           first == {T!Ask("schema", <<k>>)}
<1> SUFFICES ASSUME NEW cs, NEW asks, NEW new, Bare(cs), OfApp(asks), Sends(cs, first \cup asks, new)
             PROVE  GoodFor(s, new)
  BY DEF Opens, T!OpenDataset
<1>1. \A a \in first : a.kind = "schema" /\ a.arg[1] = k
  BY DEF T!Ask
<1>2. DOMAIN s = TableFields /\ s.at = "dataset" /\ s.src = k /\ s.about = ""
  BY NewTables
<1> HIDE DEF s, first
<1>3. /\ CallShapes(new)
      /\ \A x \in new : x.kind \in ScreenCalls => \E a \in first : x.kind = a.kind /\ x.arg = a.arg
  BY <1>1, KindsApart, Opening
<1>4. AllBelong(s, new)
  BY <1>1, <1>2, <1>3, KindsApart DEF AllBelong, Belongs, C!BoardCalls, V!ViewCalls
<1>5. \A x \in new : x.kind # "data"
  BY <1>1, <1>3, KindsApart
<1>6. TableGood(s, new)
  BY <1>2, <1>5 DEF TableGood, T!Ready, IsNewest
<1>7. "at" \in DOMAIN s
  BY <1>2 DEF TableFields
<1> QED BY <1>2, <1>3, <1>4, <1>6, <1>7 DEF GoodFor, BoardGood

LEMMA BoardOpens ==
  ASSUME NEW k
  PROVE  Opens(C!OpenBoard(k))
<1> DEFINE s == C!NewBoard(k)
           first == {C!Ask("shell", <<k>>)}
<1> SUFFICES ASSUME NEW cs, NEW asks, NEW new, Bare(cs), OfApp(asks), Sends(cs, first \cup asks, new)
             PROVE  GoodFor(s, new)
  BY DEF Opens, C!OpenBoard
<1>1. \A a \in first : a.kind = "shell"
  BY DEF C!Ask
<1>2. DOMAIN s = BoardFields /\ s.at = "board" /\ ~s.editor.open /\ ~s.drill.open
  BY DEF C!NewBoard, C!Closed, BoardFields
<1> HIDE DEF s, first
<1>3. /\ CallShapes(new)
      /\ \A x \in new : x.kind \in ScreenCalls => \E a \in first : x.kind = a.kind /\ x.arg = a.arg
  BY <1>1, KindsApart, Opening
<1>4. AllBelong(s, new)
  BY <1>1, <1>2, <1>3, KindsApart DEF AllBelong, Belongs, C!BoardCalls, V!ViewCalls
<1>5. "at" \in DOMAIN s
  BY <1>2 DEF BoardFields
<1> QED BY <1>2, <1>3, <1>4, <1>5 DEF GoodFor, TableGood, BoardGood

LEMMA ViewsOpen == Opens(V!OpenViews)
<1> DEFINE s == V!OpenViews.to
           first == V!OpenViews.asks
<1> SUFFICES ASSUME NEW cs, NEW asks, NEW new, Bare(cs), OfApp(asks), Sends(cs, first \cup asks, new)
             PROVE  GoodFor(s, new)
  BY DEF Opens
<1>1. \A a \in first : a.kind = "views"
  BY DEF V!OpenViews, V!Ask
<1>2. "at" \in DOMAIN s /\ s.at = "views"
  BY DEF V!OpenViews
<1> HIDE DEF s, first
<1>3. /\ CallShapes(new)
      /\ \A x \in new : x.kind \in ScreenCalls => \E a \in first : x.kind = a.kind /\ x.arg = a.arg
  BY <1>1, KindsApart, Opening
<1>4. AllBelong(s, new)
  BY <1>1, <1>2, <1>3, KindsApart DEF AllBelong, Belongs, C!BoardCalls, V!ViewCalls
<1> QED BY <1>2, <1>3, <1>4 DEF GoodFor, TableGood, BoardGood

LEMMA HomeOpens ==
  ASSUME NEW k
  PROVE  Opens(HomeOf(k))
<1>1. CASE building
  BY <1>1, PlainOpens DEF HomeOf
<1>2. CASE ~building /\ k = ""
  BY <1>2, PlainOpens DEF HomeOf
<1>3. CASE ~building /\ k # ""
  BY <1>3, BoardOpens DEF HomeOf
<1> QED BY <1>1, <1>2, <1>3

LEMMA SectionOpens ==
  ASSUME NEW section, NEW who
  PROVE  Opens(Opened(section, who))
<1>1. CASE section = "report"
  BY <1>1, ReportOpens DEF Opened
<1>2. CASE section = "dataset" /\ who = "admin"
  BY <1>2, DatasetOpens DEF Opened
<1>3. CASE section = "views" /\ who = "admin"
  BY <1>3, ViewsOpen DEF Opened
<1>4. CASE section = "home"
  BY <1>4, HomeOpens DEF Opened
<1>5. CASE /\ section \notin {"report", "home"}
           /\ ~(section = "dataset" /\ who = "admin") /\ ~(section = "views" /\ who = "admin")
  BY <1>5, PlainOpens DEF Opened
<1> QED BY <1>1, <1>2, <1>3, <1>4, <1>5

LEMMA WithoutScreens ==
  ASSUME NEW cs, CallShapes(cs)
  PROVE  Bare(Without(cs, ScreenCalls))
BY DEF Bare, Without, CallShapes

LEMMA MountKeeps ==
  ASSUME NEW turn, NEW cs, NEW asks, CallShapes(cs), Opens(turn), OfApp(asks), Mount(turn, cs, asks)
  PROVE  Good'
<1>1. screen' = turn.to /\ calls' = Send(Without(cs, ScreenCalls), turn.asks \cup asks)
  BY DEF Mount
<1>2. Bare(Without(cs, ScreenCalls))
  BY WithoutScreens
<1>3. Sends(Without(cs, ScreenCalls), turn.asks \cup asks, calls')
  BY <1>1, <1>2, SendIs DEF Bare
<1>4. GoodFor(turn.to, calls')
  BY <1>2, <1>3 DEF Opens
<1> QED BY <1>1, <1>4 DEF Good

-----------------------------------------------------------------------------
(* The session and the sections *)

LEMMA NoScreenNoCalls ==
  ASSUME Good, screen.at \notin {"report", "dataset", "board", "views"}
  PROVE  Bare(calls)
BY KindsApart DEF Good, GoodFor, AllBelong, Belongs, Bare, C!BoardCalls, V!ViewCalls

\* A request of App is answered and others are sent; the screen stays.
LEMMA AnswerKeeps ==
  ASSUME Good, NEW c \in calls, c.kind \in AppAsks, NEW asks, OfApp(asks), screen' = screen,
         calls' = calls \ {c} \/ calls' = Send(calls \ {c}, asks)
  PROVE  Good'
<1>1. CallShapes(calls)
  BY DEF Good, GoodFor
<1>2. CallShapes(calls \ {c}) /\ Alike(calls, calls \ {c})
  BY <1>1, KindsApart, AppAnswered
<1>3. CASE calls' = calls \ {c}
  BY <1>2, <1>3, AlikeKeeps DEF Good
<1>4. CASE calls' = Send(calls \ {c}, asks)
  <2>1. Alike(calls \ {c}, calls')
    BY <1>2, <1>4, SendIs, AppSends DEF OfApp
  <2>2. Alike(calls, calls')
    BY <1>2, <2>1, AlikeTwice
  <2> QED BY <2>2, AlikeKeeps DEF Good
<1> QED BY <1>3, <1>4

LEMMA AskKeeps ==
  ASSUME Good, NEW asks, OfApp(asks), screen' = screen,
         calls' = Send(calls, asks) \/ calls' = T!Send(calls, asks)
  PROVE  Good'
<1>1. Alike(calls, calls')
  BY SendIs, AppSends DEF Good, GoodFor, OfApp
<1> QED BY <1>1, AlikeKeeps DEF Good

LEMMA QuietScreen ==
  ASSUME Bare(calls'), "at" \in DOMAIN screen', screen'.at \notin {"report", "dataset", "board"}
  PROVE  Good'
<1>1. GoodFor(screen', calls')
  BY NoCallsGood
<1> QED BY <1>1 DEF Good

LEMMA NothingAsked == OfApp({})
BY DEF OfApp

LEMMA AppKinds ==
  ASSUME NEW k \in AppAsks, NEW a
  PROVE  OfApp({Ask(k, a)})
BY KindsApart DEF OfApp, Ask

LEMMA ClientKeeps ==
  ASSUME Good, screen' = screen,
         RefreshGranted \/ \E c \in calls : Unauthorized(c)
  PROVE  Good'
<1>0. CallShapes(calls)
  BY DEF Good, GoodFor
<1>1. Alike(calls, calls')
  <2>1. CASE RefreshGranted
    <3>1. \A c \in calls : /\ Retried(c) = [f \in CallFields |-> Retried(c)[f]]
                           /\ Retried(c).newest \in BOOLEAN /\ Same(Retried(c), c)
      BY <1>0 DEF Retried, CallShapes, CallFields, Same
    <3>2. calls' = {Retried(c) : c \in calls}
      BY <2>1 DEF RefreshGranted
    <3> HIDE DEF Retried
    <3> QED BY <3>1, <3>2 DEF Alike, CallShapes, OneDrill, Same
  <2>2. ASSUME NEW c \in calls, Unauthorized(c) PROVE Alike(calls, calls')
    <3> DEFINE x == [c EXCEPT !.phase = "waiting"]
    <3>1. x = [f \in CallFields |-> x[f]] /\ x.newest \in BOOLEAN /\ Same(x, c)
      BY <1>0 DEF CallShapes, CallFields, Same
    <3>2. calls' = (calls \ {c}) \cup {x}
      BY <2>2 DEF Unauthorized
    <3> HIDE DEF x
    <3> QED BY <1>0, <3>1, <3>2 DEF Alike, CallShapes, OneDrill, Same
  <2> QED BY <2>1, <2>2
<1> QED BY <1>1, AlikeKeeps DEF Good

\* Signing in and out, and the end of a session.
LEMMA SessionKeeps ==
  ASSUME Good,
         \/ SignIn \/ SignOut \/ SessionExpires
         \/ \E c \in calls : SignInLands(c) \/ SignInFails(c) \/ MeFails(c)
                             \/ \E who \in Users : MeLands(c, who)
  PROVE  Good'
<1>0. CallShapes(calls) /\ "at" \in DOMAIN screen
  BY DEF Good, GoodFor
<1>1. CASE SignIn
  <2>1. /\ screen.at = "login" /\ screen' = [screen EXCEPT !.message = "none"]
        /\ calls' = T!Send(calls, {Ask("login", <<>>)})
    BY <1>1 DEF SignIn, T!Act
  <2>2. "at" \in DOMAIN screen' /\ screen'.at = "login"
    BY <1>0, <2>1
  <2>3. Bare(calls)
    BY <2>1, NoScreenNoCalls
  <2>4. Sends(calls, {Ask("login", <<>>)}, calls')
    BY <1>0, <2>1, SendIs
  <2>5. OfApp({Ask("login", <<>>)})
    BY AppKinds DEF AppAsks
  <2>6. Bare(calls')
    BY <2>3, <2>4, <2>5 DEF Bare, OfApp, Sends
  <2> QED BY <2>2, <2>6, QuietScreen
<1>2. ASSUME \/ SignOut \/ SessionExpires PROVE Good'
  <2>1. PICK message, back : screen' = [[Plain("login") EXCEPT !.message = message] EXCEPT !.back = back]
    BY <1>2 DEF SignOut, SessionExpires, Ended
  <2>2. "at" \in DOMAIN screen' /\ screen'.at = "login"
    BY <2>1 DEF Plain
  <2>3. Bare(calls')
    BY <1>0, <1>2 DEF SignOut, SessionExpires, Bare, Without, CallShapes
  <2> QED BY <2>2, <2>3, QuietScreen
<1>3. ASSUME NEW c \in calls, SignInLands(c) PROVE Good'
  <2>1. c.kind \in AppAsks /\ screen' = screen /\ calls' = Send(calls \ {c}, {Ask("me", <<>>)})
    BY <1>3 DEF SignInLands, AppAsks
  <2>2. OfApp({Ask("me", <<>>)})
    BY AppKinds DEF AppAsks
  <2> QED BY <2>1, <2>2, AnswerKeeps
<1>4. ASSUME NEW c \in calls, SignInFails(c) \/ MeFails(c) PROVE Good'
  <2>1. c.kind \in AppAsks /\ calls' = calls \ {c}
    BY <1>4 DEF SignInFails, MeFails, AppAsks
  <2>2. CASE screen' = screen
    BY <2>1, <2>2, NothingAsked, AnswerKeeps
  <2>3. CASE screen' # screen
    <3>1. screen.at \in {"login", "loading"}
          /\ ((\E m : screen' = [screen EXCEPT !.message = m]) \/ screen' = Plain("login"))
      BY <1>4, <2>3 DEF SignInFails, MeFails
    <3>2. "at" \in DOMAIN screen' /\ screen'.at \in {"login", "loading"}
      BY <1>0, <3>1 DEF Plain
    <3>3. Bare(calls)
      BY <3>1, NoScreenNoCalls
    <3>4. Bare(calls')
      BY <2>1, <3>3 DEF Bare, CallShapes
    <3> QED BY <3>2, <3>4, QuietScreen
  <2> QED BY <2>2, <2>3
<1>5. ASSUME NEW c \in calls, NEW who \in Users, MeLands(c, who) PROVE Good'
  <2>1. c.kind \in AppAsks /\ CallShapes(calls \ {c})
    BY <1>0, <1>5 DEF MeLands, AppAsks, CallShapes
  <2>2. OfApp({Ask("list", <<>>)})
    BY AppKinds DEF AppAsks
  <2>3. CASE user = "none"
    <3>1. Mount(Opened(screen.back, who), calls \ {c}, {Ask("list", <<>>)})
      BY <1>5, <2>3 DEF MeLands
    <3> QED BY <2>1, <2>2, <3>1, SectionOpens, MountKeeps
  <2>4. CASE user # "none"
    <3>1. screen' = screen /\ calls' = Send(calls \ {c}, {Ask("list", <<>>)})
      BY <1>5, <2>4 DEF MeLands
    <3> QED BY <2>1, <2>2, <3>1, AnswerKeeps
  <2> QED BY <2>3, <2>4
<1> QED BY <1>1, <1>2, <1>3, <1>4, <1>5

LEMMA ActivateKeeps ==
  ASSUME Good, NEW k, NEW cs, CallShapes(cs), Alike(calls, cs), Activate(k, cs)
  PROVE  Good'
<1>1. CASE screen.at \in {"home", "board"} /\ k # active
  <2>1. Mount(HomeOf(k), cs, {})
    BY <1>1 DEF Activate
  <2> QED BY <2>1, HomeOpens, MountKeeps DEF OfApp
<1>2. CASE ~(screen.at \in {"home", "board"} /\ k # active)
  <2>1. screen' = screen /\ calls' = cs
    BY <1>2 DEF Activate
  <2> QED BY <2>1, AlikeKeeps DEF Good
<1> QED BY <1>1, <1>2

LEMMA AlikeSelf ==
  ASSUME NEW cs, CallShapes(cs)
  PROVE  Alike(cs, cs)
BY DEF Alike, Same

\* The tabs and the dashboards.
LEMMA SectionsKeep ==
  ASSUME Good,
         \/ OpenSection \/ ToggleBuilding \/ CreateDashboard \/ DeleteDashboard
         \/ \E k : PickDashboard(k)
         \/ \E c \in calls : \/ \E rows : ListLands(c, rows)
                             \/ \E k : CreationLands(c, k)
                             \/ ListFails(c) \/ CreationFails(c)
                             \/ DeletionLands(c) \/ DeletionFails(c)
  PROVE  Good'
<1>0. CallShapes(calls)
  BY DEF Good, GoodFor
<1>1. CASE OpenSection
  <2>1. PICK section : GoTo(section)
    BY <1>1 DEF OpenSection
  <2>2. Mount(Opened(section, user), calls, {})
    BY <2>1 DEF GoTo
  <2> QED BY <1>0, <2>2, SectionOpens, MountKeeps DEF OfApp
<1>2. CASE ToggleBuilding
  <2>1. \/ Mount(C!OpenBoard(active), calls, {})
        \/ Mount([to |-> Plain("home"), asks |-> {}], calls, {})
        \/ Mount([to |-> Plain("builder"), asks |-> {}], calls, {})
    BY <1>2 DEF ToggleBuilding
  <2>2. Opens([to |-> Plain("home"), asks |-> {}]) /\ Opens([to |-> Plain("builder"), asks |-> {}])
    BY PlainOpens
  <2> QED BY <1>0, <2>1, <2>2, BoardOpens, MountKeeps DEF OfApp
<1>3. CASE CreateDashboard \/ DeleteDashboard
  <2>1. screen' = screen /\ \E k \in AppAsks : calls' = T!Send(calls, {Ask(k, <<>>)})
    BY <1>3 DEF CreateDashboard, DeleteDashboard, T!Act, AppAsks
  <2> QED BY <2>1, AppKinds, AskKeeps
<1>4. ASSUME NEW k, PickDashboard(k) PROVE Good'
  BY <1>0, <1>4, AlikeSelf, ActivateKeeps DEF PickDashboard
<1>5. ASSUME NEW c \in calls, NEW rows, ListLands(c, rows) PROVE Good'
  <2>1. c.kind \in AppAsks /\ \E k : Activate(k, calls \ {c})
    BY <1>5 DEF ListLands, AppAsks
  <2>2. CallShapes(calls \ {c}) /\ Alike(calls, calls \ {c})
    BY <1>0, <2>1, KindsApart, AppAnswered
  <2> QED BY <2>1, <2>2, ActivateKeeps
<1>6. ASSUME NEW c \in calls, ListFails(c) \/ CreationFails(c) \/ DeletionFails(c) PROVE Good'
  <2>1. c.kind \in AppAsks /\ screen' = screen /\ calls' = calls \ {c}
    BY <1>6 DEF ListFails, CreationFails, DeletionFails, AppAsks
  <2> QED BY <2>1, NothingAsked, AnswerKeeps
<1>7. ASSUME NEW c \in calls, NEW turn, c.kind \in AppAsks, Opens(turn),
             \/ Mount(turn, calls \ {c}, {Ask("list", <<>>)})
             \/ screen' = screen /\ calls' = Send(calls \ {c}, {Ask("list", <<>>)})
      PROVE  Good'
  <2>1. OfApp({Ask("list", <<>>)})
    BY AppKinds DEF AppAsks
  <2>2. CallShapes(calls \ {c})
    BY <1>0 DEF CallShapes
  <2>3. CASE Mount(turn, calls \ {c}, {Ask("list", <<>>)})
    BY <1>7, <2>1, <2>2, <2>3, MountKeeps
  <2>4. CASE screen' = screen /\ calls' = Send(calls \ {c}, {Ask("list", <<>>)})
    BY <1>7, <2>1, <2>4, AnswerKeeps
  <2> QED BY <1>7, <2>3, <2>4
<1>8. ASSUME NEW c \in calls, NEW k, CreationLands(c, k) PROVE Good'
  <2>1. /\ c.kind \in AppAsks
        /\ \/ Mount(C!OpenBoard(k), calls \ {c}, {Ask("list", <<>>)})
           \/ screen' = screen /\ calls' = Send(calls \ {c}, {Ask("list", <<>>)})
    BY <1>8 DEF CreationLands, AppAsks
  <2> QED BY <1>7, <2>1, BoardOpens
<1>9. ASSUME NEW c \in calls, DeletionLands(c) PROVE Good'
  <2>1. /\ c.kind \in AppAsks
        /\ \/ Mount(HomeOf(""), calls \ {c}, {Ask("list", <<>>)})
           \/ screen' = screen /\ calls' = Send(calls \ {c}, {Ask("list", <<>>)})
    BY <1>9 DEF DeletionLands, AppAsks
  <2> QED BY <1>7, <2>1, HomeOpens
<1> QED BY <1>1, <1>2, <1>3, <1>4, <1>5, <1>6, <1>8, <1>9

-----------------------------------------------------------------------------
(* The tables *)

LEMMA SendNothing ==
  ASSUME NEW cs, CallShapes(cs)
  PROVE  T!Send(cs, {}) = cs /\ C!Send(cs, {}) = cs /\ V!Send(cs, {}) = cs
<1>1. \A new : Sends(cs, {}, new) => new = cs
  BY DEF Sends
<1> QED BY <1>1, SendIs

OnTable(s) == DOMAIN s = TableFields /\ s.at \in {"report", "dataset"}

LEMMA TableOpen ==
  ASSUME Good, screen.at \in {"report", "dataset"}
  PROVE  OnTable(screen)
BY DEF Good, GoodFor, TableGood, OnTable

\* A table that looks for the same, with fewer or the same requests.
LEMMA SameQuery ==
  ASSUME NEW s, NEW cs, GoodFor(s, cs), OnTable(s), NEW t, OnTable(t), NEW new \in SUBSET cs,
         t.at = s.at, t.src = s.src, t.about = s.about, T!Query(t) = T!Query(s),
         \/ t.shown = s.shown /\ t.failed = s.failed
              /\ \A c \in cs : IsNewest(c, "data") => c \in new
         \/ t.shown = T!Query(s) \/ t.failed
  PROVE  GoodFor(t, new)
<1>1. CallShapes(new) /\ AllBelong(t, new)
  BY KindsApart DEF GoodFor, CallShapes, AllBelong, Belongs, OnTable, C!BoardCalls
<1>2. TableGood(t, new)
  BY DEF GoodFor, TableGood, OnTable, T!Ready
<1> QED BY <1>1, <1>2 DEF GoodFor, BoardGood, OnTable, TableFields

\* The effect on the query keeps the table good, whatever was changed.
LEMMA AskedGood ==
  ASSUME NEW cs, GoodFor(screen, cs), OnTable(screen), NEW s, OnTable(s), s.at = screen.at,
         s.shown = screen.shown, s.failed = screen.failed, s.src = screen.src \/ s.at = "report",
         NEW renewed \in BOOLEAN,
         s.about = screen.about \/ (renewed /\ s.at = "dataset" /\ s.about = s.src),
         NEW extra, \A a \in extra : a.kind = "config" /\ s.at = "report",
         NEW new, Sends(cs, T!Asked(s, renewed).asks \cup extra, new)
  PROVE  GoodFor(T!Asked(s, renewed).to, new)
<1> DEFINE turn == T!Asked(s, renewed)
           anew == T!Ready(s) /\ (renewed \/ T!Query(s) # T!Query(screen))
<1> SUFFICES GoodFor(turn.to, new)
  OBVIOUS
<1>1. /\ OnTable(turn.to) /\ turn.to.at = s.at /\ turn.to.src = s.src /\ turn.to.about = s.about
      /\ T!Query(turn.to) = T!Query(s) /\ turn.to.shown = s.shown
      /\ ~anew => turn.asks = {} /\ turn.to.failed = s.failed
      /\ anew => turn.asks = {T!Ask("data", T!Query(s))}
  <2>1. CASE anew
    <3>1. turn.to = [s EXCEPT !.failed = FALSE] /\ turn.asks = {T!Ask("data", T!Query(s))}
      BY <2>1 DEF T!Asked
    <3> QED BY <2>1, <3>1 DEF OnTable, TableFields, T!Query
  <2>2. CASE ~anew
    <3>1. turn.to = s /\ turn.asks = {}
      BY <2>2 DEF T!Asked
    <3> QED BY <2>2, <3>1
  <2> QED BY <2>1, <2>2
<1>2. CallShapes(new)
  BY DEF Sends
<1>3. \A a \in turn.asks : a.kind = "data" /\ a.arg = T!Query(s)
  BY <1>1 DEF T!Ask
<1>4. ASSUME anew PROVE \E a \in turn.asks : a.kind = "data"
  <2>1. T!Ask("data", T!Query(s)) \in turn.asks
    BY <1>1, <1>4
  <2>2. T!Ask("data", T!Query(s)).kind = "data"
    BY DEF T!Ask
  <2> QED BY <2>1, <2>2
<1> HIDE DEF turn
<1>5. AllBelong(turn.to, new)
  <2> SUFFICES ASSUME NEW x \in new PROVE Belongs(turn.to, x)
    BY DEF AllBelong
  <2>1. CASE \E a \in turn.asks \cup extra : x.kind = a.kind
    BY <1>1, <1>3, <2>1, KindsApart DEF Belongs, OnTable, C!BoardCalls, V!ViewCalls
  <2>2. CASE \E c \in cs : x.kind = c.kind /\ x.arg = c.arg
    BY <1>1, <2>2, KindsApart DEF GoodFor, AllBelong, Belongs, OnTable, C!BoardCalls
  <2> QED BY <2>1, <2>2 DEF Sends, turn
<1>6. CASE anew
  <2>1. \A x \in new : IsNewest(x, "data") => x.arg = T!Query(s)
    <3> SUFFICES ASSUME NEW x \in new, IsNewest(x, "data") PROVE x.arg = T!Query(s)
      OBVIOUS
    <3>1. \E a \in turn.asks \cup extra : x.kind = a.kind
      BY <1>4, <1>6 DEF IsNewest
    <3>2. \E a \in turn.asks \cup extra : x.kind = a.kind /\ x.arg = a.arg
      BY <3>1 DEF Sends, turn, IsNewest
    <3> QED BY <1>3, <3>2 DEF IsNewest
  <2>2. \E x \in new : IsNewest(x, "data")
    BY <1>3, <1>4, <1>6 DEF Sends, turn
  <2>3. ~(s.at = "dataset" /\ s.about = "")
    BY <1>6 DEF T!Ready
  <2>4. s.at = "dataset" /\ s.about # "" => s.src # ""
    BY DEF GoodFor, TableGood, OnTable
  <2>5. TableGood(turn.to, new)
    BY <1>1, <2>1, <2>2, <2>3, <2>4 DEF TableGood, OnTable
  <2> QED BY <1>1, <1>2, <1>5, <2>5 DEF GoodFor, BoardGood, OnTable, TableFields
<1>7. CASE ~anew
  <2>1. \A x : x.kind = "data" => (x \in new <=> x \in cs)
    BY <1>1, <1>7 DEF Sends, turn
  <2>2. TableGood(screen, cs)
    BY DEF GoodFor
  <2>3. CASE T!Ready(s)
    <3>1. T!Query(s) = T!Query(screen) /\ s.about = screen.about
      BY <1>7, <2>3
    <3>2. T!Ready(screen)
      BY <2>3, <3>1 DEF T!Ready
    <3>3. s.at = "dataset" => s.src = screen.src
      OBVIOUS
    <3> HIDE DEF anew
    <3>4. TableGood(turn.to, new)
      BY <1>1, <1>7, <2>1, <2>2, <2>3, <3>1, <3>2, <3>3 DEF TableGood, OnTable, IsNewest
    <3> QED BY <1>1, <1>2, <1>5, <3>4 DEF GoodFor, BoardGood, OnTable, TableFields
  <2>4. CASE ~T!Ready(s)
    <3>1. s.at = "dataset" /\ s.about = ""
      BY <2>4 DEF T!Ready, OnTable
    <3>2. screen.about = ""
      BY <2>2, <3>1 DEF TableGood
    <3> HIDE DEF anew
    <3>3. TableGood(turn.to, new)
      BY <1>1, <2>1, <2>2, <3>1, <3>2 DEF TableGood, OnTable, IsNewest, T!Ready
    <3> QED BY <1>1, <1>2, <1>5, <3>3 DEF GoodFor, BoardGood, OnTable, TableFields
  <2> QED BY <2>3, <2>4
<1> QED BY <1>6, <1>7

\* What the debounce, a page, a sort, filters or another view do.
LEMMA RequeryKeeps ==
  ASSUME Good, OnTable(screen), NEW s, OnTable(s), s.at = screen.at, s.about = screen.about,
         s.shown = screen.shown, s.failed = screen.failed, s.src = screen.src \/ s.at = "report",
         NEW renewed \in BOOLEAN, NEW extra, \A a \in extra : a.kind = "config" /\ s.at = "report",
         screen' = T!Asked(s, renewed).to,
         calls' = T!Send(calls, T!Asked(s, renewed).asks \cup extra)
  PROVE  Good'
<1>1. GoodFor(screen, calls) /\ CallShapes(calls)
  BY DEF Good, GoodFor
<1>2. Sends(calls, T!Asked(s, renewed).asks \cup extra, calls')
  BY <1>1, SendIs
<1>3. GoodFor(screen', calls')
  BY <1>1, <1>2, AskedGood
<1> QED BY <1>3 DEF Good

LEMMA TableStepsKeep ==
  ASSUME Good, T!TableStep \/ T!Debounced
  PROVE  Good'
<1>0. CallShapes(calls) /\ OnTable(screen) /\ screen.at \in {"report", "dataset"}
  <2>1. screen.at \in {"report", "dataset"}
    BY DEF T!TableStep, T!Debounced, T!TypeSearch, T!TurnPage, T!ToggleSort, T!ApplyFilters,
           T!PickView, T!PickDataset, T!OnTable
  <2> QED BY <2>1, TableOpen DEF Good, GoodFor
<1>1. ASSUME NEW t, T!TypeSearch(t) PROVE Good'
  <2> DEFINE s == [screen EXCEPT !.typed = t, !.timer = TRUE]
  <2>1. screen' = s /\ calls' = T!Send(calls, {})
    BY <1>1 DEF T!TypeSearch, T!Act
  <2>2. /\ OnTable(s) /\ s.at = screen.at /\ s.src = screen.src /\ s.about = screen.about
        /\ T!Query(s) = T!Query(screen) /\ s.shown = screen.shown /\ s.failed = screen.failed
    BY <1>0 DEF OnTable, TableFields, T!Query
  <2> HIDE DEF s
  <2>3. GoodFor(s, calls)
    BY <1>0, <2>2, SameQuery DEF Good
  <2> QED BY <1>0, <2>1, <2>3, SendNothing DEF Good
<1>2. CASE T!Debounced
  <2> DEFINE s == [screen EXCEPT !.search = screen.typed, !.timer = FALSE, !.fresh = FALSE, !.page = 1]
             renewed == screen.fresh = TRUE
             extra == {}
  <2>1. screen' = T!Asked(s, screen.fresh).to /\ calls' = T!Send(calls, T!Asked(s, screen.fresh).asks \cup extra)
    BY <1>2 DEF T!Debounced, T!Turn
  <2>2. T!Asked(s, screen.fresh) = T!Asked(s, renewed)
    BY DEF T!Asked
  <2>3. /\ OnTable(s) /\ s.at = screen.at /\ s.src = screen.src /\ s.about = screen.about
        /\ s.shown = screen.shown /\ s.failed = screen.failed
    BY <1>0 DEF OnTable, TableFields
  <2>4. renewed \in BOOLEAN /\ \A a \in extra : a.kind = "config" /\ s.at = "report"
    OBVIOUS
  <2> HIDE DEF s, renewed, extra
  <2> QED BY <1>0, <2>1, <2>2, <2>3, <2>4, RequeryKeeps
<1>3. ASSUME NEW s, OnTable(s), s.at = screen.at, s.src = screen.src, s.about = screen.about,
             s.shown = screen.shown, s.failed = screen.failed, NEW renewed \in BOOLEAN, T!Requery(s, renewed)
      PROVE  Good'
  <2> DEFINE extra == {}
  <2>1. screen' = T!Asked(s, renewed).to /\ calls' = T!Send(calls, T!Asked(s, renewed).asks \cup extra)
    BY <1>3 DEF T!Requery, T!Act
  <2>2. \A a \in extra : a.kind = "config" /\ s.at = "report"
    OBVIOUS
  <2> HIDE DEF extra
  <2> QED BY <1>0, <1>3, <2>1, <2>2, RequeryKeeps
<1>4. ASSUME NEW p, T!TurnPage(p) PROVE Good'
  <2> DEFINE s == [screen EXCEPT !.page = p]
  <2>1. /\ OnTable(s) /\ s.at = screen.at /\ s.src = screen.src /\ s.about = screen.about
        /\ s.shown = screen.shown /\ s.failed = screen.failed
    BY <1>0 DEF OnTable, TableFields
  <2>2. T!Requery(s, FALSE)
    BY <1>4 DEF T!TurnPage
  <2> HIDE DEF s
  <2> QED BY <1>3, <2>1, <2>2
<1>5. ASSUME NEW c, T!ToggleSort(c) PROVE Good'
  <2> DEFINE s == [screen EXCEPT !.sort = c, !.page = IF screen.at = "dataset" THEN 1 ELSE @]
  <2>1. /\ OnTable(s) /\ s.at = screen.at /\ s.src = screen.src /\ s.about = screen.about
        /\ s.shown = screen.shown /\ s.failed = screen.failed
    BY <1>0 DEF OnTable, TableFields
  <2>2. T!Requery(s, FALSE)
    BY <1>5 DEF T!ToggleSort
  <2> HIDE DEF s
  <2> QED BY <1>3, <2>1, <2>2
<1>6. ASSUME NEW f, T!ApplyFilters(f) PROVE Good'
  <2> DEFINE s == [screen EXCEPT !.applied = f, !.page = 1]
             renewed == f # ""
  <2>1. /\ OnTable(s) /\ s.at = screen.at /\ s.src = screen.src /\ s.about = screen.about
        /\ s.shown = screen.shown /\ s.failed = screen.failed
    BY <1>0 DEF OnTable, TableFields
  <2>2. T!Requery(s, renewed) /\ renewed \in BOOLEAN
    BY <1>6 DEF T!ApplyFilters
  <2> HIDE DEF s, renewed
  <2> QED BY <1>3, <2>1, <2>2
<1>7. ASSUME NEW k, T!PickView(k) PROVE Good'
  <2> DEFINE s == [screen EXCEPT !.src = k]
             extra == {T!Ask("config", <<k>>)}
  <2>1. /\ screen.at = "report" /\ screen' = T!Asked(s, FALSE).to
        /\ calls' = T!Send(calls, T!Asked(s, FALSE).asks \cup extra)
    BY <1>7 DEF T!PickView, T!Act
  <2>2. /\ OnTable(s) /\ s.at = screen.at /\ s.about = screen.about
        /\ s.shown = screen.shown /\ s.failed = screen.failed
    BY <1>0 DEF OnTable, TableFields
  <2>3. \A a \in extra : a.kind = "config" /\ s.at = "report"
    BY <2>1, <2>2 DEF T!Ask
  <2> HIDE DEF s, extra
  <2> QED BY <1>0, <2>1, <2>2, <2>3, RequeryKeeps
<1>8. ASSUME NEW k, T!PickDataset(k) PROVE Good'
  <2> DEFINE cs == T!Without(calls, T!TableCalls)
             turn == T!OpenDataset(k)
  <2>1. screen.at = "dataset" /\ screen' = turn.to /\ calls' = T!Send(cs, turn.asks)
    BY <1>8 DEF T!PickDataset, T!Act
  <2>2. Bare(cs)
    BY <2>1, KindsApart DEF Bare, T!Without, Good, GoodFor, CallShapes, AllBelong, Belongs, T!TableCalls,
                            C!BoardCalls, V!ViewCalls
  <2>3. Sends(cs, turn.asks \cup {}, calls')
    BY <2>1, <2>2, SendIs DEF Bare
  <2>4. Opens(turn)
    BY DatasetOpens
  <2> HIDE DEF cs, turn
  <2>5. GoodFor(turn.to, calls')
    BY <2>2, <2>3, <2>4, NothingAsked DEF Opens
  <2> QED BY <2>1, <2>5 DEF Good
<1> QED BY <1>1, <1>2, <1>4, <1>5, <1>6, <1>7, <1>8 DEF T!TableStep

\* An answer shows what was asked last, or is dropped.
LEMMA TableAnswersKeep ==
  ASSUME Good, NEW c \in calls, NEW ok \in BOOLEAN, T!TableLands(c, ok)
  PROVE  Good'
<1> DEFINE cs == calls \ {c}
<1>0. /\ CallShapes(calls) /\ CallShapes(cs) /\ OnTable(screen) /\ T!Send(cs, {}) = cs
      /\ GoodFor(screen, calls) /\ cs \in SUBSET calls
  <2>1. c.kind \in {"data", "config", "schema"}
    BY DEF T!TableLands, T!DataLands, T!ConfigLands, T!SchemaLands
  <2>2. screen.at \in {"report", "dataset"}
    BY <2>1 DEF Good, GoodFor, AllBelong, Belongs
  <2>3. CallShapes(calls) /\ CallShapes(cs)
    BY DEF Good, GoodFor, CallShapes
  <2> QED BY <2>2, <2>3, TableOpen, SendNothing DEF Good
<1>1. CASE T!DataLands(c, ok)
  <2>1. c.kind = "data" /\ calls' = T!Send(cs, {})
    BY <1>1 DEF T!DataLands, T!Turn
  <2>2. CASE ~c.newest
    <3>1. screen' = screen
      BY <1>1, <2>2 DEF T!DataLands, T!Turn
    <3>2. \A x \in calls : IsNewest(x, "data") => x \in cs
      BY <2>2 DEF IsNewest
    <3> HIDE DEF cs
    <3>3. GoodFor(screen, cs)
      BY <1>0, <3>2, SameQuery
    <3> QED BY <1>0, <2>1, <3>1, <3>3 DEF Good
  <2>3. CASE c.newest /\ ok
    <3> DEFINE s == [screen EXCEPT !.shown = c.arg]
    <3>1. screen' = s
      BY <1>1, <2>3 DEF T!DataLands, T!Turn
    <3>2. c.arg = T!Query(screen)
      BY <1>0, <2>1, <2>3 DEF GoodFor, TableGood, OnTable, IsNewest
    <3>3. /\ OnTable(s) /\ s.at = screen.at /\ s.src = screen.src /\ s.about = screen.about
          /\ T!Query(s) = T!Query(screen) /\ s.shown = T!Query(screen)
      BY <1>0, <3>2 DEF OnTable, TableFields, T!Query
    <3> HIDE DEF s, cs
    <3>4. GoodFor(s, cs)
      BY <1>0, <3>3, SameQuery
    <3> QED BY <1>0, <2>1, <3>1, <3>4 DEF Good
  <2>4. CASE c.newest /\ ~ok
    <3> DEFINE s == [screen EXCEPT !.failed = TRUE]
    <3>1. screen' = s
      BY <1>1, <2>4 DEF T!DataLands, T!Turn
    <3>2. /\ OnTable(s) /\ s.at = screen.at /\ s.src = screen.src /\ s.about = screen.about
          /\ T!Query(s) = T!Query(screen) /\ s.failed
      BY <1>0 DEF OnTable, TableFields, T!Query
    <3> HIDE DEF s, cs
    <3>3. GoodFor(s, cs)
      BY <1>0, <3>2, SameQuery
    <3> QED BY <1>0, <2>1, <3>1, <3>3 DEF Good
  <2> QED BY <2>2, <2>3, <2>4
<1>2. ASSUME c.kind \in {"config", "schema"}
      PROVE  GoodFor(screen, cs) /\ \A x \in calls : IsNewest(x, "data") => x \in cs
  <2>1. \A x \in calls : IsNewest(x, "data") => x \in cs
    BY <1>2 DEF IsNewest
  <2> HIDE DEF cs
  <2> QED BY <1>0, <2>1, SameQuery
<1>3. CASE T!ConfigLands(c, ok)
  <2> DEFINE s == IF ok THEN [screen EXCEPT !.about = c.arg[1]] ELSE screen
  <2>1. c.kind = "config" /\ screen' = s /\ calls' = T!Send(cs, {})
    BY <1>3 DEF T!ConfigLands, T!Turn
  <2>2. screen.at = "report"
    BY <1>0, <2>1 DEF GoodFor, AllBelong, Belongs
  <2>3. /\ OnTable(s) /\ s.at = "report" /\ s.src = screen.src
        /\ T!Query(s) = T!Query(screen) /\ s.shown = screen.shown /\ s.failed = screen.failed
    BY <1>0, <2>2 DEF OnTable, TableFields, T!Query
  <2>4. GoodFor(screen, cs)
    BY <1>2, <2>1
  <2> HIDE DEF s, cs
  <2>5. AllBelong(s, cs)
    BY <2>2, <2>3, <2>4, KindsApart DEF GoodFor, AllBelong, Belongs, C!BoardCalls
  <2>6. TableGood(s, cs)
    BY <2>2, <2>3, <2>4 DEF GoodFor, TableGood, OnTable, T!Ready
  <2>7. GoodFor(s, cs)
    BY <2>3, <2>4, <2>5, <2>6 DEF GoodFor, BoardGood, OnTable, TableFields
  <2> QED BY <1>0, <2>1, <2>7 DEF Good
<1>4. CASE T!SchemaLands(c, ok)
  <2>0. c.kind = "schema" /\ screen.at = "dataset" /\ c.arg[1] = screen.src
    BY <1>0, <1>4 DEF T!SchemaLands, GoodFor, AllBelong, Belongs
  <2>1. CASE ok
    <3> DEFINE s == [screen EXCEPT !.about = c.arg[1], !.sort = FirstSort]
    <3>1. screen' = T!Asked(s, TRUE).to /\ calls' = T!Send(cs, T!Asked(s, TRUE).asks \cup {})
      BY <1>4, <2>1 DEF T!SchemaLands, T!Turn
    <3>2. /\ OnTable(s) /\ s.at = screen.at /\ s.src = screen.src /\ s.about = s.src
          /\ s.shown = screen.shown /\ s.failed = screen.failed
      BY <1>0, <2>0 DEF OnTable, TableFields
    <3>3. GoodFor(screen, cs)
      BY <1>2, <2>0
    <3> HIDE DEF s, cs
    <3>4. Sends(cs, T!Asked(s, TRUE).asks \cup {}, calls')
      BY <1>0, <3>1, SendIs
    <3>5. GoodFor(screen', calls')
      BY <1>0, <2>0, <3>1, <3>2, <3>3, <3>4, AskedGood
    <3> QED BY <3>5 DEF Good
  <2>2. CASE ~ok
    <3> DEFINE s == [screen EXCEPT !.failed = TRUE]
    <3>1. screen' = s /\ calls' = T!Send(cs, {})
      BY <1>4, <2>2 DEF T!SchemaLands, T!Turn
    <3>2. /\ OnTable(s) /\ s.at = screen.at /\ s.src = screen.src /\ s.about = screen.about
          /\ T!Query(s) = T!Query(screen) /\ s.failed
      BY <1>0 DEF OnTable, TableFields, T!Query
    <3> HIDE DEF s, cs
    <3>3. GoodFor(s, cs)
      BY <1>0, <3>2, SameQuery
    <3> QED BY <1>0, <3>1, <3>3 DEF Good
  <2> QED BY <2>1, <2>2
<1> QED BY <1>1, <1>3, <1>4 DEF T!TableLands

-----------------------------------------------------------------------------
(* The views tab *)

IsViews(s) == "at" \in DOMAIN s /\ s.at = "views"
OfViews(asks) == \A a \in asks : a.kind \in V!ViewCalls

LEMMA ViewsTurn ==
  ASSUME Good, IsViews(screen), IsViews(screen'), NEW cs \in SUBSET calls, NEW asks, OfViews(asks),
         calls' = V!Send(cs, asks)
  PROVE  Good'
<1>1. CallShapes(cs)
  BY DEF Good, GoodFor, CallShapes
<1>2. Sends(cs, asks, calls')
  BY <1>1, SendIs
<1>3. \A x \in calls' : x.kind \in V!ViewCalls \/ \E c \in calls : x.kind = c.kind
  BY <1>2 DEF Sends, OfViews
<1>4. \A c \in calls : Belongs(screen, c)
  BY DEF Good, GoodFor, AllBelong
<1>5. ASSUME NEW x \in calls' PROVE Belongs(screen', x)
  BY <1>3, <1>4, KindsApart DEF IsViews, Belongs, V!ViewCalls, C!BoardCalls
<1>6. GoodFor(screen', calls')
  BY <1>2, <1>5 DEF GoodFor, AllBelong, TableGood, BoardGood, IsViews, Sends
<1> QED BY <1>6 DEF Good

LEMMA DraftedIs ==
  ASSUME IsViews(screen), NEW d
  PROVE  IsViews(V!Drafted(d).to) /\ OfViews(V!Drafted(d).asks)
<1> DEFINE other == d.open /\ (~screen.draft.open \/ screen.draft.src # d.src)
           s == [screen EXCEPT !.draft = d, !.schema = IF other THEN "" ELSE @]
<1>1. IsViews(s)
  BY DEF IsViews
<1>2. IsViews([s EXCEPT !.timer = TRUE, !.loading = TRUE, !.preview = <<>>])
  BY <1>1 DEF IsViews
<1>3. IsViews([s EXCEPT !.timer = FALSE])
  BY <1>1 DEF IsViews
<1>4. IsViews(V!Drafted(d).to)
  BY <1>1, <1>2, <1>3 DEF V!Drafted
<1>5. OfViews(V!Drafted(d).asks)
  BY DEF V!Drafted, OfViews, V!Ask, V!ViewCalls
<1> QED BY <1>4, <1>5

LEMMA ViewAsks ==
  OfViews({}) /\ \A k \in V!ViewCalls : \A a : OfViews({V!Ask(k, a)})
BY DEF OfViews, V!Ask

LEMMA ViewStepsKeep ==
  ASSUME Good, V!ViewStep \/ V!MatchesFire
  PROVE  Good'
<1>0. IsViews(screen)
  BY DEF V!ViewStep, V!MatchesFire, V!OpenCreate, V!OpenEdit, V!ChangeDataset, V!ChangeCondition,
         V!ToggleCol, V!CloseDraft, V!SaveView, V!DeleteView, V!Drafting, V!OnViews,
         IsViews, Good, GoodFor
<1>1. ASSUME NEW d, V!Redraft(d) PROVE Good'
  <2>1. screen' = [V!Drafted(d).to EXCEPT !.err = FALSE] /\ calls' = V!Send(calls, V!Drafted(d).asks)
    BY <1>1 DEF V!Redraft, V!Does
  <2>2. IsViews(V!Drafted(d).to) /\ OfViews(V!Drafted(d).asks)
    BY <1>0, DraftedIs
  <2>3. IsViews(screen')
    BY <2>1, <2>2 DEF IsViews
  <2> QED BY <1>0, <2>1, <2>2, <2>3, ViewsTurn
<1>2. CASE V!MatchesFire \/ V!SaveView \/ V!DeleteView
  <2>1. PICK a : \/ calls' = V!Send(calls, {})
                 \/ \E k \in {"matches", "saveView", "deleteView"} : calls' = V!Send(calls, {V!Ask(k, a)})
    BY <1>2 DEF V!MatchesFire, V!SaveView, V!DeleteView, V!Goes, V!Does
  <2>2. IsViews(screen')
    BY <1>0, <1>2 DEF V!MatchesFire, V!SaveView, V!DeleteView, V!Goes, V!Does, IsViews
  <2>3. {"matches", "saveView", "deleteView"} \subseteq V!ViewCalls
    BY DEF V!ViewCalls
  <2> QED BY <1>0, <2>1, <2>2, <2>3, ViewAsks, ViewsTurn
<1>3. CASE \E d : V!Redraft(d)
  BY <1>1, <1>3
<1>4. V!MatchesFire \/ V!SaveView \/ V!DeleteView \/ \E d : V!Redraft(d)
  BY DEF V!ViewStep, V!OpenCreate, V!OpenEdit, V!ChangeDataset, V!ChangeCondition, V!ToggleCol, V!CloseDraft
<1> QED BY <1>2, <1>3, <1>4

LEMMA ViewAnswersKeep ==
  ASSUME Good, NEW c \in calls, NEW ok \in BOOLEAN, V!ViewLands(c, ok)
  PROVE  Good'
<1> DEFINE cs == calls \ {c}
<1>0. IsViews(screen) /\ cs \in SUBSET calls
  <2>1. c.kind \in V!ViewCalls
    BY DEF V!ViewLands, V!MatchesLand, V!ColumnsLand, V!ViewSaved, V!ViewDeleted, V!ViewsLand, V!ViewCalls
  <2> QED BY <2>1 DEF Good, GoodFor, AllBelong, Belongs, IsViews
<1>1. CASE V!MatchesLand(c, ok) \/ V!ViewDeleted(c, ok) \/ V!ViewsLand(c, ok)
  <2>1. calls' = V!Send(cs, {}) \/ \E a : calls' = V!Send(cs, {V!Ask("views", a)})
    BY <1>1 DEF V!MatchesLand, V!ViewDeleted, V!ViewsLand, V!Goes
  <2>2. IsViews(screen')
    BY <1>0, <1>1 DEF V!MatchesLand, V!ViewDeleted, V!ViewsLand, V!Goes, IsViews
  <2>3. "views" \in V!ViewCalls
    BY DEF V!ViewCalls
  <2> HIDE DEF cs
  <2> QED BY <1>0, <2>1, <2>2, <2>3, ViewAsks, ViewsTurn
<1>2. CASE V!ColumnsLand(c, ok)
  <2>1. PICK d : \/ screen' = [V!Drafted(d).to EXCEPT !.schema = c.arg[1]] /\ calls' = V!Send(cs, V!Drafted(d).asks)
                 \/ screen' = [screen EXCEPT !.err = TRUE] /\ calls' = V!Send(cs, {})
    BY <1>2 DEF V!ColumnsLand, V!Goes
  <2>2. IsViews(V!Drafted(d).to) /\ OfViews(V!Drafted(d).asks)
    BY <1>0, DraftedIs
  <2>3. IsViews(screen')
    BY <1>0, <2>1, <2>2 DEF IsViews
  <2> HIDE DEF cs
  <2> QED BY <1>0, <2>1, <2>2, <2>3, ViewAsks, ViewsTurn
<1>3. CASE V!ViewSaved(c, ok)
  <2>1. \/ screen' = V!Drafted(V!NoDraft).to /\ \E a : calls' = V!Send(cs, {V!Ask("views", a)})
        \/ screen' = [screen EXCEPT !.err = TRUE] /\ calls' = V!Send(cs, {})
    BY <1>3 DEF V!ViewSaved, V!Goes
  <2>2. IsViews(V!Drafted(V!NoDraft).to)
    BY <1>0, DraftedIs
  <2>3. IsViews(screen')
    BY <1>0, <2>1, <2>2 DEF IsViews
  <2>4. "views" \in V!ViewCalls
    BY DEF V!ViewCalls
  <2> HIDE DEF cs
  <2> QED BY <1>0, <2>1, <2>3, <2>4, ViewAsks, ViewsTurn
<1> QED BY <1>1, <1>2, <1>3 DEF V!ViewLands

-----------------------------------------------------------------------------
(* A dashboard *)

IsBoard(s) == DOMAIN s = BoardFields /\ s.at = "board" /\ (s.hidden # {} => ~s.drill.open)
NoDesign(cs) == \A c \in cs : c.kind \notin C!DesignCalls
NoDrill(cs) == \A c \in cs : c.kind \notin C!DrillCalls

LEMMA BoardOpen ==
  ASSUME Good, screen.at = "board"
  PROVE  /\ IsBoard(screen)
         /\ screen.editor.open => /\ DOMAIN screen.editor = EditorFields /\ ~screen.drill.open
                                  /\ PreviewGood(screen.editor, calls) /\ NoDrill(calls)
         /\ screen.drill.open => /\ DOMAIN screen.drill = DrillFields /\ ~screen.editor.open
                                 /\ ~screen.drill.raced => DrillGood(screen.drill, calls)
                                 /\ NoDesign(calls)
         /\ ~screen.drill.open => NoDrill(calls)
         /\ ~screen.editor.open => NoDesign(calls)
         /\ CallShapes(calls)
BY DEF Good, GoodFor, BoardGood, IsBoard, AllBelong, Belongs, NoDesign, NoDrill

LEMMA BoardTurn ==
  ASSUME Good, IsBoard(screen), NEW s, IsBoard(s), NEW cs \in SUBSET calls, NEW asks,
         \A a \in asks : a.kind \in C!BoardCalls, NEW new, Sends(cs, asks, new),
         s.editor.open \/ NoDesign(cs \cup asks), s.drill.open \/ NoDrill(cs \cup asks),
         s.editor.open => DOMAIN s.editor = EditorFields /\ ~s.drill.open /\ PreviewGood(s.editor, new),
         s.drill.open => DOMAIN s.drill = DrillFields /\ (~s.drill.raced => DrillGood(s.drill, new))
  PROVE  GoodFor(s, new)
<1>1. \A c \in calls : Belongs(screen, c)
  BY DEF Good, GoodFor, AllBelong
<1>2. ASSUME NEW x \in new PROVE Belongs(s, x)
  <2>1. PICK y \in cs \cup asks : x.kind = y.kind /\ x.arg = y.arg
    BY DEF Sends
  <2>2. x.kind \notin {"data", "config", "schema"} \cup V!ViewCalls
    BY <1>1, <2>1, KindsApart DEF Belongs, IsBoard, C!BoardCalls, V!ViewCalls
  <2>3. x.kind \in C!DesignCalls => s.editor.open
    BY <2>1 DEF NoDesign
  <2>4. x.kind \in C!DrillCalls => s.drill.open
    BY <2>1 DEF NoDrill
  <2> QED BY <2>2, <2>3, <2>4 DEF Belongs, IsBoard, C!BoardCalls, V!ViewCalls
<1>3. BoardGood(s, new)
  BY DEF BoardGood, IsBoard
<1>4. "at" \in DOMAIN s /\ s.at = "board"
  BY DEF IsBoard, BoardFields
<1> QED BY <1>2, <1>3, <1>4 DEF GoodFor, AllBelong, TableGood, Sends

LEMMA PreviewSame ==
  ASSUME NEW e, NEW cs, NEW new, PreviewGood(e, cs),
         \A x : x.kind = "preview" => (x \in new <=> x \in cs)
  PROVE  PreviewGood(e, new)
BY DEF PreviewGood, IsNewest

LEMMA DrillSame ==
  ASSUME NEW d, NEW cs, NEW new, DrillGood(d, cs),
         \A x \in new : x.kind \in C!DrillCalls => x \in cs
  PROVE  DrillGood(d, new)
BY DEF DrillGood, OneDrill

LEMMA NewDrillGood ==
  ASSUME NEW new, NoDrill(new)
  PROVE  DrillGood(C!NewDrill, new) /\ C!NewDrill.open /\ DOMAIN C!NewDrill = DrillFields
<1>1. DrillGood(C!NewDrill, new)
  BY DEF DrillGood, NoDrill, OneDrill, C!NewDrill, C!PathHolds, C!Closed
<1> QED BY <1>1 DEF C!NewDrill, DrillFields

PlainAsks == {"shell", "widget", "unchart", "save"}

\* A designer that has just been drawn.
Anew(e) == e.open /\ DOMAIN e = EditorFields /\ e.schema = ""

\* A step that leaves designer and drill alone, closes or draws them.
LEMMA PlainTurn ==
  ASSUME Good, IsBoard(screen), NEW s, IsBoard(s), NEW cs \in SUBSET calls, NEW asks,
         \A a \in asks : a.kind \in PlainAsks \/ (a.kind = "fields" /\ Anew(s.editor)),
         NEW new, Sends(cs, asks, new),
         \/ s.editor = screen.editor /\ \A c \in calls : c.kind = "preview" => c \in cs
         \/ ~s.editor.open /\ NoDesign(cs)
         \/ Anew(s.editor),
         \/ s.drill = screen.drill
         \/ ~s.drill.open /\ NoDrill(cs)
         \/ s.drill = C!NewDrill /\ NoDrill(cs) /\ ~s.editor.open,
         s.editor.open => ~s.drill.open
  PROVE  GoodFor(s, new)
<1>0. \A x : x.kind \in {"preview"} \cup C!DrillCalls => (x \in new <=> x \in cs)
  BY KindsApart DEF Sends, PlainAsks
<1>1. NoDrill(asks) /\ \A a \in asks : a.kind \in C!BoardCalls
  BY KindsApart DEF NoDrill, PlainAsks, C!BoardCalls
<1>2. screen.at = "board"
  BY DEF IsBoard
<1>3. s.editor.open \/ NoDesign(cs \cup asks)
  BY <1>2, BoardOpen, KindsApart DEF NoDesign, PlainAsks, Anew
<1>4. s.drill.open \/ NoDrill(cs \cup asks)
  BY <1>1, <1>2, BoardOpen DEF NoDrill
<1>5. ASSUME s.editor.open
      PROVE  DOMAIN s.editor = EditorFields /\ ~s.drill.open /\ PreviewGood(s.editor, new)
  <2>1. CASE s.editor = screen.editor /\ \A c \in calls : c.kind = "preview" => c \in cs
    <3>1. \A x : x.kind = "preview" => (x \in new <=> x \in calls)
      BY <1>0, <2>1
    <3>2. DOMAIN screen.editor = EditorFields /\ PreviewGood(screen.editor, calls)
      BY <1>2, <1>5, <2>1, BoardOpen
    <3>3. PreviewGood(screen.editor, new)
      BY <3>1, <3>2, PreviewSame
    <3> QED BY <1>5, <2>1, <3>2, <3>3
  <2>2. CASE Anew(s.editor)
    BY <1>5, <2>2 DEF Anew, PreviewGood, C!Complete
  <2> QED BY <1>5, <2>1, <2>2
<1>6. ASSUME s.drill.open
      PROVE  DOMAIN s.drill = DrillFields /\ (~s.drill.raced => DrillGood(s.drill, new))
  <2>1. CASE s.drill = screen.drill
    <3>1. DOMAIN screen.drill = DrillFields /\ (~screen.drill.raced => DrillGood(screen.drill, calls))
      BY <1>2, <1>6, <2>1, BoardOpen
    <3>2. \A x \in new : x.kind \in C!DrillCalls => x \in calls
      BY <1>0
    <3> QED BY <2>1, <3>1, <3>2, DrillSame
  <2>2. CASE s.drill = C!NewDrill /\ NoDrill(cs)
    <3>1. NoDrill(new)
      BY <1>0, <2>2 DEF NoDrill
    <3> QED BY <2>2, <3>1, NewDrillGood
  <2> QED BY <1>6, <2>1, <2>2
<1> QED BY <1>1, <1>3, <1>4, <1>5, <1>6, BoardTurn

LEMMA CardIs ==
  ASSUME NEW b
  PROVE  \/ C!CardOf(b) = C!NewDrill /\ ~b.editor.open /\ b.hidden = {}
         \/ ~C!CardOf(b).open
BY DEF C!CardOf, C!Closed

LEMMA PlainShow ==
  ASSUME Good, IsBoard(screen), NEW s, IsBoard(s), NEW cs \in SUBSET calls, NEW asks,
         \A a \in asks : a.kind \in PlainAsks \/ (a.kind = "fields" /\ Anew(s.editor)),
         screen' = s, calls' = C!Send(cs, asks),
         \/ s.editor = screen.editor /\ \A c \in calls : c.kind = "preview" => c \in cs
         \/ ~s.editor.open /\ NoDesign(cs)
         \/ Anew(s.editor),
         \/ s.drill = screen.drill
         \/ ~s.drill.open /\ NoDrill(cs)
         \/ s.drill = C!NewDrill /\ NoDrill(cs) /\ ~s.editor.open,
         s.editor.open => ~s.drill.open
  PROVE  Good'
<1>1. CallShapes(cs)
  BY DEF Good, GoodFor, CallShapes
<1>2. Sends(cs, asks, calls')
  BY <1>1, SendIs
<1>3. GoodFor(s, calls')
  BY <1>2, PlainTurn
<1> QED BY <1>3 DEF Good

\* What a turn of the dashboard may do to designer and drill.
TurnOf(b, to, asks) ==
  /\ IsBoard(to)
  /\ \/ to.editor = b.editor
     \/ Anew(to.editor) /\ ~to.drill.open /\ ~b.drill.open
  /\ \/ to.drill = b.drill
     \/ ~b.drill.open /\ \/ to.drill = C!NewDrill /\ ~to.editor.open
                         \/ ~to.drill.open
  /\ \A a \in asks : a.kind \in PlainAsks \/ (a.kind = "fields" /\ Anew(to.editor))

LEMMA DrawingIs ==
  ASSUME NEW b, IsBoard(b), NEW asks, \A a \in asks : a.kind \in PlainAsks
  PROVE  LET turn == C!Drawing(b, asks) IN TurnOf(b, turn.to, turn.asks)
<1>1. CASE b.hidden = {}
  <2>1. C!Drawing(b, asks).to = b /\ C!Drawing(b, asks).asks = asks
    BY <1>1 DEF C!Drawing
  <2> QED BY <2>1 DEF TurnOf
<1>2. CASE b.hidden # {}
  <2> DEFINE e == C!NewEditor(TRUE \in b.hidden, C!FirstSource)
             s == [b EXCEPT !.editor = e, !.drill = C!Closed, !.hidden = {}]
             new == asks \cup {C!Ask("fields", <<C!FirstSource>>)}
  <2>1. C!Drawing(b, asks).to = s /\ C!Drawing(b, asks).asks = new
    BY <1>2 DEF C!Drawing
  <2>2. Anew(e)
    BY DEF Anew, C!NewEditor, EditorFields
  <2>3. \A a \in new : a.kind \in PlainAsks \/ a.kind = "fields"
    BY DEF C!Ask
  <2> HIDE DEF e, new
  <2>4. IsBoard(s) /\ s.editor = e /\ s.drill = C!Closed /\ ~s.drill.open
    BY DEF IsBoard, BoardFields, C!Closed
  <2>5. ~b.drill.open
    BY <1>2 DEF IsBoard
  <2> HIDE DEF s
  <2> QED BY <2>1, <2>2, <2>3, <2>4, <2>5 DEF TurnOf
<1> QED BY <1>1, <1>2

LEMMA ReloadIs ==
  ASSUME NEW b, IsBoard(b)
  PROVE  LET turn == C!Reload(b) IN TurnOf(b, turn.to, turn.asks)
<1> DEFINE r == [b EXCEPT !.failed = FALSE]
           d == IF r.drill.open THEN r.drill ELSE C!CardOf(r)
           s == [r EXCEPT !.drill = d]
           asks == {C!Ask("shell", <<b.src>>)}
           turn == C!Drawing(s, asks)
<1>1. IsBoard(r) /\ r.editor = b.editor /\ r.drill = b.drill /\ r.hidden = b.hidden
  BY DEF IsBoard, BoardFields
<1>2. C!Reload(b) = turn
  BY DEF C!Reload
<1>3. \A a \in asks : a.kind \in PlainAsks
  BY DEF C!Ask, PlainAsks
<1>4. r.hidden # {} => ~C!CardOf(r).open
  BY DEF C!CardOf, C!Closed
<1> HIDE DEF r, asks
<1>5. IsBoard(s) /\ s.editor = b.editor /\ s.drill = d /\ s.hidden = b.hidden
  BY <1>1, <1>4 DEF IsBoard, BoardFields
<1>6. \/ d = b.drill
      \/ ~b.drill.open /\ (~d.open \/ (d = C!NewDrill /\ ~s.editor.open))
  <2>1. (C!CardOf(r) = C!NewDrill /\ ~r.editor.open) \/ ~C!CardOf(r).open
    BY CardIs
  <2> HIDE DEF s
  <2> QED BY <1>1, <1>5, <2>1
<1> HIDE DEF s, d
<1>7. TurnOf(s, turn.to, turn.asks)
  BY <1>3, <1>5, DrawingIs
<1> HIDE DEF turn
<1> QED BY <1>2, <1>5, <1>6, <1>7 DEF TurnOf, C!NewDrill

\* Where no designer was hidden, none is drawn.
LEMMA ReloadShut ==
  ASSUME NEW b, IsBoard(b), b.hidden = {}
  PROVE  C!Reload(b).to.editor = b.editor
<1> DEFINE r == [b EXCEPT !.failed = FALSE]
           s == [r EXCEPT !.drill = IF r.drill.open THEN r.drill ELSE C!CardOf(r)]
<1>1. s.hidden = {} /\ s.editor = b.editor
  BY DEF IsBoard, BoardFields
<1>2. C!Reload(b) = C!Drawing(s, {C!Ask("shell", <<b.src>>)})
  BY DEF C!Reload
<1> HIDE DEF s
<1> QED BY <1>1, <1>2 DEF C!Drawing

LEMMA ShellKeeps ==
  ASSUME Good, NEW c \in calls, NEW ok \in BOOLEAN, C!ShellLands(c, ok), IsBoard(screen)
  PROVE  Good'
<1>1. CASE ~ok
  <2> DEFINE s == [screen EXCEPT !.failed = TRUE, !.drill = C!Closed, !.editor = C!Closed,
                                 !.hidden = IF screen.editor.open THEN {screen.editor.existing} ELSE @]
             cs == C!Without(calls \ {c}, C!DrillCalls \cup C!DesignCalls)
  <2>1. screen' = s /\ calls' = C!Send(cs, {})
    BY <1>1 DEF C!ShellLands, C!Show
  <2>2. IsBoard(s) /\ ~s.editor.open /\ ~s.drill.open
    BY DEF IsBoard, BoardFields, C!Closed
  <2>3. cs \in SUBSET calls /\ NoDesign(cs) /\ NoDrill(cs)
    BY DEF C!Without, NoDesign, NoDrill
  <2>4. \A a \in {} : a.kind \in PlainAsks
    OBVIOUS
  <2> HIDE DEF s, cs
  <2> QED BY <2>1, <2>2, <2>3, <2>4, PlainShow
<1>2. CASE ok
  <2> DEFINE cs == C!Without(calls \ {c}, C!DrillCalls)
  <2>1. PICK ws \in SUBSET Widgets :
          LET b == [screen EXCEPT !.shell = ws, !.loaded = TRUE, !.data = {}, !.pending = ws]
              asks == {C!Ask("widget", <<w>>) : w \in ws}
              turn == IF b.failed THEN [to |-> b, asks |-> asks] ELSE C!Drawing(b, asks)
          IN  screen' = [turn.to EXCEPT !.drill = C!CardOf(turn.to)] /\ calls' = C!Send(cs, turn.asks)
    BY <1>2 DEF C!ShellLands, C!Show
  <2> DEFINE b == [screen EXCEPT !.shell = ws, !.loaded = TRUE, !.data = {}, !.pending = ws]
             asks == {C!Ask("widget", <<w>>) : w \in ws}
             turn == IF b.failed THEN [to |-> b, asks |-> asks] ELSE C!Drawing(b, asks)
             t == turn.to
             s == [t EXCEPT !.drill = C!CardOf(t)]
  <2>2. IsBoard(b) /\ b.editor = screen.editor
    BY DEF IsBoard, BoardFields
  <2>3. screen' = s /\ calls' = C!Send(cs, turn.asks)
    BY <2>1
  <2>4. \A a \in asks : a.kind \in PlainAsks
    BY DEF C!Ask, PlainAsks
  <2>5. cs \in SUBSET calls /\ NoDrill(cs) /\ \A x \in calls : x.kind = "preview" => x \in cs
    <3>1. c.kind # "preview"
      BY DEF C!ShellLands
    <3> QED BY <3>1, KindsApart DEF C!Without, NoDrill
  <2> HIDE DEF b, cs, asks
  <2>6. TurnOf(b, turn.to, turn.asks)
    BY <2>2, <2>4, DrawingIs DEF TurnOf
  <2>7. t.hidden # {} => ~C!CardOf(t).open
    BY DEF C!CardOf, C!Closed
  <2> HIDE DEF turn
  <2>8. IsBoard(s) /\ s.editor = t.editor /\ s.drill = C!CardOf(t)
    BY <2>6, <2>7 DEF TurnOf, IsBoard, BoardFields
  <2>9. (C!CardOf(t) = C!NewDrill /\ ~t.editor.open) \/ ~C!CardOf(t).open
    BY CardIs
  <2>10. s.editor = screen.editor \/ Anew(s.editor)
    BY <2>2, <2>6, <2>8 DEF TurnOf
  <2>11. \A a \in turn.asks : a.kind \in PlainAsks \/ (a.kind = "fields" /\ Anew(s.editor))
    BY <2>6, <2>8 DEF TurnOf
  <2> HIDE DEF s, t
  <2>12. s.editor.open => ~s.drill.open
    BY <2>8, <2>9
  <2>13. \/ ~s.drill.open
         \/ s.drill = C!NewDrill /\ ~s.editor.open
    BY <2>8, <2>9
  <2> QED BY <2>3, <2>5, <2>8, <2>10, <2>11, <2>12, <2>13, PlainShow
<1> QED BY <1>1, <1>2

LEMMA BoardAsksKeep ==
  ASSUME Good, IsBoard(screen),
         \/ C!Save \/ C!Cancel \/ \E w : C!RemoveChart(w)
         \/ \E c \in calls, ok \in BOOLEAN : C!RemovalLands(c, ok) \/ C!SaveLands(c, ok)
  PROVE  Good'
<1>0. screen.at = "board"
  BY DEF IsBoard
<1>1. CASE C!Save \/ \E w : C!RemoveChart(w)
  <2>1. \E k \in PlainAsks : \E a : screen' = screen /\ calls' = C!Send(calls, {C!Ask(k, a)})
    BY <1>1 DEF C!Save, C!RemoveChart, C!Use, PlainAsks
  <2>2. screen.editor.open => ~screen.drill.open
    BY <1>0, BoardOpen
  <2>3. \A k \in PlainAsks : \A a : \A x \in {C!Ask(k, a)} : x.kind \in PlainAsks
    BY DEF C!Ask
  <2> QED BY <2>1, <2>2, <2>3, PlainShow
<1>2. CASE C!Cancel
  <2> DEFINE b == [screen EXCEPT !.editor = C!Closed]
             s == [b EXCEPT !.drill = C!CardOf(b)]
             cs == C!Without(calls, C!DesignCalls)
  <2>1. screen.editor.open /\ screen' = s /\ calls' = C!Send(cs, {})
    BY <1>2 DEF C!Cancel, C!Designing, C!Use
  <2>2. IsBoard(b) /\ b.editor = C!Closed
    BY DEF IsBoard, BoardFields
  <2>3. cs \in SUBSET calls /\ NoDesign(cs) /\ NoDrill(cs)
    BY <1>0, <2>1, BoardOpen DEF C!Without, NoDesign, NoDrill
  <2>4. ~C!Closed.open
    BY DEF C!Closed
  <2> HIDE DEF b, cs
  <2>5. IsBoard(s) /\ s.editor = C!Closed /\ s.drill = C!CardOf(b)
    BY <2>2, CardIs DEF IsBoard, BoardFields
  <2> HIDE DEF s
  <2>6. s.drill = C!NewDrill \/ ~s.drill.open
    BY <2>5, CardIs
  <2>7. \A a \in {} : a.kind \in PlainAsks
    OBVIOUS
  <2> QED BY <2>1, <2>3, <2>4, <2>5, <2>6, <2>7, PlainShow
<1>3. ASSUME NEW c \in calls, c.kind \in {"unchart", "save"}, screen' = screen, calls' = C!Send(calls \ {c}, {})
      PROVE  Good'
  <2> DEFINE cs == calls \ {c}
  <2>1. cs \in SUBSET calls /\ \A x \in calls : x.kind = "preview" => x \in cs
    BY <1>3
  <2>2. screen.editor.open => ~screen.drill.open
    BY <1>0, BoardOpen
  <2>3. \A a \in {} : a.kind \in PlainAsks
    OBVIOUS
  <2> HIDE DEF cs
  <2> QED BY <1>3, <2>1, <2>2, <2>3, PlainShow DEF cs
<1>4. ASSUME NEW c \in calls, NEW ok \in BOOLEAN, C!RemovalLands(c, ok)
      PROVE  Good'
  <2> DEFINE turn == C!Reload(screen)
             cs == calls \ {c}
  <2>1. c.kind = "unchart" /\ \/ screen' = turn.to /\ calls' = C!Send(cs, turn.asks)
                              \/ screen' = screen /\ calls' = C!Send(cs, {})
    BY <1>4 DEF C!RemovalLands, C!Show
  <2>2. CASE screen' = turn.to /\ calls' = C!Send(cs, turn.asks)
    <3>1. TurnOf(screen, turn.to, turn.asks)
      BY ReloadIs
    <3>2. cs \in SUBSET calls /\ \A x \in calls : x.kind = "preview" => x \in cs
      BY <2>1
    <3>3. ~screen.drill.open => NoDrill(cs)
      BY <1>0, BoardOpen DEF NoDrill
    <3>4. screen.editor.open => ~screen.drill.open
      BY <1>0, BoardOpen
    <3> HIDE DEF turn, cs
    <3>5. turn.to.editor.open => ~turn.to.drill.open
      BY <3>1, <3>4 DEF TurnOf
    <3>6. \/ turn.to.drill = screen.drill
          \/ ~turn.to.drill.open /\ NoDrill(cs)
          \/ turn.to.drill = C!NewDrill /\ NoDrill(cs) /\ ~turn.to.editor.open
      BY <3>1, <3>3 DEF TurnOf
    <3>7. turn.to.editor = screen.editor \/ Anew(turn.to.editor)
      BY <3>1 DEF TurnOf
    <3>8. /\ IsBoard(turn.to)
          /\ \A a \in turn.asks : a.kind \in PlainAsks \/ (a.kind = "fields" /\ Anew(turn.to.editor))
      BY <3>1 DEF TurnOf
    <3> QED BY <2>2, <3>2, <3>5, <3>6, <3>7, <3>8, PlainShow
  <2> QED BY <1>3, <2>1, <2>2
<1>5. ASSUME NEW c \in calls, NEW ok \in BOOLEAN, C!SaveLands(c, ok)
      PROVE  Good'
  <2> DEFINE b == [screen EXCEPT !.editor = C!Closed, !.hidden = {}]
             turn == C!Reload(b)
             cs == C!Without(calls \ {c}, C!DesignCalls)
  <2>1. c.kind = "save" /\ \/ screen' = turn.to /\ calls' = C!Send(cs, turn.asks)
                           \/ screen' = screen /\ calls' = C!Send(calls \ {c}, {})
    BY <1>5 DEF C!SaveLands, C!Show
  <2>2. CASE screen' = turn.to /\ calls' = C!Send(cs, turn.asks)
    <3>1. IsBoard(b) /\ b.editor = C!Closed /\ b.drill = screen.drill /\ b.hidden = {}
      BY DEF IsBoard, BoardFields
    <3>2. TurnOf(b, turn.to, turn.asks)
      BY <3>1, ReloadIs
    <3>3. turn.to.editor = C!Closed
      BY <3>1, ReloadShut
    <3>4. cs \in SUBSET calls /\ NoDesign(cs)
      BY DEF C!Without, NoDesign
    <3>5. ~screen.drill.open => NoDrill(cs)
      BY <1>0, BoardOpen DEF NoDrill, C!Without
    <3>6. ~C!Closed.open
      BY DEF C!Closed
    <3> HIDE DEF turn, cs, b
    <3>7. \/ turn.to.drill = screen.drill
          \/ ~turn.to.drill.open /\ NoDrill(cs)
          \/ turn.to.drill = C!NewDrill /\ NoDrill(cs) /\ ~turn.to.editor.open
      BY <3>1, <3>2, <3>5 DEF TurnOf
    <3>8. /\ IsBoard(turn.to)
          /\ \A a \in turn.asks : a.kind \in PlainAsks \/ (a.kind = "fields" /\ Anew(turn.to.editor))
      BY <3>2 DEF TurnOf
    <3> QED BY <2>2, <3>3, <3>4, <3>6, <3>7, <3>8, PlainShow
  <2> QED BY <1>3, <2>1, <2>2
<1> QED BY <1>1, <1>2, <1>4, <1>5

\* A step of the chart that is drilled into.
LEMMA DrillShow ==
  ASSUME Good, IsBoard(screen), screen.drill.open, NEW s, IsBoard(s), s.editor = screen.editor,
         s.drill.open, DOMAIN s.drill = DrillFields, screen' = s, NEW cs \in SUBSET calls,
         NEW asks, \A a \in asks : a.kind \in C!DrillCalls, calls' = C!Send(cs, asks),
         ~s.drill.raced => DrillGood(s.drill, calls')
  PROVE  Good'
<1>1. ~screen.editor.open /\ NoDesign(calls) /\ CallShapes(cs)
  BY BoardOpen DEF IsBoard, Good, GoodFor, CallShapes
<1>2. NoDesign(cs \cup asks)
  BY <1>1, KindsApart DEF NoDesign
<1>3. Sends(cs, asks, calls')
  BY <1>1, SendIs
<1>4. \A a \in asks : a.kind \in C!BoardCalls
  BY KindsApart DEF C!BoardCalls
<1>5. GoodFor(s, calls')
  BY <1>1, <1>2, <1>3, <1>4, BoardTurn
<1> QED BY <1>5 DEF Good

LEMMA AtRestGood ==
  ASSUME NEW d, NEW cs, C!PathHolds(d), d.steps \in Seq(Bars), NoDrill(cs)
  PROVE  DrillGood(d, cs)
BY DEF DrillGood, NoDrill, OneDrill

\* A drill that does not wait, or shows records, or is off, has asked nothing.
LEMMA AtRest ==
  ASSUME NEW d, NEW cs, DrillGood(d, cs), ~d.busy \/ ~d.on \/ d.records.open
  PROVE  NoDrill(cs)
BY DEF DrillGood, NoDrill

LEMMA DrillEdit ==
  ASSUME IsBoard(screen), screen.drill.open, NEW d
  PROVE  IsBoard(C!Drill(d)) /\ C!Drill(d).editor = screen.editor /\ C!Drill(d).drill = d
BY DEF C!Drill, IsBoard, BoardFields

LEMMA StepBack ==
  ASSUME NEW s \in Seq(Bars), NEW v \in Bars
  PROVE  Append(s, v) \in Seq(Bars) /\ SubSeq(Append(s, v), 1, Len(Append(s, v)) - 1) = s
BY AppendProperties, SubSeqProperties

LEMMA ClickKeeps ==
  ASSUME Good, NEW v \in Bars, C!SectionClick(v)
  PROVE  Good'
<1> DEFINE d0 == screen.drill
           d == [d0 EXCEPT !.busy = TRUE]
           path == Append(d0.steps, v)
           kind == IF C!AtLeaf(d0) THEN "records" ELSE "drill"
           asks == {C!Ask(kind, path)}
           s == C!Drill(d)
<1>1. /\ screen.at = "board" /\ d0.open /\ d0.on /\ ~d0.busy /\ ~d0.records.open
      /\ screen' = s /\ calls' = C!Send(calls, asks)
  BY DEF C!SectionClick, C!Drawn, C!OnBoard, C!Use
<1>2. /\ IsBoard(screen) /\ DOMAIN d0 = DrillFields /\ CallShapes(calls)
      /\ ~d0.raced => DrillGood(d0, calls)
  BY <1>1, BoardOpen
<1>3. /\ IsBoard(s) /\ s.editor = screen.editor /\ s.drill = d
  BY <1>1, <1>2, DrillEdit
<1>4. /\ DOMAIN d = DrillFields /\ d.open /\ d.raced = d0.raced /\ d.busy /\ d.on /\ d.steps = d0.steps
      /\ d.rows = d0.rows /\ d.records = d0.records
  BY <1>1, <1>2 DEF DrillFields
<1>5. kind \in C!DrillCalls /\ \A a \in asks : a.kind = kind /\ a.arg = path
  BY KindsApart DEF C!Ask
<1>6. C!Ask(kind, path) \in asks /\ \A a, b \in asks : a = b
  OBVIOUS
<1> HIDE DEF d, path, kind, asks, s, d0
<1>7. Sends(calls, asks, calls')
  BY <1>1, <1>2, SendIs
<1>8. ASSUME ~d0.raced PROVE DrillGood(d, calls')
  <2>1. NoDrill(calls) /\ d0.steps \in Seq(Bars) /\ C!PathHolds(d0)
    BY <1>1, <1>2, <1>8, AtRest DEF DrillGood
  <2>2. \A x \in calls' : x.kind \in C!DrillCalls => x.kind = kind /\ x.arg = path
    BY <1>5, <1>7, <2>1 DEF Sends, NoDrill
  <2>3. \A x, y \in calls' : x.kind = kind /\ y.kind = kind => x = y
    <3>1. PICK a \in asks : a.kind = kind
      BY <1>5, <1>6
    <3>2. (\A b \in asks : b.kind = a.kind => b = a) /\ (\A c \in calls : c.kind # a.kind)
      BY <1>5, <1>6, <2>1, <3>1 DEF NoDrill
    <3> QED BY <1>7, <3>1, <3>2 DEF Sends
  <2>4. path \in Seq(Bars) /\ SubSeq(path, 1, Len(path) - 1) = d0.steps
    BY <2>1, StepBack DEF path
  <2>5. C!PathHolds(d)
    BY <1>4, <2>1 DEF C!PathHolds
  <2> QED BY <1>1, <1>4, <2>1, <2>2, <2>3, <2>4, <2>5 DEF DrillGood, OneDrill
<1> QED BY <1>1, <1>2, <1>3, <1>4, <1>5, <1>8, DrillShow DEF d0

LEMMA JumpKeeps ==
  ASSUME Good, NEW level \in 0..Levels, C!JumpTo(level)
  PROVE  Good'
<1> DEFINE d0 == screen.drill
           next == SubSeq(d0.steps, 1, level)
           quiet == [d0 EXCEPT !.records = C!Closed, !.raced = d0.raced \/ d0.busy]
           top == [quiet EXCEPT !.rows = <<>>, !.steps = <<>>, !.busy = FALSE]
           wait == [quiet EXCEPT !.busy = TRUE]
           asks == {C!Ask("drill", next)}
<1>1. /\ screen.at = "board" /\ d0.open /\ d0.on /\ level <= Len(d0.steps)
      /\ \/ screen' = C!Drill(top) /\ calls' = C!Send(calls, {})
         \/ screen' = C!Drill(wait) /\ calls' = C!Send(calls, asks)
  BY DEF C!JumpTo, C!Drawn, C!OnBoard, C!Use
<1>2. /\ IsBoard(screen) /\ DOMAIN d0 = DrillFields /\ CallShapes(calls)
      /\ ~d0.raced => DrillGood(d0, calls)
  BY <1>1, BoardOpen
<1>3. /\ DOMAIN quiet = DrillFields /\ quiet.open /\ quiet.on /\ ~quiet.records.open
      /\ quiet.steps = d0.steps /\ quiet.rows = d0.rows
      /\ ~quiet.raced => ~d0.raced /\ ~d0.busy
  BY <1>1, <1>2 DEF DrillFields, C!Closed
<1>4. ASSUME ~quiet.raced
      PROVE  NoDrill(calls) /\ d0.steps \in Seq(Bars) /\ C!PathHolds(d0)
  BY <1>2, <1>3, <1>4, AtRest DEF DrillGood
<1> HIDE DEF quiet
<1>5. CASE screen' = C!Drill(top) /\ calls' = C!Send(calls, {})
  <2>1. calls' = calls
    BY <1>2, <1>5, SendNothing
  <2>2. /\ DOMAIN top = DrillFields /\ top.open /\ top.on /\ ~top.records.open
        /\ top.steps = <<>> /\ top.rows = <<>> /\ top.raced = quiet.raced
    BY <1>3 DEF DrillFields
  <2>3. ASSUME ~top.raced PROVE DrillGood(top, calls')
    <3>1. C!PathHolds(top) /\ top.steps \in Seq(Bars)
      BY <2>2 DEF C!PathHolds
    <3>2. NoDrill(calls')
      BY <1>4, <2>1, <2>2, <2>3
    <3> QED BY <3>1, <3>2, AtRestGood
  <2>4. IsBoard(C!Drill(top)) /\ C!Drill(top).editor = screen.editor /\ C!Drill(top).drill = top
    BY <1>1, <1>2, DrillEdit
  <2>5. \A a \in {} : a.kind \in C!DrillCalls
    OBVIOUS
  <2> HIDE DEF top
  <2> QED BY <1>1, <1>2, <1>5, <2>2, <2>3, <2>4, <2>5, DrillShow DEF d0
<1>6. CASE screen' = C!Drill(wait) /\ calls' = C!Send(calls, asks)
  <2>1. /\ DOMAIN wait = DrillFields /\ wait.open /\ wait.on /\ ~wait.records.open /\ wait.busy
        /\ wait.steps = d0.steps /\ wait.rows = d0.rows /\ wait.raced = quiet.raced
    BY <1>3 DEF DrillFields
  <2>2. Sends(calls, asks, calls')
    BY <1>2, <1>6, SendIs
  <2>3. "drill" \in C!DrillCalls /\ \A a \in asks : a.kind = "drill" /\ a.arg = next
    BY KindsApart DEF C!Ask
  <2>4. C!Ask("drill", next) \in asks /\ \A a, b \in asks : a = b
    OBVIOUS
  <2> HIDE DEF wait, asks
  <2>5. ASSUME ~wait.raced PROVE DrillGood(wait, calls')
    <3>1. NoDrill(calls) /\ d0.steps \in Seq(Bars) /\ C!PathHolds(d0)
      BY <1>4, <2>1, <2>5
    <3>2. \A x \in calls' : x.kind \in C!DrillCalls => x.kind = "drill" /\ x.arg = next
      BY <2>2, <2>3, <3>1 DEF Sends, NoDrill
    <3>3. \A x, y \in calls' : x.kind = "drill" /\ y.kind = "drill" => x = y
      <4>1. PICK a \in asks : a.kind = "drill"
        BY <2>3, <2>4
      <4>2. (\A b \in asks : b.kind = a.kind => b = a) /\ (\A c \in calls : c.kind # a.kind)
        BY <2>3, <2>4, <3>1, <4>1 DEF NoDrill
      <4> QED BY <2>2, <4>1, <4>2 DEF Sends
    <3>4. next \in Seq(Bars)
      BY <1>1, <3>1, SubSeqProperties
    <3>5. C!PathHolds(wait) /\ wait.steps \in Seq(Bars)
      BY <2>1, <3>1 DEF C!PathHolds
    <3> HIDE DEF next
    <3> QED BY <2>1, <3>2, <3>3, <3>4, <3>5 DEF DrillGood, OneDrill
  <2>6. IsBoard(C!Drill(wait)) /\ C!Drill(wait).editor = screen.editor /\ C!Drill(wait).drill = wait
    BY <1>1, <1>2, DrillEdit
  <2> QED BY <1>1, <1>2, <1>6, <2>1, <2>3, <2>5, <2>6, DrillShow DEF d0
<1> QED BY <1>1, <1>5, <1>6

\* The switch, and the way back from the records.
LEMMA SwitchKeeps ==
  ASSUME Good, C!ToggleDrill \/ C!BackToChart
  PROVE  Good'
<1> DEFINE d0 == screen.drill
           off == [d0 EXCEPT !.on = FALSE, !.steps = <<>>, !.rows = <<>>, !.records = C!Closed,
                             !.raced = d0.raced \/ d0.busy]
           on == [d0 EXCEPT !.on = TRUE]
           back == [d0 EXCEPT !.records = C!Closed]
<1>1. /\ screen.at = "board" /\ d0.open /\ calls' = C!Send(calls, {})
      /\ \/ d0.on /\ screen' = C!Drill(off)
         \/ ~d0.on /\ screen' = C!Drill(on)
         \/ d0.records.open /\ screen' = C!Drill(back)
  BY DEF C!ToggleDrill, C!BackToChart, C!Drawn, C!OnBoard, C!Use
<1>2. /\ IsBoard(screen) /\ DOMAIN d0 = DrillFields /\ CallShapes(calls)
      /\ ~d0.raced => DrillGood(d0, calls)
  BY <1>1, BoardOpen
<1>3. calls' = calls
  BY <1>1, <1>2, SendNothing
<1>4. ASSUME NEW d, screen' = C!Drill(d), d.open, DOMAIN d = DrillFields,
             ~d.raced => C!PathHolds(d) /\ d.steps \in Seq(Bars) /\ NoDrill(calls)
      PROVE  Good'
  <2>1. IsBoard(C!Drill(d)) /\ C!Drill(d).editor = screen.editor /\ C!Drill(d).drill = d
    BY <1>1, <1>2, DrillEdit
  <2>2. ~d.raced => DrillGood(d, calls')
    BY <1>3, <1>4, AtRestGood
  <2>3. \A a \in {} : a.kind \in C!DrillCalls
    OBVIOUS
  <2> QED BY <1>1, <1>2, <1>4, <2>1, <2>2, <2>3, DrillShow DEF d0
<1>5. CASE d0.on /\ screen' = C!Drill(off)
  <2>1. /\ off.open /\ DOMAIN off = DrillFields /\ ~off.records.open /\ off.rows = <<>> /\ off.steps = <<>>
        /\ ~off.raced => ~d0.raced /\ ~d0.busy
    BY <1>1, <1>2 DEF DrillFields, C!Closed
  <2> HIDE DEF off
  <2>2. ~off.raced => C!PathHolds(off) /\ off.steps \in Seq(Bars) /\ NoDrill(calls)
    BY <1>2, <2>1, AtRest DEF C!PathHolds
  <2> QED BY <1>4, <1>5, <2>1, <2>2
<1>6. CASE ~d0.on /\ screen' = C!Drill(on)
  <2>1. /\ on.open /\ DOMAIN on = DrillFields /\ on.records = d0.records /\ on.rows = d0.rows
        /\ on.steps = d0.steps /\ on.raced = d0.raced /\ on.on
    BY <1>1, <1>2 DEF DrillFields
  <2> HIDE DEF on
  <2>2. ~on.raced => C!PathHolds(on) /\ on.steps \in Seq(Bars) /\ NoDrill(calls)
    BY <1>2, <1>6, <2>1, AtRest DEF C!PathHolds, DrillGood
  <2> QED BY <1>4, <1>6, <2>1, <2>2
<1>7. CASE d0.records.open /\ screen' = C!Drill(back)
  <2>1. /\ back.open /\ DOMAIN back = DrillFields /\ ~back.records.open /\ back.rows = d0.rows
        /\ back.steps = d0.steps /\ back.raced = d0.raced /\ back.on = d0.on
    BY <1>1, <1>2 DEF DrillFields, C!Closed
  <2> HIDE DEF back
  <2>2. ~back.raced => C!PathHolds(back) /\ back.steps \in Seq(Bars) /\ NoDrill(calls)
    BY <1>2, <1>7, <2>1, AtRest DEF C!PathHolds, DrillGood
  <2> QED BY <1>4, <1>7, <2>1, <2>2
<1> QED BY <1>1, <1>5, <1>6, <1>7

\* The one answer a drill waits for.
LEMMA DescentKeeps ==
  ASSUME Good, NEW c \in calls, NEW ok \in BOOLEAN, C!DrillLands(c, ok) \/ C!RecordsLand(c, ok)
  PROVE  Good'
<1> DEFINE d0 == screen.drill
           cs == calls \ {c}
           idle == [d0 EXCEPT !.busy = FALSE]
           down == [d0 EXCEPT !.steps = c.arg, !.rows = c.arg, !.busy = FALSE]
           leaf == [d0 EXCEPT !.busy = FALSE, !.records = [open |-> TRUE, path |-> c.arg]]
<1>1. /\ c.kind \in {"drill", "records"} /\ calls' = C!Send(cs, {})
      /\ \/ screen' = C!Drill(idle)
         \/ screen' = C!Drill(down)
         \/ c.kind = "records" /\ screen' = C!Drill(leaf)
  <2>1. CASE C!DrillLands(c, ok)
    BY <2>1 DEF C!DrillLands, C!Descended, C!Show
  <2>2. CASE C!RecordsLand(c, ok) /\ ok
    BY <2>2 DEF C!RecordsLand, C!Show
  <2>3. CASE C!RecordsLand(c, ok) /\ ~ok
    <3>1. [d0 EXCEPT !.busy = FALSE, !.records = d0.records] = idle
      <4>1. DOMAIN d0 = DrillFields
        BY <2>3, KindsApart, BoardOpen
           DEF C!RecordsLand, Good, GoodFor, AllBelong, Belongs, C!BoardCalls, C!DrillCalls
      <4> QED BY <4>1 DEF DrillFields
    <3> QED BY <2>3, <3>1 DEF C!RecordsLand, C!Show
  <2> QED BY <2>1, <2>2, <2>3
<1>2. c.kind \in C!DrillCalls /\ c.kind \in C!BoardCalls
  BY <1>1, KindsApart DEF C!BoardCalls
<1>3. screen.at = "board" /\ d0.open
  BY <1>2 DEF Good, GoodFor, AllBelong, Belongs
<1>4. /\ IsBoard(screen) /\ DOMAIN d0 = DrillFields /\ CallShapes(calls)
      /\ ~d0.raced => DrillGood(d0, calls)
  BY <1>3, BoardOpen
<1>5. CallShapes(cs) /\ cs \in SUBSET calls
  BY <1>4 DEF CallShapes
<1>6. calls' = cs
  BY <1>1, <1>5, SendNothing
<1>7. ASSUME ~d0.raced
      PROVE  /\ NoDrill(cs) /\ d0.on /\ ~d0.records.open /\ c.arg \in Seq(Bars)
             /\ d0.steps \in Seq(Bars) /\ C!PathHolds(d0)
             /\ c.kind = "records" => SubSeq(c.arg, 1, Len(c.arg) - 1) = d0.steps
  BY <1>2, <1>4, <1>7 DEF DrillGood, OneDrill, NoDrill
<1>8. ASSUME NEW d, screen' = C!Drill(d), d.open, DOMAIN d = DrillFields, d.raced = d0.raced,
             ~d0.raced => C!PathHolds(d) /\ d.steps \in Seq(Bars)
      PROVE  Good'
  <2>1. IsBoard(C!Drill(d)) /\ C!Drill(d).editor = screen.editor /\ C!Drill(d).drill = d
    BY <1>3, <1>4, DrillEdit
  <2>2. ~d.raced => DrillGood(d, calls')
    BY <1>6, <1>7, <1>8, AtRestGood
  <2>3. \A a \in {} : a.kind \in C!DrillCalls
    OBVIOUS
  <2> HIDE DEF cs
  <2> QED BY <1>1, <1>3, <1>4, <1>5, <1>8, <2>1, <2>2, <2>3, DrillShow DEF d0
<1>9. CASE screen' = C!Drill(idle)
  <2>1. /\ idle.open /\ DOMAIN idle = DrillFields /\ idle.records = d0.records /\ idle.rows = d0.rows
        /\ idle.steps = d0.steps /\ idle.raced = d0.raced /\ idle.on = d0.on
    BY <1>3, <1>4 DEF DrillFields
  <2> HIDE DEF idle
  <2>2. ~d0.raced => C!PathHolds(idle) /\ idle.steps \in Seq(Bars)
    BY <1>7, <2>1 DEF C!PathHolds
  <2> QED BY <1>8, <1>9, <2>1, <2>2
<1>10. CASE screen' = C!Drill(down)
  <2>1. /\ down.open /\ DOMAIN down = DrillFields /\ down.records = d0.records /\ down.rows = c.arg
        /\ down.steps = c.arg /\ down.raced = d0.raced /\ down.on = d0.on
    BY <1>3, <1>4 DEF DrillFields
  <2> HIDE DEF down
  <2>2. ~d0.raced => C!PathHolds(down) /\ down.steps \in Seq(Bars)
    BY <1>7, <2>1 DEF C!PathHolds
  <2> QED BY <1>8, <1>10, <2>1, <2>2
<1>11. CASE c.kind = "records" /\ screen' = C!Drill(leaf)
  <2>1. /\ leaf.open /\ DOMAIN leaf = DrillFields /\ leaf.records.open /\ leaf.records.path = c.arg
        /\ leaf.rows = d0.rows /\ leaf.steps = d0.steps /\ leaf.raced = d0.raced /\ leaf.on = d0.on
    BY <1>3, <1>4 DEF DrillFields
  <2> HIDE DEF leaf
  <2>2. ~d0.raced => C!PathHolds(leaf) /\ leaf.steps \in Seq(Bars)
    BY <1>7, <1>11, <2>1 DEF C!PathHolds
  <2> QED BY <1>8, <1>11, <2>1, <2>2
<1> QED BY <1>1, <1>9, <1>10, <1>11

\* Rows that come to a chart already drawn send it back to the top.
LEMMA WidgetKeeps ==
  ASSUME Good, NEW c \in calls, NEW ok \in BOOLEAN, C!WidgetLands(c, ok), IsBoard(screen)
  PROVE  Good'
<1> DEFINE w == c.arg[1]
           cs == calls \ {c}
           b == [screen EXCEPT !.pending = screen.pending \ {w},
                               !.data = IF ok THEN screen.data \cup {w} ELSE screen.data \ {w}]
           again == [b.drill EXCEPT !.rows = <<>>, !.steps = <<>>, !.records = C!Closed,
                                    !.raced = b.drill.raced \/ b.drill.busy]
           d == IF w = Drilled /\ b.drill.open THEN again
                ELSE IF w = Drilled THEN C!CardOf(b) ELSE b.drill
           s == [b EXCEPT !.drill = d]
<1>1. c.kind = "widget" /\ screen' = s /\ calls' = C!Send(cs, {})
  BY DEF C!WidgetLands, C!Show
<1>2. IsBoard(b) /\ b.editor = screen.editor /\ b.drill = screen.drill
  BY DEF IsBoard, BoardFields
<1>3. cs \in SUBSET calls /\ \A x \in calls : x.kind = "preview" => x \in cs
  BY <1>1
<1>4. /\ screen.editor.open => ~screen.drill.open
      /\ ~screen.drill.open => NoDrill(cs)
  BY BoardOpen DEF IsBoard, NoDrill
<1>5. (\A a \in {} : a.kind \in PlainAsks) /\ \A a \in {} : a.kind \in C!DrillCalls
  OBVIOUS
<1> HIDE DEF b
<1>6. IsBoard(s) /\ s.editor = screen.editor /\ s.drill = d
  <2>1. b.hidden # {} => ~d.open
    BY <1>2, CardIs DEF IsBoard
  <2> HIDE DEF d
  <2> QED BY <1>2, <2>1 DEF IsBoard, BoardFields
<1>7. CASE w = Drilled /\ screen.drill.open
  <2>1. /\ DOMAIN screen.drill = DrillFields /\ CallShapes(calls)
        /\ ~screen.drill.raced => DrillGood(screen.drill, calls)
    BY <1>7, BoardOpen DEF IsBoard
  <2>2. s.drill = again
    BY <1>2, <1>6, <1>7
  <2>3. /\ again.open /\ DOMAIN again = DrillFields /\ again.rows = <<>> /\ again.steps = <<>>
        /\ ~again.records.open
        /\ ~again.raced => ~screen.drill.raced /\ ~screen.drill.busy
    BY <1>2, <1>7, <2>1 DEF DrillFields, C!Closed
  <2>4. calls' = cs
    <3>1. CallShapes(cs)
      BY <2>1 DEF CallShapes
    <3> HIDE DEF cs
    <3> QED BY <1>1, <3>1, SendNothing
  <2> HIDE DEF again, s
  <2>5. ~again.raced => DrillGood(again, calls')
    <3>1. ~again.raced => NoDrill(calls)
      BY <2>1, <2>3, AtRest
    <3>2. ~again.raced => NoDrill(calls')
      BY <2>4, <3>1 DEF NoDrill
    <3>3. C!PathHolds(again) /\ again.steps \in Seq(Bars)
      BY <2>3 DEF C!PathHolds
    <3> QED BY <3>2, <3>3, AtRestGood
  <2> HIDE DEF cs, w
  <2> QED BY <1>1, <1>3, <1>5, <1>6, <1>7, <2>2, <2>3, <2>5, DrillShow
<1>8. CASE w = Drilled /\ ~screen.drill.open
  <2>1. s.drill = C!CardOf(b)
    BY <1>2, <1>6, <1>8
  <2> HIDE DEF s, cs, w
  <2>2. (s.drill = C!NewDrill /\ ~s.editor.open) \/ ~s.drill.open
    BY <1>2, <1>6, <2>1, CardIs
  <2> QED BY <1>1, <1>3, <1>4, <1>5, <1>6, <1>8, <2>2, PlainShow
<1>9. CASE w # Drilled
  <2>1. s.drill = screen.drill
    BY <1>2, <1>6, <1>9
  <2> HIDE DEF s, cs, w
  <2> QED BY <1>1, <1>3, <1>4, <1>5, <1>6, <2>1, PlainShow
<1> QED BY <1>7, <1>8, <1>9

-----------------------------------------------------------------------------
(* The chart designer *)

IsEditor(e) == DOMAIN e = EditorFields /\ e.open

\* What the preview depends on tells whether the spec is complete, and what it
\* asks for.
LEMMA DepsDecide ==
  ASSUME NEW e, NEW g, C!Deps(g) = C!Deps(e)
  PROVE  (C!Complete(g) <=> C!Complete(e)) /\ C!PreviewOf(g) = C!PreviewOf(e)
<1>1. /\ C!QuerySpec(g) = C!QuerySpec(e) /\ g.steps = e.steps /\ g.schema = e.schema
      /\ g.dim = e.dim /\ g.compare = e.compare /\ g.groups = e.groups
  BY DEF C!Deps
<1> DEFINE Label(x) == CASE C!IsClause(x) -> "clause" [] C!IsCompare(x) -> "compare" [] OTHER -> "aggregate"
<1>2. ASSUME NEW x
      PROVE  C!QuerySpec(x)[2] = x.type /\ C!QuerySpec(x)[3] = Label(x)
  BY DEF C!QuerySpec
<1>3. ASSUME NEW x
      PROVE  (C!IsClause(x) <=> Label(x) = "clause") /\ (C!IsCompare(x) <=> Label(x) = "compare")
  <2>1. ~(C!IsClause(x) /\ C!IsCompare(x))
    BY DEF C!IsClause, C!IsCompare
  <2>2. CASE C!IsClause(x)
    BY <2>1, <2>2
  <2>3. CASE C!IsCompare(x)
    BY <2>1, <2>3
  <2>4. CASE ~C!IsClause(x) /\ ~C!IsCompare(x)
    BY <2>4
  <2> QED BY <2>2, <2>3, <2>4
<1> HIDE DEF Label
<1>4. g.type = e.type /\ (C!IsClause(g) <=> C!IsClause(e)) /\ (C!IsCompare(g) <=> C!IsCompare(e))
  BY <1>1, <1>2, <1>3
<1>5. C!Complete(g) <=> C!Complete(e)
  BY <1>1, <1>4 DEF C!Complete, C!NeedsDimension
<1> QED BY <1>1, <1>5 DEF C!PreviewOf

LEMMA EditShow ==
  ASSUME Good, IsBoard(screen), screen.editor.open, NEW e, IsEditor(e),
         screen' = [screen EXCEPT !.editor = e], NEW cs \in SUBSET calls, NEW asks,
         \A a \in asks : a.kind \in C!DesignCalls, calls' = C!Send(cs, asks), PreviewGood(e, calls')
  PROVE  Good'
<1>1. ~screen.drill.open /\ NoDrill(calls) /\ CallShapes(cs)
  BY BoardOpen DEF IsBoard, Good, GoodFor, CallShapes
<1>2. NoDrill(cs \cup asks)
  BY <1>1, KindsApart DEF NoDrill
<1>3. Sends(cs, asks, calls')
  BY <1>1, SendIs
<1>4. \A a \in asks : a.kind \in C!BoardCalls
  BY KindsApart DEF C!BoardCalls
<1>5. IsBoard(screen') /\ screen'.editor = e /\ screen'.drill = screen.drill
  BY DEF IsBoard, BoardFields
<1>6. GoodFor(screen', calls')
  BY <1>1, <1>2, <1>3, <1>4, <1>5, BoardTurn DEF IsEditor
<1> QED BY <1>6 DEF Good

\* The effects after a change: either nothing the preview depends on is another,
\* or its timer runs, or there is nothing to ask.
LEMMA EffectsKeep ==
  ASSUME NEW e, NEW f, IsEditor(e), IsEditor(f), f.timer = e.timer, NEW cs, NEW new \in SUBSET cs,
         PreviewGood(e, cs),
         \/ f.result = e.result /\ f.failed = e.failed /\ \A c \in cs : IsNewest(c, "preview") => c \in new
         \/ f.failed
         \/ C!Complete(e) /\ ~e.timer => f.result = C!PreviewOf(e)
         \/ f.schema = ""
  PROVE  IsEditor(C!Effects(e, f)) /\ PreviewGood(C!Effects(e, f), new)
<1> DEFINE top == [f EXCEPT !.steps = <<>>]
           kept == /\ C!DrillSequence(f) = C!DrillSequence(e)
                   /\ f.type = e.type /\ f.src = e.src
           g == IF kept THEN f ELSE top
           late == [g EXCEPT !.timer = C!Complete(g)]
<1>1. /\ IsEditor(g) /\ g.timer = f.timer /\ g.result = f.result /\ g.failed = f.failed /\ g.schema = f.schema
  BY DEF IsEditor, EditorFields
<1>2. C!Effects(e, f) = IF C!Deps(g) = C!Deps(e) THEN g ELSE late
  BY DEF C!Effects
<1> HIDE DEF g
<1>3. CASE C!Deps(g) = C!Deps(e)
  <2>1. (C!Complete(g) <=> C!Complete(e)) /\ C!PreviewOf(g) = C!PreviewOf(e)
    BY <1>3, DepsDecide
  <2>2. f.schema = "" => ~C!Complete(g)
    BY <1>1 DEF C!Complete
  <2>3. PreviewGood(g, new)
    BY <1>1, <2>1, <2>2 DEF PreviewGood
  <2> QED BY <1>1, <1>2, <1>3, <2>3
<1>4. CASE C!Deps(g) # C!Deps(e)
  <2>1. /\ IsEditor(late) /\ late.timer = C!Complete(g)
        /\ late.type = g.type /\ late.mode = g.mode /\ late.schema = g.schema /\ late.dim = g.dim
        /\ late.compare = g.compare /\ late.groups = g.groups
    BY <1>1 DEF IsEditor, EditorFields
  <2> HIDE DEF late
  <2>2. C!Complete(late) <=> C!Complete(g)
    BY <2>1 DEF C!Complete, C!NeedsDimension, C!IsClause, C!IsCompare, C!SupportsSeries
  <2>3. PreviewGood(late, new)
    BY <2>1, <2>2 DEF PreviewGood
  <2> QED BY <1>2, <1>4, <2>1, <2>3
<1> QED BY <1>3, <1>4

LEMMA DesignerOpen ==
  ASSUME Good, C!Designing
  PROVE  IsBoard(screen) /\ IsEditor(screen.editor) /\ PreviewGood(screen.editor, calls) /\ CallShapes(calls)
BY BoardOpen DEF C!Designing, IsEditor

\* A change of the draft that the user makes.
LEMMA EditKeeps ==
  ASSUME Good, NEW f, C!Edit(f), IsEditor(f), f.timer = screen.editor.timer,
         f.result = screen.editor.result, f.failed = screen.editor.failed
  PROVE  Good'
<1> DEFINE g == C!Effects(screen.editor, f)
<1>1. IsBoard(screen) /\ IsEditor(screen.editor) /\ PreviewGood(screen.editor, calls) /\ CallShapes(calls)
  BY DesignerOpen DEF C!Edit
<1>2. screen' = [screen EXCEPT !.editor = g] /\ calls' = C!Send(calls, {})
  BY DEF C!Edit, C!Design, C!Use
<1>3. calls' = calls
  BY <1>1, <1>2, SendNothing
<1>4. IsEditor(g) /\ PreviewGood(g, calls)
  BY <1>1, EffectsKeep
<1>5. \A a \in {} : a.kind \in C!DesignCalls
  OBVIOUS
<1> HIDE DEF g
<1> QED BY <1>1, <1>2, <1>3, <1>4, <1>5, EditShow DEF IsEditor

\* Each picker changes fields of the spec and nothing else.
LEMMA PickersKeep ==
  ASSUME Good,
         \/ \E t : C!ChooseType(t) \/ C!ChangeMode(t) \/ C!ChooseDimension(t) \/ C!ChooseCompare(t)
                   \/ C!ChooseGroups(t) \/ C!ChoosePath(t) \/ C!ChooseFilter(t)
                   \/ C!PreviewClick(t) \/ C!PreviewBack(t)
  PROVE  Good'
<1> DEFINE e == screen.editor
<1>1. C!Designing
  BY DEF C!ChooseType, C!ChangeMode, C!ChooseDimension, C!ChooseCompare, C!ChooseGroups, C!ChoosePath,
         C!ChooseFilter, C!PreviewClick, C!PreviewBack, C!Edit
<1>2. DOMAIN e = EditorFields /\ e.open
  BY <1>1, DesignerOpen DEF IsEditor
<1> HIDE DEF e
<1>3. ASSUME NEW t, C!ChooseType(t) PROVE Good'
  <2> DEFINE f == [e EXCEPT !.type = t]
  <2>1. C!Edit(f)
    BY <1>3 DEF C!ChooseType, e
  <2>2. IsEditor(f) /\ f.timer = e.timer /\ f.result = e.result /\ f.failed = e.failed
    BY <1>2 DEF IsEditor, EditorFields
  <2> HIDE DEF f
  <2> QED BY <2>1, <2>2, EditKeeps DEF e
<1>4. ASSUME NEW m, C!ChangeMode(m) PROVE Good'
  <2> DEFINE f == [e EXCEPT !.mode = m, !.compare = "",
                     !.groups = IF m = "clause" THEN <<CHOOSE d \in Dimensions : TRUE>> ELSE <<>>]
  <2>1. C!Edit(f)
    BY <1>4 DEF C!ChangeMode, e
  <2>2. IsEditor(f) /\ f.timer = e.timer /\ f.result = e.result /\ f.failed = e.failed
    BY <1>2 DEF IsEditor, EditorFields
  <2> HIDE DEF f
  <2> QED BY <2>1, <2>2, EditKeeps DEF e
<1>5. ASSUME NEW d, C!ChooseDimension(d) PROVE Good'
  <2> DEFINE f == [e EXCEPT !.dim = d]
  <2>1. C!Edit(f)
    BY <1>5 DEF C!ChooseDimension, e
  <2>2. IsEditor(f) /\ f.timer = e.timer /\ f.result = e.result /\ f.failed = e.failed
    BY <1>2 DEF IsEditor, EditorFields
  <2> HIDE DEF f
  <2> QED BY <2>1, <2>2, EditKeeps DEF e
<1>6. ASSUME NEW d, C!ChooseCompare(d) PROVE Good'
  <2> DEFINE f == [e EXCEPT !.compare = d]
  <2>1. C!Edit(f)
    BY <1>6 DEF C!ChooseCompare, e
  <2>2. IsEditor(f) /\ f.timer = e.timer /\ f.result = e.result /\ f.failed = e.failed
    BY <1>2 DEF IsEditor, EditorFields
  <2> HIDE DEF f
  <2> QED BY <2>1, <2>2, EditKeeps DEF e
<1>7. ASSUME NEW gs, C!ChooseGroups(gs) PROVE Good'
  <2> DEFINE f == [e EXCEPT !.groups = gs]
  <2>1. C!Edit(f)
    BY <1>7 DEF C!ChooseGroups, e
  <2>2. IsEditor(f) /\ f.timer = e.timer /\ f.result = e.result /\ f.failed = e.failed
    BY <1>2 DEF IsEditor, EditorFields
  <2> HIDE DEF f
  <2> QED BY <2>1, <2>2, EditKeeps DEF e
<1>8. ASSUME NEW ds, C!ChoosePath(ds) PROVE Good'
  <2> DEFINE f == [e EXCEPT !.path = ds]
  <2>1. C!Edit(f)
    BY <1>8 DEF C!ChoosePath, e
  <2>2. IsEditor(f) /\ f.timer = e.timer /\ f.result = e.result /\ f.failed = e.failed
    BY <1>2 DEF IsEditor, EditorFields
  <2> HIDE DEF f
  <2> QED BY <2>1, <2>2, EditKeeps DEF e
<1>9. ASSUME NEW x, C!ChooseFilter(x) PROVE Good'
  <2> DEFINE f == [e EXCEPT !.cond = x]
  <2>1. C!Edit(f)
    BY <1>9 DEF C!ChooseFilter, e
  <2>2. IsEditor(f) /\ f.timer = e.timer /\ f.result = e.result /\ f.failed = e.failed
    BY <1>2 DEF IsEditor, EditorFields
  <2> HIDE DEF f
  <2> QED BY <2>1, <2>2, EditKeeps DEF e
<1>10. ASSUME NEW t, C!PreviewClick(t) \/ C!PreviewBack(t) PROVE Good'
  <2>1. PICK steps : C!Edit([e EXCEPT !.steps = steps])
    BY <1>10 DEF C!PreviewClick, C!PreviewBack, e
  <2> DEFINE f == [e EXCEPT !.steps = steps]
  <2>2. IsEditor(f) /\ f.timer = e.timer /\ f.result = e.result /\ f.failed = e.failed
    BY <1>2 DEF IsEditor, EditorFields
  <2>3. C!Edit(f)
    BY <2>1
  <2> HIDE DEF f
  <2> QED BY <2>2, <2>3, EditKeeps DEF e
<1> QED BY <1>3, <1>4, <1>5, <1>6, <1>7, <1>8, <1>9, <1>10

LEMMA OpenEditorKeeps ==
  ASSUME Good, NEW existing, NEW k, C!OpenEditor(existing, k)
  PROVE  Good'
<1> DEFINE e == C!NewEditor(existing, k)
           s == [screen EXCEPT !.editor = e, !.drill = C!Closed]
           cs == C!Without(calls, C!DrillCalls)
           asks == {C!Ask("fields", <<k>>)}
<1>1. screen.at = "board" /\ screen' = s /\ calls' = C!Send(cs, asks)
  BY DEF C!OpenEditor, C!OnBoard
<1>2. IsBoard(screen) /\ CallShapes(calls)
  BY <1>1, BoardOpen
<1>3. cs \in SUBSET calls /\ NoDrill(cs) /\ CallShapes(cs)
  BY <1>2 DEF C!Without, NoDrill, CallShapes
<1>4. \A a \in asks : a.kind = "fields"
  BY DEF C!Ask
<1>5. IsEditor(e) /\ e.schema = ""
  BY DEF C!NewEditor, IsEditor, EditorFields
<1> HIDE DEF e, cs, asks
<1>6. IsBoard(s) /\ s.editor = e /\ s.drill = C!Closed /\ ~s.drill.open
  BY <1>2 DEF IsBoard, BoardFields, C!Closed
<1>7. NoDrill(cs \cup asks) /\ \A a \in asks : a.kind \in C!BoardCalls
  BY <1>3, <1>4, KindsApart DEF NoDrill, C!BoardCalls
<1>8. PreviewGood(e, calls')
  BY <1>5 DEF PreviewGood, C!Complete
<1>9. Sends(cs, asks, calls')
  BY <1>1, <1>3, SendIs
<1>10. GoodFor(s, calls')
  BY <1>2, <1>3, <1>5, <1>6, <1>7, <1>8, <1>9, BoardTurn DEF IsEditor
<1> QED BY <1>1, <1>10 DEF Good

LEMMA AddChartKeeps ==
  ASSUME Good, C!AddChart
  PROVE  Good'
<1> DEFINE s == [screen EXCEPT !.hidden = {FALSE}, !.drill = C!Closed]
           cs == C!Without(calls, C!DrillCalls)
<1>1. screen.at = "board" /\ ~screen.editor.open /\ screen' = s /\ calls' = cs
  BY DEF C!AddChart
<1>2. IsBoard(screen) /\ CallShapes(calls) /\ NoDesign(calls)
  BY <1>1, BoardOpen
<1>3. cs \in SUBSET calls /\ NoDrill(cs) /\ NoDesign(cs) /\ CallShapes(cs)
  BY <1>2 DEF C!Without, NoDrill, NoDesign, CallShapes
<1>4. \A a \in {} : a.kind \in C!BoardCalls
  OBVIOUS
<1> HIDE DEF cs
<1>5. IsBoard(s) /\ ~s.editor.open /\ ~s.drill.open
  BY <1>1, <1>2 DEF IsBoard, BoardFields, C!Closed
<1>6. cs = C!Send(cs, {})
  BY <1>3, SendNothing
<1>7. Sends(cs, {}, calls')
  BY <1>1, <1>3, <1>6, SendIs
<1> HIDE DEF s
<1>8. GoodFor(s, calls')
  BY <1>2, <1>3, <1>4, <1>5, <1>7, BoardTurn
<1> QED BY <1>1, <1>8 DEF Good

LEMMA SourceKeeps ==
  ASSUME Good, NEW k, C!ChangeSource(k)
  PROVE  Good'
<1> DEFINE e == screen.editor
           f == [e EXCEPT !.src = k, !.schema = "", !.dim = "", !.groups = <<>>, !.compare = "",
                          !.path = <<>>, !.cond = "", !.result = <<>>, !.failed = FALSE]
           g == C!Effects(e, f)
           asks == {C!Ask("fields", <<k>>)}
<1>1. C!Designing /\ screen' = [screen EXCEPT !.editor = g] /\ calls' = C!Send(calls, asks)
  BY DEF C!ChangeSource, C!Use, C!Design
<1>2. /\ IsBoard(screen) /\ IsEditor(e) /\ PreviewGood(e, calls) /\ CallShapes(calls)
  BY <1>1, DesignerOpen
<1>3. IsEditor(f) /\ f.timer = e.timer /\ f.schema = ""
  BY <1>2 DEF IsEditor, EditorFields
<1>4. \A a \in asks : a.kind = "fields"
  BY DEF C!Ask
<1> HIDE DEF f, asks
<1>5. IsEditor(g) /\ PreviewGood(g, calls)
  BY <1>2, <1>3, EffectsKeep
<1> HIDE DEF g
<1>6. Sends(calls, asks, calls')
  BY <1>1, <1>2, SendIs
<1>7. \A x : x.kind = "preview" => (x \in calls' <=> x \in calls)
  BY <1>4, <1>6 DEF Sends
<1>8. PreviewGood(g, calls')
  BY <1>5, <1>7, PreviewSame
<1>9. (\A a \in asks : a.kind \in C!DesignCalls) /\ screen.editor.open
  BY <1>2, <1>4, KindsApart DEF IsEditor
<1> QED BY <1>1, <1>2, <1>5, <1>8, <1>9, EditShow

\* The timer asks for the preview of the spec as it is.
LEMMA PreviewAsked ==
  ASSUME Good, C!PreviewFires
  PROVE  Good'
<1> DEFINE e == screen.editor
           f == [[e EXCEPT !.timer = FALSE] EXCEPT !.failed = FALSE]
           asks == {C!Ask("preview", C!PreviewOf(e))}
<1>1. /\ C!Designing /\ screen' = [screen EXCEPT !.editor.timer = FALSE, !.editor.failed = FALSE]
      /\ calls' = C!Send(calls, asks)
  BY DEF C!PreviewFires, C!Show
<1>2. /\ IsBoard(screen) /\ IsEditor(e) /\ PreviewGood(e, calls) /\ CallShapes(calls)
  BY <1>1, DesignerOpen
<1>3. screen' = [screen EXCEPT !.editor = f]
  BY <1>1, <1>2 DEF IsBoard, BoardFields, IsEditor, EditorFields
<1>4. /\ IsEditor(f) /\ f.src = e.src /\ f.type = e.type /\ f.mode = e.mode /\ f.dim = e.dim
      /\ f.groups = e.groups /\ f.compare = e.compare /\ f.path = e.path /\ f.cond = e.cond
      /\ f.steps = e.steps
  BY <1>2 DEF IsEditor, EditorFields
<1>5. \A a \in asks : a.kind = "preview" /\ a.arg = C!PreviewOf(e)
  BY DEF C!Ask
<1>6. \E a \in asks : TRUE
  OBVIOUS
<1> HIDE DEF f, asks, e
<1>7. C!PreviewOf(f) = C!PreviewOf(e)
  BY <1>4 DEF C!PreviewOf, C!QuerySpec, C!IsClause, C!IsCompare, C!SupportsSeries, C!NeedsDimension
<1>8. Sends(calls, asks, calls')
  BY <1>1, <1>2, SendIs
<1>9. \A c \in calls' : IsNewest(c, "preview") => c.arg = C!PreviewOf(e)
  BY <1>5, <1>6, <1>8 DEF Sends, IsNewest
<1>10. \E c \in calls' : IsNewest(c, "preview")
  BY <1>5, <1>6, <1>8 DEF Sends
<1>11. PreviewGood(f, calls')
  BY <1>7, <1>9, <1>10 DEF PreviewGood
<1>12. (\A a \in asks : a.kind \in C!DesignCalls) /\ screen.editor.open
  BY <1>2, <1>5, KindsApart DEF IsEditor, e
<1> QED BY <1>1, <1>2, <1>3, <1>4, <1>11, <1>12, EditShow

\* The designer's answers: the source's fields, and the preview.
LEMMA DesignAnswersKeep ==
  ASSUME Good, NEW c \in calls, NEW ok \in BOOLEAN, C!FieldsLand(c, ok) \/ C!PreviewLands(c, ok)
  PROVE  Good'
<1> DEFINE e == screen.editor
           cs == calls \ {c}
<1>1. c.kind \in C!DesignCalls /\ c.kind \in C!BoardCalls
  BY KindsApart DEF C!FieldsLand, C!PreviewLands, C!BoardCalls
<1>2. C!Designing
  BY <1>1 DEF Good, GoodFor, AllBelong, Belongs, C!Designing
<1>3. /\ IsBoard(screen) /\ IsEditor(e) /\ PreviewGood(e, calls) /\ CallShapes(calls)
      /\ CallShapes(cs) /\ screen.editor.open
  BY <1>2, DesignerOpen DEF CallShapes, C!Designing
<1>4. C!Send(cs, {}) = cs /\ cs \in SUBSET calls
  BY <1>3, SendNothing
<1>5. \A a \in {} : a.kind \in C!DesignCalls /\ a.kind \in PlainAsks
  OBVIOUS
<1>6. ASSUME screen' = screen, calls' = cs, c.kind = "preview" => ~c.newest
      PROVE  Good'
  <2>1. \A x \in calls : IsNewest(x, "preview") => x \in cs
    BY <1>6 DEF IsNewest
  <2>2. PreviewGood(e, cs)
    BY <1>3, <2>1 DEF PreviewGood
  <2>3. ~screen.drill.open /\ NoDrill(cs)
    BY <1>3, BoardOpen DEF IsBoard, NoDrill
  <2>4. NoDrill(cs \cup {}) /\ \A a \in {} : a.kind \in C!BoardCalls
    BY <2>3
  <2>5. Sends(cs, {}, cs)
    BY <1>3, <1>4, SendIs
  <2> HIDE DEF cs
  <2>6. GoodFor(screen, cs)
    BY <1>3, <1>4, <2>2, <2>3, <2>4, <2>5, BoardTurn DEF IsEditor
  <2> QED BY <1>6, <2>6 DEF Good
<1>7. ASSUME NEW f, IsEditor(f), f.timer = e.timer, screen' = C!Design(f), calls' = cs,
             \/ /\ f.result = e.result /\ f.failed = e.failed
                /\ \A x \in calls : IsNewest(x, "preview") => x \in cs
             \/ f.failed
             \/ C!Complete(e) /\ ~e.timer => f.result = C!PreviewOf(e)
      PROVE  Good'
  <2> DEFINE g == C!Effects(e, f)
  <2>1. screen' = [screen EXCEPT !.editor = g]
    BY <1>7 DEF C!Design
  <2> HIDE DEF e, cs
  <2>2. IsEditor(g) /\ PreviewGood(g, cs)
    BY <1>3, <1>4, <1>7, EffectsKeep
  <2> HIDE DEF g
  <2> QED BY <1>3, <1>4, <1>5, <1>7, <2>1, <2>2, EditShow
<1>8. CASE C!FieldsLand(c, ok)
  <2> DEFINE f(dim) == [e EXCEPT !.schema = c.arg[1], !.dim = dim]
  <2>1. c.kind = "fields" /\ calls' = cs /\ (screen' = screen \/ \E dim : screen' = C!Design(f(dim)))
    BY <1>4, <1>8 DEF C!FieldsLand, C!Show
  <2>2. ASSUME NEW dim, screen' = C!Design(f(dim)) PROVE Good'
    <3>1. IsEditor(f(dim)) /\ f(dim).timer = e.timer /\ f(dim).result = e.result /\ f(dim).failed = e.failed
      BY <1>3 DEF IsEditor, EditorFields
    <3>2. \A x \in calls : IsNewest(x, "preview") => x \in cs
      BY <2>1 DEF IsNewest
    <3> HIDE DEF f, e, cs
    <3> QED BY <1>7, <2>1, <2>2, <3>1, <3>2
  <2> QED BY <1>6, <2>1, <2>2
<1>9. CASE C!PreviewLands(c, ok)
  <2>1. c.kind = "preview" /\ calls' = cs
    BY <1>4, <1>9 DEF C!PreviewLands, C!Show
  <2>2. CASE ~c.newest
    <3>1. screen' = screen
      BY <1>9, <2>2 DEF C!PreviewLands, C!Show
    <3> QED BY <1>6, <2>1, <2>2, <3>1
  <2>3. CASE c.newest /\ ok
    <3> DEFINE f == [e EXCEPT !.result = c.arg]
    <3>1. screen' = C!Design(f)
      BY <1>9, <2>3 DEF C!PreviewLands, C!Show
    <3>2. IsEditor(f) /\ f.timer = e.timer /\ f.result = c.arg
      BY <1>3 DEF IsEditor, EditorFields
    <3>3. C!Complete(e) /\ ~e.timer => c.arg = C!PreviewOf(e)
      BY <1>3, <2>1, <2>3 DEF PreviewGood, IsNewest
    <3> HIDE DEF f, e, cs
    <3> QED BY <1>7, <2>1, <3>1, <3>2, <3>3
  <2>4. CASE c.newest /\ ~ok
    <3> DEFINE f == [e EXCEPT !.failed = TRUE, !.steps = <<>>]
    <3>1. screen' = C!Design(f)
      BY <1>9, <2>4 DEF C!PreviewLands, C!Show
    <3>2. IsEditor(f) /\ f.timer = e.timer /\ f.failed
      BY <1>3 DEF IsEditor, EditorFields
    <3> HIDE DEF f, e, cs
    <3> QED BY <1>7, <2>1, <3>1, <3>2
  <2>5. c.newest \in BOOLEAN
    BY <1>3 DEF CallShapes
  <2> QED BY <2>2, <2>3, <2>4, <2>5
<1> QED BY <1>8, <1>9

-----------------------------------------------------------------------------
(* Every step, and what follows *)

LEMMA ChartStepsKeep ==
  ASSUME Good, C!ChartStep \/ C!DesignStep \/ C!OpenStep
  PROVE  Good'
<1>1. CASE C!ChartStep
  <2>1. CASE \E w : C!RemoveChart(w)
    <3>1. screen.at = "board"
      BY <2>1 DEF C!RemoveChart, C!OnBoard
    <3> QED BY <2>1, <3>1, BoardOpen, BoardAsksKeep
  <2>2. CASE \E v \in Bars : C!SectionClick(v)
    BY <2>2, ClickKeeps
  <2>3. CASE C!ToggleDrill \/ C!BackToChart
    BY <2>3, SwitchKeeps
  <2>4. CASE \E n \in 0..Levels : C!JumpTo(n)
    BY <2>4, JumpKeeps
  <2>5. CASE \E k : C!ChangeSource(k)
    BY <2>5, SourceKeeps
  <2> QED BY <1>1, <2>1, <2>2, <2>3, <2>4, <2>5 DEF C!ChartStep
<1>2. CASE C!DesignStep
  <2>1. IsBoard(screen)
    BY <1>2, DesignerOpen DEF C!DesignStep
  <2>2. CASE C!Save \/ C!Cancel
    BY <2>1, <2>2, BoardAsksKeep
  <2>3. CASE ~(C!Save \/ C!Cancel)
    <3>1. \E t : C!ChooseType(t) \/ C!ChangeMode(t) \/ C!ChooseDimension(t) \/ C!ChooseCompare(t)
                 \/ C!ChooseGroups(t) \/ C!ChoosePath(t) \/ C!ChooseFilter(t)
                 \/ C!PreviewClick(t) \/ C!PreviewBack(t)
      BY <1>2, <2>3 DEF C!DesignStep
    <3> QED BY <3>1, PickersKeep
  <2> QED BY <2>2, <2>3
<1>3. CASE C!OpenStep
  BY <1>3, OpenEditorKeeps, AddChartKeeps DEF C!OpenStep
<1> QED BY <1>1, <1>2, <1>3

LEMMA ChartAnswersKeep ==
  ASSUME Good, NEW c \in calls, NEW ok \in BOOLEAN, C!ChartLands(c, ok)
  PROVE  Good'
<1>1. c.kind \in C!BoardCalls
  BY DEF C!ChartLands, C!ShellLands, C!WidgetLands, C!RemovalLands, C!DrillLands, C!RecordsLand,
         C!FieldsLand, C!PreviewLands, C!SaveLands, C!BoardCalls
<1>2. screen.at = "board"
  BY <1>1 DEF Good, GoodFor, AllBelong, Belongs
<1>3. IsBoard(screen)
  BY <1>2, BoardOpen
<1> QED BY <1>3, ShellKeeps, WidgetKeeps, DescentKeeps, DesignAnswersKeep, BoardAsksKeep DEF C!ChartLands

LEMMA LandsKeep ==
  ASSUME Good, NEW c \in calls, Lands(c)
  PROVE  Good'
<1>1. PICK ok \in BOOLEAN : T!TableLands(c, ok) \/ C!ChartLands(c, ok) \/ V!ViewLands(c, ok)
  BY DEF Lands
<1> QED BY <1>1, TableAnswersKeep, ChartAnswersKeep, ViewAnswersKeep

LEMMA GoodAtStart == Init => Good
<1> SUFFICES ASSUME Init PROVE Good
  OBVIOUS
<1> DEFINE none == {}
           asks == IF stored THEN {Ask("me", <<>>)} ELSE {}
           at == IF stored THEN "loading" ELSE "login"
<1>1. screen = Plain(at) /\ calls = Send(none, asks)
  BY DEF Init
<1>2. Bare(none)
  BY DEF Bare, CallShapes
<1>3. OfApp(asks)
  BY AppKinds, NothingAsked DEF AppAsks
<1>4. at \notin {"report", "dataset", "board"}
  OBVIOUS
<1> HIDE DEF none, asks, at
<1>5. Sends(none, asks, calls)
  BY <1>1, <1>2, SendIs DEF Bare
<1>6. Bare(calls)
  BY <1>2, <1>3, <1>5 DEF Bare, OfApp, Sends
<1>7. "at" \in DOMAIN screen /\ screen.at = at
  BY <1>1 DEF Plain
<1> QED BY <1>4, <1>6, <1>7, NoCallsGood DEF Good

LEMMA GoodStep == Good /\ [Next]_vars => Good'
<1> SUFFICES ASSUME Good, [Next]_vars PROVE Good'
  OBVIOUS
<1>1. CASE User
  <2>1. CASE SignIn \/ SignOut
    BY <2>1, SessionKeeps
  <2>2. CASE OpenSection \/ ToggleBuilding \/ CreateDashboard \/ DeleteDashboard \/ \E k : PickDashboard(k)
    BY <2>2, SectionsKeep
  <2>3. CASE T!TableStep
    BY <2>3, TableStepsKeep
  <2>4. CASE C!ChartStep \/ C!DesignStep \/ C!OpenStep
    BY <2>4, ChartStepsKeep
  <2>5. CASE V!ViewStep
    BY <2>5, ViewStepsKeep
  <2> QED BY <1>1, <2>1, <2>2, <2>3, <2>4, <2>5 DEF User
<1>2. CASE Timer
  BY <1>2, TableStepsKeep, PreviewAsked, ViewStepsKeep DEF Timer
<1>3. CASE Network
  <2>1. CASE RefreshGranted /\ UNCHANGED <<app, screen, acts>>
    BY <2>1, ClientKeeps
  <2>2. CASE SessionExpires
    BY <2>2, SessionKeeps
  <2>3. ASSUME NEW c \in calls, Unauthorized(c), UNCHANGED <<app, screen, acts>> PROVE Good'
    BY <2>3, ClientKeeps
  <2>4. ASSUME NEW c \in calls,
               SignInLands(c) \/ SignInFails(c) \/ MeFails(c) \/ \E who \in Users : MeLands(c, who)
        PROVE  Good'
    BY <2>4, SessionKeeps
  <2>5. ASSUME NEW c \in calls,
               \/ \E rows : ListLands(c, rows)
               \/ \E k : CreationLands(c, k)
               \/ ListFails(c) \/ CreationFails(c) \/ DeletionLands(c) \/ DeletionFails(c)
        PROVE  Good'
    BY <2>5, SectionsKeep
  <2> QED BY <1>3, <2>1, <2>2, <2>3, <2>4, <2>5, LandsKeep DEF Network
<1>4. CASE UNCHANGED vars
  <2>1. screen' = screen /\ calls' = calls
    BY <1>4 DEF vars
  <2> QED BY <2>1 DEF Good
<1> QED BY <1>1, <1>2, <1>3, <1>4 DEF Next

\* Every request under way belongs to what is on the screen; the newest rows and
\* the newest preview asked for are those of what is chosen now; and unless a
\* breadcrumb was used while a click waited, a drilled chart waits for one
\* answer at most (App, DashboardView, ReportView, DataSetsTab, ChartEditor and
\* DrilldownChart).
THEOREM ScreensInvariant == Spec => []Good
<1> QED BY GoodAtStart, GoodStep, PTL DEF Spec

\* What a table (ReportView.fetchReportData, DataSetsTab.fetchRows) and the
\* designer's preview (ChartEditor) show at rest is the answer to what is
\* chosen now, in whatever order the requests were answered, retried after a
\* refresh of the token, or failed.
THEOREM LastAnswerShown == Spec => []LatestWins
<1>1. Good => LatestWins
  <2> SUFFICES ASSUME Good PROVE LatestWins
    OBVIOUS
  <2>1. screen.at \in {"report", "dataset"} => T!TableIsCurrent(screen)
    BY DEF Good, GoodFor, TableGood, T!TableIsCurrent, T!TableAtRest, IsNewest
  <2>2. C!Designing => C!PreviewIsCurrent(screen.editor)
    BY DesignerOpen DEF PreviewGood, C!PreviewIsCurrent, IsNewest
  <2> QED BY <2>1, <2>2 DEF LatestWins
<1> QED BY <1>1, ScreensInvariant, PTL

\* The crumbs above a drilled chart, its bars and the records under it are
\* those of one path (DrilldownChart), for a drill path of any length and any
\* values: unless a jump or a switch met a click that waited.
THEOREM CrumbsTellThePath == Spec => []CrumbsDescribeChart
<1>1. Good => CrumbsDescribeChart
  BY DEF Good, GoodFor, BoardGood, DrillGood, CrumbsDescribeChart
<1> QED BY <1>1, ScreensInvariant, PTL
=============================================================================
