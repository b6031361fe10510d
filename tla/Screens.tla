------------------------------ MODULE Screens ------------------------------
(***************************************************************************)
(* The browser application: the session (App, Login), the sections it      *)
(* shows and the screens in them, over one client for all requests.        *)
(***************************************************************************)
EXTENDS ApiClient

CONSTANTS
  Views, Datasets, Columns, FirstSort, LastPage,        \* the tables
  Widgets, Drilled, Bars, Levels, Dimensions, FieldsOf(_), \* dashboards, views
  Users,    \* who may sign in, of "admin" and "member"
  Boards,   \* dashboards, as a sequence: the order of the list
  MaxActs,  \* what a user does before leaving it at that ..
  MaxEdits, \* .. of it on a table, in the designer or on a draft
  MaxCalls  \* the user waits while so many requests are under way

VARIABLES
  user,    \* who is signed in: "none", "admin" or "member"
  active,  \* the dashboard that is picked, "" when there is none
  building,\* the form for a new dashboard takes the dashboards' place
  screen, acts

vars == <<stored, refreshing, calls, user, active, building, screen, acts>>
app == <<user, active, building>>

T == INSTANCE TableScreens
C == INSTANCE ChartScreens WITH Sources <- Datasets
V == INSTANCE ViewScreens

\* A screen with no requests of its own; `back' is the section a sign-in page
\* hides, for App keeps it.
Plain(at) == [at |-> at, message |-> "none", back |-> "home"]

\* Calls of the screens, which go with them; those of App itself stay.
ScreenCalls == T!TableCalls \cup C!BoardCalls \cup V!ViewCalls

\* One view or dataset stands for whichever App remembers or lists first.
First(S) == CHOOSE k \in S : TRUE

\* What a list holds.
Elements(list) == {list[i] : i \in DOMAIN list}

---------------------------------------------------------------------------
(* The session. *)

\* The page is opened with whatever tokens localStorage holds: App asks who
\* they belong to, or shows the sign-in page.
Init ==
  /\ stored \in BOOLEAN
  /\ refreshing = "no"
  /\ user = "none" /\ active = "" /\ building = FALSE
  /\ acts = MaxActs
  /\ screen = Plain(IF stored THEN "loading" ELSE "login")
  /\ calls = Send({}, IF stored THEN {Ask("me", <<>>)} ELSE {})

\* Login.submit
SignIn ==
  /\ screen.at = "login"
  /\ T!Act([screen EXCEPT !.message = "none"], {Ask("login", <<>>)}, calls)
  /\ UNCHANGED app

\* The password is right: keep the tokens and ask who the user is.
SignInLands(c) ==
  /\ c.kind = "login" /\ InFlight(c)
  /\ stored' = TRUE
  /\ calls' = Send(calls \ {c}, {Ask("me", <<>>)})
  /\ UNCHANGED <<refreshing, app, screen, acts>>

\* Only a second 401 is told as a wrong password.
SignInFails(c) ==
  /\ c.kind = "login" /\ InFlight(c)
  /\ calls' = calls \ {c}
  /\ screen' = IF screen.at # "login" THEN screen
               ELSE [screen EXCEPT !.message = IF c.phase = "again" THEN "wrong password" ELSE "no server"]
  /\ UNCHANGED <<stored, refreshing, app, acts>>

\* Another screen takes the place of the one that is open.
Mount(turn, cs, asks) ==
  /\ screen' = turn.to
  /\ calls' = Send(Without(cs, ScreenCalls), turn.asks \cup asks)

HomeOf(k) ==
  CASE building -> [to |-> Plain("builder"), asks |-> {}]
    [] ~building /\ k = "" -> [to |-> Plain("home"), asks |-> {}]
    [] OTHER -> C!OpenBoard(k)

\* The section App shows, behind the sign-in page too.
Section(s) ==
  CASE s.at \in {"login", "loading"} -> s.back
    [] s.at \in {"report", "dataset", "views"} -> s.at
    [] OTHER -> "home"

\* What `who' sees of a section: the raw datasets and the views tab are an
\* administrator's.
Opened(section, who) ==
  CASE section = "report" -> T!OpenReport(First(Views))
    [] section = "dataset" /\ who = "admin" -> T!OpenDataset(First(Datasets))
    [] section = "views" /\ who = "admin" -> V!OpenViews
    [] section = "home" -> HomeOf(active)
    [] OTHER -> [to |-> Plain("nothing"), asks |-> {}]

\* Who the user is: App's effect on `user' loads the dashboards.
MeLands(c, who) ==
  /\ c.kind = "me" /\ InFlight(c)
  /\ user' = who
  /\ IF user = "none" THEN Mount(Opened(screen.back, who), calls \ {c}, {Ask("list", <<>>)})
     ELSE screen' = screen /\ calls' = Send(calls \ {c}, {Ask("list", <<>>)})
  /\ UNCHANGED <<stored, refreshing, active, building, acts>>

\* At the start that shows the sign-in page; after a sign-in it stays there.
MeFails(c) ==
  /\ c.kind = "me" /\ InFlight(c)
  /\ calls' = calls \ {c}
  /\ screen' = IF screen.at = "loading" THEN Plain("login") ELSE screen
  /\ UNCHANGED <<stored, refreshing, app, acts>>

\* The session is over: the sign-in page, whatever was open.
Ended(message) ==
  /\ user' = "none"
  /\ screen' = [Plain("login") EXCEPT !.message = message, !.back = Section(screen)]

SignOut ==
  /\ user # "none" /\ acts > 0 /\ acts' = acts - 1
  /\ stored' = FALSE
  /\ Ended("none")
  /\ calls' = Without(calls, ScreenCalls)
  /\ UNCHANGED <<refreshing, active, building>>

\* onUnauthorized, for all the requests that waited.
SessionExpires ==
  /\ RefreshDenied
  /\ Ended(IF screen.at = "login" /\ \E c \in calls : c.kind = "login" /\ c.phase = "waiting"
             THEN "no server" ELSE "none")
  /\ calls' = Without({c \in calls : c.phase # "waiting"}, ScreenCalls)
  /\ UNCHANGED <<active, building, acts>>

---------------------------------------------------------------------------
(* The sections. *)

\* Bound: the user opens another screen when App's own requests are answered.
AppAtRest(cs) == \A c \in cs : c.kind \in ScreenCalls

\* The tabs: views for all, raw datasets and the admin panel for administrators.
GoTo(section) ==
  /\ user # "none" /\ acts > 0 /\ acts' = T!Left
  /\ Section(screen) # section /\ AppAtRest(calls)
  /\ Mount(Opened(section, user), calls, {})
  /\ UNCHANGED <<stored, refreshing, app>>

OpenSection ==
  \/ GoTo("home")
  \/ GoTo("report")
  \/ user = "admin" /\ (GoTo("dataset") \/ GoTo("views"))

\* The form for a new dashboard is opened or left without saving.
ToggleBuilding ==
  /\ user = "admin" /\ screen.at \in {"home", "board", "builder"}
  /\ acts > 0 /\ acts' = T!Left
  /\ AppAtRest(calls)
  /\ building' = ~building
  /\ IF building /\ active # "" THEN Mount(C!OpenBoard(active), calls, {})
     ELSE Mount([to |-> Plain(IF building THEN "home" ELSE "builder"), asks |-> {}], calls, {})
  /\ UNCHANGED <<stored, refreshing, user, active>>

\* Another dashboard is another component.
Activate(k, cs) ==
  IF screen.at \in {"home", "board"} /\ k # active THEN Mount(HomeOf(k), cs, {})
  ELSE screen' = screen /\ calls' = cs

PickDashboard(k) ==
  /\ screen.at = "board" /\ k # active /\ acts > 0 /\ acts' = acts - 1
  /\ active' = k
  /\ Activate(k, calls)
  /\ UNCHANGED <<stored, refreshing, user, building>>

\* The list keeps the active dashboard if it is still there, else takes the
\* first.  Others make and delete dashboards too.
ListLands(c, rows) ==
  /\ c.kind = "list" /\ InFlight(c)
  /\ LET k == IF active \in Elements(rows) THEN active
              ELSE IF rows = <<>> THEN "" ELSE Head(rows)
     IN  active' = k /\ Activate(k, calls \ {c})
  /\ UNCHANGED <<stored, refreshing, user, building, acts>>

ListFails(c) ==
  /\ c.kind = "list" /\ InFlight(c)
  /\ calls' = calls \ {c}
  /\ UNCHANGED <<stored, refreshing, app, screen, acts>>

\* DashboardBuilder.save; App then reloads the list and activates the new one,
\* which a list that is already on its way does not know.
CreateDashboard ==
  /\ screen.at = "builder"
  /\ T!Act(screen, {Ask("create", <<>>)}, calls)
  /\ UNCHANGED app

CreationLands(c, k) ==
  /\ c.kind = "create" /\ InFlight(c)
  /\ active' = k /\ building' = FALSE
  /\ IF screen.at = "builder" THEN Mount(C!OpenBoard(k), calls \ {c}, {Ask("list", <<>>)})
     ELSE screen' = screen /\ calls' = Send(calls \ {c}, {Ask("list", <<>>)})
  /\ UNCHANGED <<stored, refreshing, user, acts>>

CreationFails(c) ==
  /\ c.kind = "create" /\ InFlight(c)
  /\ calls' = calls \ {c}
  /\ UNCHANGED <<stored, refreshing, app, screen, acts>>

DeleteDashboard ==
  /\ screen.at = "board" /\ user = "admin"
  /\ T!Act(screen, {Ask("remove", <<>>)}, calls)
  /\ UNCHANGED app

\* No dashboard is active until the list is there.
DeletionLands(c) ==
  /\ c.kind = "remove" /\ InFlight(c)
  /\ active' = ""
  /\ IF screen.at = "board" THEN Mount(HomeOf(""), calls \ {c}, {Ask("list", <<>>)})
     ELSE screen' = screen /\ calls' = Send(calls \ {c}, {Ask("list", <<>>)})
  /\ UNCHANGED <<stored, refreshing, user, building, acts>>

DeletionFails(c) ==
  /\ c.kind = "remove" /\ InFlight(c)
  /\ calls' = calls \ {c}
  /\ UNCHANGED <<stored, refreshing, app, screen, acts>>

---------------------------------------------------------------------------
\* An answer to one of the open screen's requests.
Lands(c) ==
  /\ \/ InFlight(c) /\ (T!TableLands(c, TRUE) \/ C!ChartLands(c, TRUE) \/ V!ViewLands(c, TRUE))
     \/ InFlight(c) /\ (T!TableLands(c, FALSE) \/ C!ChartLands(c, FALSE) \/ V!ViewLands(c, FALSE))
  /\ UNCHANGED app

\* An answer, or a refusal, from the server.
Network ==
  \/ \E c \in calls :
       \/ Unauthorized(c) /\ UNCHANGED <<app, screen, acts>>
       \/ SignInLands(c) \/ SignInFails(c) \/ MeFails(c)
       \/ \E who \in Users : MeLands(c, who)
       \/ \E n \in 0..Len(Boards) : ListLands(c, SubSeq(Boards, 1, n))
       \/ ListFails(c)
       \/ CreationLands(c, Boards[Len(Boards)]) \/ CreationFails(c)
       \/ DeletionLands(c) \/ DeletionFails(c)
       \/ Lands(c)
  \/ RefreshGranted /\ UNCHANGED <<app, screen, acts>>
  \/ SessionExpires

\* A timer of the open screen fires.
Timer == (T!Debounced \/ C!PreviewFires \/ V!MatchesFire) /\ UNCHANGED app

\* What the user does; patient enough to bound the requests under way.
User ==
  /\ Cardinality(calls) < MaxCalls
  /\ \/ SignIn \/ SignOut \/ OpenSection \/ ToggleBuilding
     \/ \E k \in Elements(Boards) : PickDashboard(k)
     \/ CreateDashboard \/ DeleteDashboard
     \/ (T!TableStep \/ C!ChartStep \/ C!DesignStep \/ V!ViewStep) /\ UNCHANGED app
     \/ AppAtRest(calls) /\ C!OpenStep /\ UNCHANGED app

Next == User \/ Timer \/ Network

Spec == Init /\ [][Next]_vars

\* A request is answered, refused or cut off some time; a timer fires.
FairSpec == Spec /\ WF_vars(Network) /\ WF_vars(Timer)

---------------------------------------------------------------------------
(* Properties. *)

\* The rows of a table and the designer's preview answer what is chosen now,
\* however many requests were made and in whatever order they were answered:
\* once no timer runs and the newest request has been answered.
LatestWins ==
  /\ screen.at \in {"report", "dataset"} => T!TableIsCurrent(screen)
  /\ C!Designing => C!PreviewIsCurrent(screen.editor)

\* Crumbs, bars and records of a drilled chart belong together.
CrumbsDescribeChart ==
  screen.at = "board" /\ screen.drill.open /\ ~screen.drill.raced => C!PathHolds(screen.drill)

\* Nothing waits for ever: no request, no card that keeps loading, no preview.
Settled ==
  /\ calls = {} /\ refreshing = "no" /\ screen.at # "loading"
  /\ screen.at = "board" => screen.pending = {}
  /\ screen.at = "views" /\ screen.draft.open => ~screen.loading
ScreensSettle == <>[]Settled
=============================================================================
