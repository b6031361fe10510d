----------------------------- MODULE ApiClient -----------------------------
(***************************************************************************)
(* The browser's side of every request: api.ts with the tokens of auth.ts. *)
(* A request the server refuses with 401 waits for one refresh that all    *)
(* the refused requests share; it is sent again once, with the new token,  *)
(* or the session ends.  Answers come back in any order.  What a request   *)
(* asks is a kind and a tuple; what a screen does with the answer is the   *)
(* matter of the screens' modules.                                         *)
(***************************************************************************)
EXTENDS Naturals, Sequences, FiniteSets

VARIABLES
  stored,      \* localStorage holds the two tokens: they come and go together
  refreshing,  \* refreshInFlight: "no", or whether it had a token to send
  calls        \* the requests under way

client == <<stored, refreshing, calls>>

Ask(k, a) == [kind |-> k, arg |-> a]

\* Equal requests are told apart by their twin number.
Twin(cs, a) ==
  CHOOSE n \in 1..(Cardinality(cs) + 1) :
    /\ \A c \in cs : c.kind = a.kind /\ c.arg = a.arg => c.twin # n
    /\ \A m \in 1..(n - 1) :
         \E c \in cs : c.kind = a.kind /\ c.arg = a.arg /\ c.twin = m

\* The first fetch of each of the requests `asks'.  A request supersedes those
\* of its kind that are under way: the screens that count their requests
\* (requestSeq, previewSeq) heed the newest only.
Send(cs, asks) ==
  LET before == {[c EXCEPT !.newest = @ /\ \A a \in asks : a.kind # c.kind] : c \in cs}
  IN  before \cup {[kind |-> a.kind, arg |-> a.arg, newest |-> TRUE, phase |-> "sent",
                    twin |-> Twin(cs, a)] : a \in asks}

\* The screen that asked is gone: its answers change nothing any more.
Without(cs, kinds) == {c \in cs : c.kind \notin kinds}

\* A request the server may answer; it fails when there is no connection, when
\* the server has an error, and when it is refused a second time.
InFlight(c) == c \in calls /\ c.phase # "waiting"

\* A 401 on the first attempt, for the access token is good for 15 minutes and
\* a password may be wrong: wait for the refresh, which the first 401 starts.
Unauthorized(c) ==
  /\ InFlight(c) /\ c.phase = "sent"
  /\ calls' = (calls \ {c}) \cup {[c EXCEPT !.phase = "waiting"]}
  /\ refreshing' = IF refreshing # "no" THEN refreshing
                   ELSE IF stored THEN "with token" ELSE "without"
  /\ UNCHANGED stored

\* Mutant: the second attempt counts as a first one.
RetriedAfresh(c) == IF c.phase = "waiting" THEN [c EXCEPT !.phase = "sent"] ELSE c

\* The requests that waited are sent again with the new token.
Retried(c) == IF c.phase = "waiting" THEN [c EXCEPT !.phase = "again"] ELSE c

\* doRefresh brings two new tokens.
RefreshGranted ==
  /\ refreshing = "with token"
  /\ stored' = TRUE /\ refreshing' = "no"
  /\ calls' = {Retried(c) : c \in calls}

\* doRefresh fails, or there was nothing to refresh with: tokenStore.clear, and
\* every request that waited throws "Session expired".
RefreshDenied == refreshing # "no" /\ refreshing' = "no" /\ stored' = FALSE
=============================================================================
