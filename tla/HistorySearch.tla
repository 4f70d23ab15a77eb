---------------------------- MODULE HistorySearch ----------------------------
(***************************************************************************)
(* A client's history request (query_history in ipc/mod.rs), answered on   *)
(* the server's thread from the store the session opened (HistoryRuntime   *)
(* in history/store.rs) page by page, the lock released between pages.     *)
(***************************************************************************)
EXTENDS Integers, HistoryShared

CONSTANTS
  PageSize, \* PAGE_SIZE
  Limits    \* bound: limits asked for

ASSUME SearchAssumption == PageSize \in Nat \ {0} /\ Limits \subseteq Int

VARIABLES
  qRuntime, \* the history the session has got, see initialize
  qAsked,   \* the parameters of the request, once it is there
  qPage,    \* start_id of the next page, 0 for the first; NoPage when none is searched
  qMatched, \* matched
  qAnswer,  \* the response
  qStayed   \* history: rows there from the request on

searchVars == <<qRuntime, qAsked, qPage, qMatched, qAnswer, qStayed>>

NoPage == MaxRows + 2
Unanswered == [kind |-> "none", entries |-> <<>>]
Error(kind) == [kind |-> kind, entries |-> <<>>]
Entries(seq) == [kind |-> "entries", entries |-> seq]

\* since: absent, a text that is no time, or a time
Requests == [all : BOOLEAN, since : {"none", "bad", "time"}, limit : Limits]
Nothing == [all |-> FALSE, since |-> "none", limit |-> 0]

\* HistoryRuntime::initialize: a file that cannot be opened, or no path for it, means a
\* database in memory; without that one, no history.
initialize(mode, opens, memory) ==
  IF mode = "persistent" /\ opens THEN "persistent"
  ELSE IF memory THEN "volatile" ELSE "unavailable"

\* The database in memory is empty when the session starts.
SearchInit ==
  /\ \E mode \in {"persistent", "volatile"}, opens \in BOOLEAN, memory \in BOOLEAN :
       qRuntime = initialize(mode, opens, memory)
  /\ qRuntime = "persistent" \/ (rows = {} /\ lastRow = 0)
  /\ qAsked = Nothing /\ qPage = NoPage /\ qMatched = <<>> /\ qAnswer = Unanswered
  /\ qStayed = {}

\* Rows in the answer: of this session unless all are asked for, not older than the time
\* (a row without a timestamp is), and with the directory and the text asked for.
Matches(r) ==
  /\ Row[r].found
  /\ qAsked.all \/ Row[r].own
  /\ qAsked.since = "time" => Row[r].recent

Taken(seq, limit) == SubSeq(seq, 1, IF Len(seq) < limit THEN Len(seq) ELSE limit)

------------------------------------------------------------------------------
\* query_history up to its first search. Without a session id only all_sessions works;
\* the console gives every store one.
Ask(request) ==
  /\ qAnswer = Unanswered /\ qPage = NoPage
  /\ qAsked' = request
  /\ qStayed' = rows
  /\ \/ request.limit < 1 /\ qAnswer' = Error("invalid") /\ UNCHANGED qPage
     \/ /\ request.limit >= 1 /\ qRuntime = "unavailable"
        /\ qAnswer' = Error("internal") /\ UNCHANGED qPage
     \/ /\ request.limit >= 1 /\ qRuntime # "unavailable" /\ request.since = "bad"
        /\ qAnswer' = Error("invalid") /\ UNCHANGED qPage
     \/ /\ request.limit >= 1 /\ qRuntime # "unavailable" /\ request.since # "bad"
        /\ qPage' = 0 /\ UNCHANGED qAnswer
  /\ UNCHANGED <<qRuntime, qMatched, storeVars>>

\* All sessions without a time: one query, its limit left to the database.
SearchOnce ==
  /\ qPage = 0 /\ qAsked.all /\ qAsked.since = "none"
  /\ qAnswer' = Entries(Newest({r \in rows : Row[r].found}, qAsked.limit))
  /\ qPage' = NoPage
  /\ UNCHANGED <<qRuntime, qAsked, qMatched, qStayed, storeVars>>

\* One page, newest first, below the last row of the one before.
Page == Newest({r \in rows : Row[r].found /\ (qPage > 0 => r < qPage)}, PageSize)

\* Those of its rows that match, in its order
PageMatches == Newest({r \in Range(Page) : Matches(r)}, PageSize)

\* Bug: the rows of the page that match are counted, not those of the page.
LastMatchedPage == Len(PageMatches) < PageSize

\* The page is not full: there is nothing below it.
LastPage == Len(Page) < PageSize

SearchPage ==
  /\ qPage # NoPage /\ ~(qAsked.all /\ qAsked.since = "none")
  /\ LET matched == qMatched \o PageMatches IN
     IF Len(matched) >= qAsked.limit \/ LastPage
     THEN /\ qAnswer' = Entries(Taken(matched, qAsked.limit))
          /\ qPage' = NoPage /\ qMatched' = <<>>
     ELSE qPage' = Last(Page) /\ qMatched' = matched /\ UNCHANGED qAnswer
  /\ UNCHANGED <<qRuntime, qAsked, qStayed, storeVars>>

\* The database reports an error.
SearchFails ==
  /\ qPage # NoPage
  /\ qAnswer' = Error("internal")
  /\ qPage' = NoPage /\ qMatched' = <<>>
  /\ UNCHANGED <<qRuntime, qAsked, qStayed, storeVars>>

\* Commands end, and rows go, in this session or another; a database in memory has no
\* other session, but its own is never idle while the server's thread searches.
Meanwhile ==
  /\ qRuntime # "unavailable" /\ qAnswer = Unanswered
  /\ OtherInserts \/ OtherDeletes
  /\ qStayed' = qStayed \cap rows'
  /\ UNCHANGED <<qRuntime, qAsked, qPage, qMatched, qAnswer>>

SearchNext ==
  \/ \E request \in Requests : Ask(request)
  \/ SearchOnce \/ SearchPage \/ SearchFails \/ Meanwhile

SearchSpec == SharedInit /\ SearchInit /\ [][SearchNext]_<<searchVars, storeVars>>

------------------------------------------------------------------------------
\* An answer is the newest matching rows, newest first, no more than asked for, and none
\* that was there all the time is missing, whatever is written between the pages: if one
\* is, the limit is reached with newer ones (search_strict_session).
AnswerComplete ==
  qAnswer.kind = "entries" =>
    LET e == qAnswer.entries IN
    /\ Len(e) <= qAsked.limit
    /\ \A i \in DOMAIN e : Matches(e[i]) /\ \A j \in 1..i - 1 : e[j] > e[i]
    /\ \A r \in qStayed : Matches(r) /\ r \notin Range(e) =>
         Len(e) = qAsked.limit /\ \A i \in DOMAIN e : e[i] > r
=============================================================================
