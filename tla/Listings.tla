------------------------------ MODULE Listings ------------------------------
(***************************************************************************)
(* Lists read page by page while their rows change: the charging history   *)
(* of a driver (charging-history/charging-history.repository.ts), whose    *)
(* cursor holds the sort value and the id of the last row and the asOf of  *)
(* the first page, and the lists of the administration                     *)
(* (admin/admin-operations.service.ts), whose cursor is the id of the last *)
(* row, which is looked up among the rows that match and skipped.  The     *)
(* statement of the wallet (payments/wallet/wallet.service.ts) goes on     *)
(* from the time and the id of its last row, without an asOf.              *)
(*                                                                         *)
(* Sorting by energy or cost is sorting by a column that changes, as the   *)
(* duration does when a session ends.                                      *)
(***************************************************************************)
EXTENDS Integers, Sequences, SequencesExt, FiniteSets

CONSTANTS
  MaxRows,      \* bound on sessions
  MaxTime,      \* bound on the clock
  Limit         \* rows of a page

VARIABLES
  row,          \* charging_sessions: when each started and ended, and whether it matches the filter
  now,          \* the clock
  list,         \* the list that is read: its sort, asOf, cursor, and whether it has ended
  shown,        \* how often each row was shown
  steady,       \* rows there were at the first page and that have not changed since
  cut           \* whether an administrative list was asked to go on from a row that no longer matches

vars == <<row, now, list, shown, steady, cut>>

-----------------------------------------------------------------------------
(* Data *)

HistorySorts == {"RECENT", "OLDEST", "DURATION_ASC", "DURATION_DESC"}
Sorts == HistorySorts \cup {"STATEMENT", "ADMIN"}
Open == -1
Rows == DOMAIN row
NoCursor == [value |-> -1, id |-> 0]
Desc == list.sort \in {"RECENT", "DURATION_DESC", "STATEMENT"}

\* sortConfiguration.  The duration of an open session is taken at asOf.
SortValue(i) ==
  CASE list.sort = "ADMIN" -> 0
    [] list.sort \in {"RECENT", "OLDEST", "STATEMENT"} -> row[i].start
    [] OTHER -> Max({0, (IF row[i].end = Open THEN list.asOf ELSE row[i].end) - row[i].start})

\* cursorCondition.
After(i, c) ==
  LET v == SortValue(i) IN
  \/ c = NoCursor
  \/ IF Desc THEN v < c.value \/ (v = c.value /\ i < c.id)
             ELSE v > c.value \/ (v = c.value /\ i > c.id)

Before(i, j) == After(j, [value |-> SortValue(i), id |-> i])

Sorted(S) == SetToSortSeq(S, Before)

Take(s) == SubSeq(s, 1, Min({Limit, Len(s)}))

Matching == {i \in Rows : row[i].matches}

-----------------------------------------------------------------------------
(* The rows, as long as somebody reads the list *)

Start ==
  /\ Len(row) < MaxRows /\ ~list.ended
  /\ row' = Append(row, [start |-> now, end |-> Open, matches |-> TRUE])
  /\ UNCHANGED <<now, list, shown, steady, cut>>

\* A session ends, or what the filter asks of it changes.
Change(i) ==
  /\ ~list.ended
  /\ \/ /\ row[i].end = Open
        /\ row' = [row EXCEPT ![i].end = now]
     \/ row' = [row EXCEPT ![i].matches = ~@]
  /\ steady' = steady \ {i}
  /\ UNCHANGED <<now, list, shown, cut>>

Tick ==
  /\ now < MaxTime /\ ~list.ended
  /\ now' = now + 1
  /\ UNCHANGED <<row, list, shown, steady, cut>>

-----------------------------------------------------------------------------
(* The pages *)

\* The first page: asOf is the time of its request.
OpenList(sort) ==
  /\ list.sort = "none"
  /\ list' = [sort |-> sort, asOf |-> now, cursor |-> NoCursor, ended |-> FALSE]
  /\ steady' = Matching
  /\ UNCHANGED <<row, now, shown, cut>>

\* Faulty variant: each page takes the time of its own request.
AsOfNow == now

AsOfCursor == list.asOf

Turn(rest, page) ==
  /\ shown' = [i \in 1 .. MaxRows |-> shown[i]
                                        + (IF i \in ToSet(page) THEN 1 ELSE 0)]
  /\ list' = [list EXCEPT !.asOf = AsOfCursor,
                          !.ended = Len(rest) <= Limit,
                          !.cursor = IF page = <<>> THEN @
                                     ELSE [value |-> SortValue(Last(page)), id |-> Last(page)]]

\* One row more than the page tells whether there is a next.
Page ==
  /\ LET rest == Sorted({i \in Matching : After(i, list.cursor)}) IN Turn(rest, Take(rest))
  /\ UNCHANGED <<row, now, steady, cut>>

\* ChargingHistoryRepository.list
HistoryPage == list.sort \in HistorySorts /\ ~list.ended /\ Page

\* WalletService.transactions
StatementPage == list.sort = "STATEMENT" /\ ~list.ended /\ Page

\* Each list of the administration is one query by id: from the row of the cursor on,
FromCursor == Sorted({i \in Matching : i >= list.cursor.id})

\* but for the first of them, whichever it is.
SkipCursor(from) == IF list.cursor = NoCursor THEN from ELSE SubSeq(from, 2, Len(from))

\* listStations, listSessions, listDrivers, ... and cursorPage.
AdminPage ==
  /\ list.sort = "ADMIN" /\ ~list.ended
  /\ LET rest == SkipCursor(FromCursor) IN Turn(rest, Take(rest))
  /\ cut' = (cut \/ (list.cursor # NoCursor /\ list.cursor.id \notin Matching))
  /\ UNCHANGED <<row, now, steady>>

-----------------------------------------------------------------------------

Init ==
  /\ row = <<>> /\ now = 0 /\ steady = {} /\ cut = FALSE
  /\ list = [sort |-> "none", asOf |-> 0, cursor |-> NoCursor, ended |-> FALSE]
  /\ shown = [i \in 1 .. MaxRows |-> 0]

Next ==
  \/ Start \/ Tick \/ HistoryPage \/ StatementPage \/ AdminPage
  \/ \E i \in Rows : Change(i)
  \/ \E sort \in Sorts : OpenList(sort)

Spec == Init /\ [][Next]_vars

-----------------------------------------------------------------------------
(* Properties *)

\* Every variable has its type.
TypeOK ==
  /\ \A i \in Rows : row[i].start \in 0 .. MaxTime /\ row[i].end \in {Open} \cup 0 .. MaxTime
  /\ now \in 0 .. MaxTime
  /\ list.sort \in Sorts \cup {"none"}
  /\ steady \subseteq Rows

\* A row that was there when the list was opened and has not changed since is shown exactly once
\* by the time the list ends, and never twice, whatever sessions start, end and go out of the
\* filter between the pages and however long they take; an administrative list may miss one, but
\* only after it was asked to go on from a row that had stopped matching (list, transactions,
\* cursorPage).
ListedOnce ==
  \A i \in steady :
    /\ shown[i] <= 1
    /\ list.ended /\ ~cut => shown[i] = 1
=============================================================================
