---------------------------- MODULE HistoryShared ----------------------------
(***************************************************************************)
(* A history database as its readers see it: rows that other sessions, or  *)
(* other threads of this one, add and delete between any two calls of      *)
(* HistoryStore (history/store.rs), each of which holds the lock once.     *)
(***************************************************************************)
EXTENDS Naturals, Sequences, FiniteSets, SequencesExt

CONSTANTS
  MaxRows, \* bound: rows ever
  Row,     \* what the properties tell of each row, by its id
  MaxDeletes \* bound: rows that somebody else deletes

Ids == 1..MaxRows

\* of this session; started at or after the time asked for (not so without a time);
\* meets what the query leaves to the database; meets the browser's host:, cwd: and
\* exit: criteria; its fuzzy score for the browser's pattern, 0 if it does not match
RowType == [own : BOOLEAN, recent : BOOLEAN, found : BOOLEAN, meets : BOOLEAN, score : Nat]

ASSUME SharedAssumption ==
  MaxRows \in Nat /\ MaxDeletes \in Nat /\ Row \in [Ids -> RowType]

VARIABLES
  rows,    \* the ids of the rows in the database
  lastRow, \* its AUTOINCREMENT counter
  deletes  \* how much of the bound is used up

storeVars == <<rows, lastRow, deletes>>

\* A database with history in it, gaps included.
SharedInit ==
  /\ rows \in SUBSET Ids
  /\ lastRow \in {i \in Ids \cup {0} : \A r \in rows : r <= i}
  /\ deletes = 0

OtherInserts ==
  /\ lastRow < MaxRows
  /\ lastRow' = lastRow + 1
  /\ rows' = rows \cup {lastRow + 1}
  /\ UNCHANGED deletes

OtherDeletes ==
  /\ deletes < MaxDeletes
  /\ \E r \in rows : rows' = rows \ {r}
  /\ deletes' = deletes + 1
  /\ UNCHANGED lastRow

\* The elements of S, which before puts in an order, by how many are before each.
InOrder(S, before(_, _)) ==
  [n \in 1..Cardinality(S) |->
     CHOOSE x \in S : Cardinality({y \in S : before(y, x)}) = n - 1]

\* SqliteBackedHistory::search, backwards: rows with P, below an id, newest first
Newest(S, limit) ==
  LET all == InOrder(S, LAMBDA x, y : x > y) IN
  SubSeq(all, 1, IF Len(all) < limit THEN Len(all) ELSE limit)
=============================================================================
