---------------------------- MODULE HistoryBrowser ----------------------------
(***************************************************************************)
(* The history browser (pager/history_browser.rs): a list of rows loaded   *)
(* once, of which a filter shows some in an order of its own, and of which *)
(* the user selects some, perhaps under several filters, to delete them.   *)
(***************************************************************************)
EXTENDS HistoryShared

CONSTANTS
  MaxEntries,  \* MAX_ENTRIES
  MinRows,     \* MIN_SIZE.rows
  Chrome,      \* lines of the terminal that show no row
  MinVisible,  \* rows shown at least
  Heights      \* bound: heights of the terminal

ASSUME BrowserAssumption ==
  /\ MaxEntries \in Nat /\ MinRows \in Nat /\ Chrome \in Nat
  /\ MinVisible \in Nat \ {0} /\ Heights \subseteq Nat

VARIABLES
  bMode,     \* "list", "filter" (filter_active), "dialog" (show_delete_dialog), "gone"
  bEntries,  \* entries: [id, selected]
  bFiltered, \* filtered: indexes of bEntries
  bQuery,    \* the criteria in the query: "meets" (prefix filters), "score" (a pattern)
  bCursor, bScroll, \* cursor and scroll_offset, which count from 0
  bCount,    \* cached_selected_count
  bHeight,   \* lines of the terminal
  bChosen    \* history: the rows the user has chosen for deletion, by what was shown

browserVars ==
  <<bMode, bEntries, bFiltered, bQuery, bCursor, bScroll, bCount, bHeight, bChosen>>

\* load_history: without a selection
load_history(S) ==
  LET ids == Newest(S, MaxEntries) IN [i \in DOMAIN ids |-> [id |-> ids[i], selected |-> FALSE]]

\* What update_filter keeps, best score first; its sort is stable.
Kept(entries, query) ==
  LET row(i) == Row[entries[i].id]
      kept == {i \in DOMAIN entries : /\ "meets" \in query => row(i).meets
                                      /\ "score" \in query => row(i).score > 0}
      before(i, j) == \/ "score" \in query /\ row(i).score > row(j).score
                      \/ ("score" \in query => row(i).score = row(j).score) /\ i < j
  IN  InOrder(kept, before)

update_filter(entries, query) ==
  /\ bFiltered' = Kept(entries, query)
  /\ bCursor' = 0
  /\ bScroll' = 0

\* run_history_browser: on a database without history it returns at once.
BrowserInit ==
  /\ bMode = "list"
  /\ bEntries = load_history(rows) /\ bEntries # <<>>
  /\ bFiltered = Kept(bEntries, {})
  /\ bQuery = {} /\ bCursor = 0 /\ bScroll = 0 /\ bCount = 0
  /\ bHeight \in Heights
  /\ bChosen = {}

too_small == bHeight < MinRows
Greater(x, y) == IF x > y THEN x ELSE y
Lesser(x, y) == IF x < y THEN x ELSE y
Minus(x, y) == IF x > y THEN x - y ELSE 0     \* saturating_sub
Visible == Greater(Minus(bHeight, Chrome), MinVisible)

Open == bMode # "gone"
Keys == (bMode = "list" \/ bMode = "filter") /\ ~too_small

------------------------------------------------------------------------------
(* Moving, by keys in the list and in the filter, and by the mouse at any time *)

Moved(cursor, scroll) ==
  /\ bCursor' = cursor /\ bScroll' = scroll
  /\ UNCHANGED <<bMode, bEntries, bFiltered, bQuery, bCount, bHeight, bChosen, storeVars>>

DownTo(cursor) == IF cursor >= bScroll + Visible THEN cursor - Visible + 1 ELSE bScroll

CursorUp ==
  /\ Open /\ bCursor > 0
  /\ Moved(bCursor - 1, Lesser(bScroll, bCursor - 1))

CursorDown ==
  /\ Open /\ bCursor + 1 < Len(bFiltered)
  /\ Moved(bCursor + 1, DownTo(bCursor + 1))

PageUp ==
  /\ Keys /\ bFiltered # <<>>
  /\ Moved(Minus(bCursor, Visible), Minus(bScroll, Visible))

PageDown ==
  /\ Keys /\ bFiltered # <<>>
  /\ Moved(Lesser(bCursor + Visible, Len(bFiltered) - 1),
           Lesser(bScroll + Visible, Minus(Len(bFiltered), Visible)))

ToTop == Keys /\ Moved(0, 0)

ToBottom ==
  /\ Keys /\ bFiltered # <<>>
  /\ LET last == Len(bFiltered) - 1 IN
     Moved(last, IF last >= Visible THEN last - Visible + 1 ELSE bScroll)

Resize ==
  /\ Open
  /\ bHeight' \in Heights
  /\ UNCHANGED <<bMode, bEntries, bFiltered, bQuery, bCursor, bScroll, bCount, bChosen,
                 storeVars>>

------------------------------------------------------------------------------
(* Filtering and selecting *)

SetMode(from, to) ==
  /\ bMode = from /\ ~too_small
  /\ bMode' = to
  /\ UNCHANGED <<bEntries, bFiltered, bQuery, bCursor, bScroll, bCount, bHeight, bChosen,
                 storeVars>>

EnterFilter == SetMode("list", "filter")
ConfirmFilter == SetMode("filter", "list")

\* A character typed or deleted: the query is parsed anew and may mean anything.
EditFilter ==
  /\ bMode = "filter" /\ ~too_small
  /\ bQuery' \in SUBSET {"meets", "score"}
  /\ update_filter(bEntries, bQuery')
  /\ UNCHANGED <<bMode, bEntries, bCount, bHeight, bChosen, storeVars>>

ClearFilter ==
  /\ bMode = "filter" /\ ~too_small
  /\ bMode' = "list"
  /\ bQuery' = {}
  /\ update_filter(bEntries, {})
  /\ UNCHANGED <<bEntries, bCount, bHeight, bChosen, storeVars>>

Select(indexes, on) ==
  [i \in DOMAIN bEntries |->
     IF i \in indexes THEN [bEntries[i] EXCEPT !.selected = on] ELSE bEntries[i]]

AtCursor == bFiltered[bCursor + 1]

\* Bug: the position in the list is taken for the position among the entries.
toggle_by_position ==
  LET i == bCursor + 1 IN
  /\ bEntries' = Select({i}, ~bEntries[i].selected)
  /\ bCount' = IF bEntries[i].selected THEN Minus(bCount, 1) ELSE bCount + 1

toggle_selection ==
  LET i == AtCursor IN
  /\ bEntries' = Select({i}, ~bEntries[i].selected)
  /\ bCount' = IF bEntries[i].selected THEN Minus(bCount, 1) ELSE bCount + 1

\* What the user sees in the row with the cursor
Displayed == bEntries[AtCursor].id
Chosen(id) == IF id \in bChosen THEN bChosen \ {id} ELSE bChosen \cup {id}

\* Tab; and Space in the list, which moves on to the next row as well
Toggle(down) ==
  /\ Keys /\ bFiltered # <<>> /\ (down => bMode = "list")
  /\ toggle_selection
  /\ bChosen' = Chosen(Displayed)
  /\ IF down /\ bCursor + 1 < Len(bFiltered)
     THEN bCursor' = bCursor + 1 /\ bScroll' = DownTo(bCursor + 1)
     ELSE UNCHANGED <<bCursor, bScroll>>
  /\ UNCHANGED <<bMode, bFiltered, bQuery, bHeight, storeVars>>

Drawn == {bFiltered[k] : k \in DOMAIN bFiltered}

SelectAllVisible ==
  /\ Keys
  /\ bEntries' = Select(Drawn, TRUE)
  /\ bCount' = bCount + Cardinality({i \in Drawn : ~bEntries[i].selected})
  /\ bChosen' = bChosen \cup {bEntries[i].id : i \in Drawn}
  /\ UNCHANGED <<bMode, bFiltered, bQuery, bCursor, bScroll, bHeight, storeVars>>

UnselectAll ==
  /\ Keys
  /\ bEntries' = Select(DOMAIN bEntries, FALSE)
  /\ bCount' = 0
  /\ bChosen' = {}
  /\ UNCHANGED <<bMode, bFiltered, bQuery, bCursor, bScroll, bHeight, storeVars>>

------------------------------------------------------------------------------
(* Deleting, and leaving *)

AskDelete == bCount > 0 /\ SetMode("list", "dialog")
CancelDelete == SetMode("dialog", "list")

Selected == {i \in DOMAIN bEntries : bEntries[i].selected}

\* The entries that are not selected, in their order
Remaining ==
  LET kept == InOrder(DOMAIN bEntries \ Selected, <) IN [n \in DOMAIN kept |-> bEntries[kept[n]]]

\* delete_many deletes one id after the other under one lock. It fails at one that is
\* gone, or for a reason of the database's, and those before it stay deleted.
ConfirmDelete ==
  /\ bMode = "dialog" /\ ~too_small
  /\ \A i \in Selected : bEntries[i].id \in rows
  /\ rows' = rows \ {bEntries[i].id : i \in Selected}
  /\ bEntries' = Remaining
  /\ bCount' = 0 /\ bChosen' = {}
  /\ update_filter(bEntries', bQuery)
  /\ bMode' = "list"
  /\ UNCHANGED <<bQuery, bHeight, lastRow, deletes>>

\* The error ends the browser, after it has loaded what there is now.
DeleteFails ==
  /\ bMode = "dialog" /\ ~too_small
  /\ \E k \in Selected :
       /\ \A i \in Selected : i < k => bEntries[i].id \in rows
       /\ rows' = rows \ {bEntries[i].id : i \in {j \in Selected : j < k}}
  /\ bEntries' = load_history(rows')
  /\ bCount' = 0 /\ bChosen' = {}
  /\ update_filter(bEntries', bQuery)
  /\ bMode' = "gone"
  /\ UNCHANGED <<bQuery, bHeight, lastRow, deletes>>

\* Esc and q in the list, Ctrl+C and Ctrl+D also in the filter, any of them when the
\* terminal is too small; Enter in the list copies the command first.
Leave ==
  /\ Keys \/ (Open /\ too_small)
  /\ bMode' = "gone"
  /\ UNCHANGED <<bEntries, bFiltered, bQuery, bCursor, bScroll, bCount, bHeight, bChosen,
                 storeVars>>

OtherSession ==
  /\ Open
  /\ OtherInserts \/ OtherDeletes
  /\ UNCHANGED browserVars

BrowserNext ==
  \/ CursorUp \/ CursorDown \/ PageUp \/ PageDown \/ ToTop \/ ToBottom \/ Resize
  \/ EnterFilter \/ ConfirmFilter \/ EditFilter \/ ClearFilter
  \/ \E down \in BOOLEAN : Toggle(down)
  \/ SelectAllVisible \/ UnselectAll
  \/ AskDelete \/ CancelDelete \/ ConfirmDelete \/ DeleteFails \/ Leave \/ OtherSession

BrowserSpec == SharedInit /\ BrowserInit /\ [][BrowserNext]_<<browserVars, storeVars>>

------------------------------------------------------------------------------
(* Property *)

\* What the user sees is what happens. The dialog announces as many rows as were chosen,
\* shown or hidden by a later filter; confirming it deletes exactly these, and when the
\* database refuses, none but these; nothing else the browser does deletes a row
\* (delete_selected). And the row that a key acts on is drawn: however the list is moved,
\* filtered and shortened, only a change of the terminal's height takes it off the screen.
Deleted == rows \ rows'
CursorDrawn == bScroll <= bCursor /\ bCursor < bScroll + Visible
ScreenTellsTruth ==
  [][/\ bMode = "dialog" => bCount = Cardinality(bChosen)
     /\ Deleted # {} /\ deletes' = deletes => bMode = "dialog" /\ Deleted \subseteq bChosen
     /\ Deleted # {} /\ bMode' # bMode /\ Open' => Deleted = bChosen
     /\ Open /\ Open' /\ CursorDrawn /\ bHeight' = bHeight => CursorDrawn'
    ]_<<browserVars, storeVars>>
=============================================================================
