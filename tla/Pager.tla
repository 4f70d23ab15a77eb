-------------------------------- MODULE Pager --------------------------------
(***************************************************************************)
(* The pager and the help browser (pager/mod.rs, pager/help.rs): both keep *)
(* indices into lists that a filter or a new width replaces, while the     *)
(* terminal changes its size before they read of it, and the browser opens *)
(* the pager inside its own screen. What a line looks like is left out but *)
(* for the schema's code blocks, whose style is carried from line to line. *)
(***************************************************************************)
EXTENDS Naturals, Sequences, FiniteSets, FiniteSetsExt, SequencesExt

CONSTANTS
  Topics,            \* the help topics: [name, kind]
  Letters, MaxQuery, \* bound: what is typed to filter them
  MaxFiltered,       \* MAX_FILTERED_RESULTS
  TerminalSizes,     \* bound: [cols, rows]
  MinSize,           \* the browser's MIN_SIZE
  WrappedLines,      \* the lines a text has at a number of columns
  SchemaLines        \* the lines of the schema: "sql", "r" and "end" are fences

ASSUME PagerAssumption ==
  /\ MaxQuery \in Nat /\ MaxFiltered \in Nat \ {0}
  /\ Len(Topics) \in Nat /\ DOMAIN Topics = 1..Len(Topics)
  /\ \A s \in TerminalSizes :
       s.cols \in Nat \cap DOMAIN WrappedLines /\ s.rows \in Nat /\ WrappedLines[s.cols] \in Nat
  /\ Len(SchemaLines) \in Nat \ {0}

VARIABLES
  pScreen,  \* "prompt", "browser", a text of Texts in the pager, or "gone"
  pNested,  \* the pager is inside the browser
  pSize,    \* of the terminal
  pResized, \* it has changed, and the event has not been read
  pScroll, pRows, pWidth, \* scroll_offset, term_height, and last_width of the text
  pStyle,   \* the schema's style_state
  pDrawn,   \* the lines last drawn: [line, style]
  hQuery, hCursor,        \* query and cursor_pos
  hFiltered, hSelected, hScroll, \* indices of Topics; selected and scroll_offset
  hSmall,   \* too_small, as of the top of the loop
  hLost     \* history: the list has lost rows since its selection was brought into view

pageVars == <<pScroll, pRows, pWidth, pStyle, pDrawn>>
helpVars == <<hQuery, hCursor, hFiltered, hSelected, hScroll, hSmall, hLost>>
pagerVars == <<pScreen, pNested, pSize, pResized, pageVars, helpVars>>

Texts   == {"help", "changelog", "schema", "info"}
Wrapped == {"help", "changelog"} \* re-wrapped by on_resize

PagerTypeOK ==
  /\ pScreen \in Texts \cup {"prompt", "browser", "gone"} /\ pNested \in BOOLEAN
  /\ pSize \in TerminalSizes /\ pResized \in BOOLEAN
  /\ {pScroll, pRows, pWidth, hCursor, hSelected, hScroll} \subseteq Nat
  /\ hFiltered \in Seq(DOMAIN Topics) /\ hQuery \in Seq(Letters)
  /\ {hSmall, hLost} \subseteq BOOLEAN
-----------------------------------------------------------------------------
(* The pager.                                                              *)

Less(m, n) == IF m > n THEN m - n ELSE 0 \* saturating_sub

line_count(text, width) ==
  CASE text \in Wrapped -> WrappedLines[width]
    [] OTHER -> Len(SchemaLines)
content_rows_with_height(height) == Less(height, 2)
max_scroll_offset_with_height(lines, height) == Less(lines, content_rows_with_height(height))

\* StyleState.update over some of the schema's lines.
StyleAfter(style, from, to) ==
  LET fences == {i \in from..to : SchemaLines[i] \in {"sql", "r", "end"}}
  IN IF fences = {} THEN style ELSE SchemaLines[Max(fences)]

\* Mutant: the state is left as the last frame has brought it about.
prepare_render_Left(style, scroll) == style

\* The state in which the first visible line is drawn, from all the lines above it.
prepare_render(style, scroll) == StyleAfter("end", 1, scroll)

\* A frame as high as the terminal is now; drawing a line moves the state on.
Draw(text, scroll, width) ==
  LET last  == line_count(text, width)
      seen  == IF last > scroll + content_rows_with_height(pSize.rows)
               THEN content_rows_with_height(pSize.rows) ELSE Less(last, scroll)
      first == prepare_render(pStyle, scroll)
      style(i) == IF text = "schema" THEN StyleAfter(first, scroll + 1, scroll + i - 1) ELSE "end"
  IN /\ pDrawn' = [i \in 1..seen |-> [line |-> scroll + i, style |-> style(i)]]
     /\ pStyle' = IF text = "schema" THEN StyleAfter(first, scroll + 1, scroll + seen)
                  ELSE pStyle

\* run: the text is wrapped for the terminal as it is.
OpenText(text) ==
  /\ pScreen' = text
  /\ pScroll' = 0 /\ pRows' = pSize.rows /\ pWidth' = pSize.cols
  /\ Draw(text, 0, pSize.cols)

\* The meta commands with a text of their own.
ShowText ==
  /\ pScreen = "prompt" /\ \E text \in Texts \ {"help"} : OpenText(text)
  /\ UNCHANGED <<pNested, pSize, pResized, helpVars>>

InPager == pScreen \in Texts
Scroll(to) ==
  /\ pScroll' = to /\ Draw(pScreen, to, pWidth)
  /\ UNCHANGED <<pScreen, pNested, pSize, pResized, pRows, pWidth, helpVars>>

\* The keys and the mouse; all others draw the same again, "c" says what it has copied.
PagerMoves ==
  LET most == max_scroll_offset_with_height(line_count(pScreen, pWidth), pRows)
      page == content_rows_with_height(pRows)
  IN /\ InPager
     /\ \/ Scroll(Less(pScroll, 1))
        \/ Scroll(IF pScroll < most THEN pScroll + 1 ELSE pScroll)
        \/ Scroll(Less(pScroll, page))
        \/ Scroll(Min({pScroll + page, most}))
        \/ Scroll(0) \/ Scroll(most) \/ Scroll(pScroll)

\* Esc, q, Ctrl+C, Ctrl+D, and Enter in a help text; inside the browser it is drawn again.
PagerExits ==
  /\ InPager /\ pScreen' = IF pNested THEN "browser" ELSE "gone"
  /\ pNested' = FALSE /\ hSmall' = (pSize.cols < MinSize.cols \/ pSize.rows < MinSize.rows)
  /\ pDrawn' = <<>> /\ pScroll' = 0 /\ UNCHANGED <<pRows, pWidth>> /\ pStyle' = "end"
  /\ UNCHANGED <<pSize, pResized, hQuery, hCursor, hFiltered, hSelected, hScroll, hLost>>

\* on_resize, and the scroll offset only if that has wrapped the text anew.
PagerHearsOfSize ==
  LET anew == pScreen \in Wrapped /\ pWidth # pSize.cols
      width == IF anew THEN pSize.cols ELSE pWidth
      most == max_scroll_offset_with_height(line_count(pScreen, width), pSize.rows)
      scroll == IF anew THEN Min({pScroll, most}) ELSE pScroll
  IN /\ InPager /\ pResized /\ pResized' = FALSE
     /\ pRows' = pSize.rows /\ pWidth' = width /\ pScroll' = scroll
     /\ Draw(pScreen, scroll, width)
     /\ UNCHANGED <<pScreen, pNested, pSize, helpVars>>
-----------------------------------------------------------------------------
(* The help browser.                                                       *)

too_small_now == pSize.cols < MinSize.cols \/ pSize.rows < MinSize.rows
visible_result_rows == Max({Less(pSize.rows, 5), 3})

\* fuzzy_match: the letters of the query, in their order.
Finds(query, name) ==
  \E at \in [DOMAIN query -> DOMAIN name] :
    /\ \A i \in DOMAIN query : name[at[i]] = query[i]
    /\ \A i, j \in DOMAIN query : i < j => at[i] < at[j]

\* fuzzy_search_topics: the topics that match, cut to the most that are kept; which of
\* them score best is left out.
TopicQueries == UNION {[1..n -> Letters] : n \in 0..MaxQuery}
TopicsFound ==
  [query \in TopicQueries |-> SetToSeq({i \in DOMAIN Topics : Finds(query, Topics[i].name)})]
TopicsShown(query) ==
  SubSeq(TopicsFound[query], 1, Min({Len(TopicsFound[query]), MaxFiltered}))

update_help_filter(query) ==
  /\ hQuery' = query /\ hFiltered' = TopicsShown(query)
  /\ hSelected' = 0 /\ hScroll' = 0 /\ hLost' = FALSE

InBrowser == pScreen = "browser"
\* The top of the loop, after whatever was read.
LoopTop == hSmall' = too_small_now
Outside == UNCHANGED <<pScreen, pNested, pSize, pResized, pageVars>>

\* Up, Down, the mouse.
SelectUp ==
  /\ InBrowser /\ hSelected > 0
  /\ hSelected' = hSelected - 1
  /\ hScroll' = Min({hScroll, hSelected - 1})
  /\ LoopTop /\ Outside /\ UNCHANGED <<hQuery, hCursor, hFiltered, hLost>>
SelectDown ==
  /\ InBrowser /\ hSelected + 1 < Len(hFiltered)
  /\ hSelected' = hSelected + 1
  /\ hScroll' = IF hSelected' >= hScroll + visible_result_rows
                THEN hSelected' - visible_result_rows + 1 ELSE hScroll
  /\ hLost' = FALSE
  /\ LoopTop /\ Outside /\ UNCHANGED <<hQuery, hCursor, hFiltered>>

\* Keys that edit the query; none is taken while the terminal is too small.
Takes == InBrowser /\ ~hSmall /\ LoopTop /\ Outside
Filter(query, cursor) ==
  /\ update_help_filter(query)
  /\ hCursor' = IF cursor > Len(query) THEN Len(query) ELSE cursor
TypeLetter ==
  /\ Takes /\ Len(hQuery) < MaxQuery
  /\ \E c \in Letters : Filter(InsertAt(hQuery, hCursor + 1, c), hCursor + 1)
Backspace == Takes /\ hCursor > 0 /\ Filter(RemoveAt(hQuery, hCursor), hCursor - 1)
Delete ==
  Takes /\ hCursor < Len(hQuery) /\ Filter(RemoveAt(hQuery, hCursor + 1), hCursor)
ClearQuery == Takes /\ Filter(<<>>, 0)
MoveCursor ==
  /\ Takes /\ hCursor' \in {Less(hCursor, 1), Min({hCursor + 1, Len(hQuery)}), 0, Len(hQuery)}
  /\ UNCHANGED <<hQuery, hFiltered, hSelected, hScroll, hLost>>

\* Enter and Tab open the selected topic; only a help page may not be found.
OpenTopic ==
  /\ InBrowser /\ ~hSmall /\ hSelected < Len(hFiltered)
  /\ \/ OpenText("help") /\ pNested' = TRUE
     \/ /\ Topics[hFiltered[hSelected + 1]].kind = "help"
        /\ UNCHANGED <<pScreen, pNested, pageVars>>
  /\ LoopTop
  /\ UNCHANGED <<pSize, pResized, hQuery, hCursor, hFiltered, hSelected, hScroll, hLost>>

\* The size is looked at twenty times a second; the event only draws again.
BrowserPolls ==
  /\ InBrowser /\ LoopTop /\ pResized' \in {FALSE, pResized}
  /\ UNCHANGED <<pScreen, pNested, pSize, pageVars, hQuery, hCursor, hFiltered, hSelected,
                 hScroll, hLost>>

BrowserExits ==
  /\ InBrowser /\ pScreen' = "gone"
  /\ UNCHANGED <<pNested, pSize, pResized, pageVars, helpVars>>
-----------------------------------------------------------------------------
TerminalChanges ==
  /\ pScreen \notin {"prompt", "gone"} /\ pSize' \in TerminalSizes \ {pSize} /\ pResized' = TRUE
  /\ hLost' = (hLost \/ pSize'.rows < pSize.rows)
  /\ UNCHANGED <<pScreen, pNested, pageVars, hQuery, hCursor, hFiltered, hSelected, hScroll,
                 hSmall>>

\* At the prompt, or in a browser that :help has opened with what was typed behind it.
PagerInit ==
  /\ pScreen \in {"prompt", "browser"}
  /\ pNested = FALSE /\ pSize \in TerminalSizes /\ pResized = FALSE
  /\ pScroll = 0 /\ pRows = pSize.rows /\ pWidth = pSize.cols
  /\ pStyle = "end" /\ pDrawn = <<>>
  /\ hQuery \in IF pScreen = "browser" THEN TopicQueries ELSE {<<>>}
  /\ hCursor = Len(hQuery) /\ hFiltered = TopicsShown(hQuery)
  /\ hSelected = 0 /\ hScroll = 0 /\ hSmall = too_small_now /\ hLost = FALSE

PagerNext ==
  \/ ShowText \/ PagerMoves \/ PagerExits \/ PagerHearsOfSize
  \/ SelectUp \/ SelectDown \/ TypeLetter \/ Backspace \/ Delete \/ ClearQuery \/ MoveCursor
  \/ OpenTopic \/ BrowserPolls \/ BrowserExits \/ TerminalChanges

PagerSpec == PagerInit /\ [][PagerNext]_pagerVars
-----------------------------------------------------------------------------
\* The list shows topics that the query finds, with the selection among them and, unless
\* rows have been lost under it, on the screen.
ListHolds ==
  /\ hCursor <= Len(hQuery)
  /\ \A i \in DOMAIN hFiltered : Finds(hQuery, Topics[hFiltered[i]].name)
  /\ hSelected < Max({Len(hFiltered), 1}) /\ hScroll <= hSelected
  /\ ~hLost => hSelected < hScroll + visible_result_rows

\* The page shows some of its text, in the style that reading from its start would give,
\* wrapped for the terminal unless the change is still to be heard of.
PageHolds ==
  /\ ~pResized /\ content_rows_with_height(pSize.rows) > 0 => pDrawn # <<>>
  /\ \A i \in DOMAIN pDrawn :
       LET d == pDrawn[i] IN
       /\ d.line <= line_count(pScreen, pWidth)
       /\ pScreen = "schema" => d.style = StyleAfter("end", 1, d.line - 1)
  /\ ~pResized /\ pScreen \in Wrapped => pWidth = pSize.cols

\* Through every order of keys, changes of the terminal and the hearing of them, filters,
\* and a text read inside the browser, both screens show what they claim to.
ScreensHold ==
  /\ pScreen = "browser" => ListHolds
  /\ pNested => ListHolds
  /\ InPager => PageHolds
=============================================================================
