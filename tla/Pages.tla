-------------------------------- MODULE Pages --------------------------------
(***************************************************************************)
(* How help pages and the change log become lines (pager/markdown.rs,      *)
(* pager/text_utils.rs). The parser, which is a library's, hands over a    *)
(* document as starts and ends of its parts, well nested, and texts        *)
(* between them; the writer keeps flags for what is open and buffers for   *)
(* lines, code and tables. A text is a number, in reading order. The words *)
(* of a line are wrapped by functions that are checked for themselves.     *)
(***************************************************************************)
EXTENDS Naturals, Sequences, FiniteSets, FiniteSetsExt, SequencesExt

CONSTANTS
  MaxTexts, MaxTags, MaxOpen, \* bounds: texts, tags with breaks, how many are open at once
  WrapInputs,                 \* lines to wrap: [chars, width, indent]
  TableInputs                 \* tables to fit: [natural, available]

\* The characters that wrapping tells apart; one that is wide takes two columns.
PageCharacters == {"blank", "wide", "letter"}

ASSUME PagesAssumption ==
  /\ MaxTexts \in Nat /\ MaxTags \in Nat /\ MaxOpen \in Nat
  /\ WrapInputs \subseteq [chars : Seq(PageCharacters), width : Nat, indent : Nat]
  /\ TableInputs \subseteq [natural : Seq(Nat), available : Nat]

VARIABLES
  mOpen, mTags, mTexts, \* the parser: tags that are open, tags and texts so far
  mAhead,            \* history: <<i, j>>, the text j of a table that went ahead of i
  mLines, mSpans,    \* lines, current_spans
  mStyles,           \* inline_styles
  mHeading, mCode, mTable, mLink, \* in_heading, in_code_block, in_table, link
  mBuffer,           \* code_block_buffer
  mList, mQuote,     \* list_indices (and list_depth), blockquote_depth
  mPending, mNeeds, mHas, \* pending_marker, needs_newline, has_output
  mRows, mRow, mCell, \* table_rows, table_current_row, table_cell_spans
  mInput             \* the input that is wrapped, or None of them

lineVars  == <<mLines, mSpans, mPending, mNeeds, mHas>>
flagVars  == <<mStyles, mHeading, mCode, mTable, mLink, mList, mQuote>>
tableVars == <<mRows, mRow, mCell>>
pagesVars ==
  <<mOpen, mTags, mTexts, mAhead, lineVars, flagVars, mBuffer, tableVars, mInput>>

NoInput == [chars |-> <<>>, width |-> 0, indent |-> 0]
InlineTags == {"emphasis", "link"}
BlockTags  == {"paragraph", "heading", "quote", "code", "list", "table"}

\* The elements of a sequence that are in a set, in their order
Only(s, S) == FlattenSeq([i \in DOMAIN s |-> IF s[i] \in S THEN <<s[i]>> ELSE <<>>])

Innermost == IF mOpen = <<>> THEN "document" ELSE Last(mOpen)
IsOpen(tag) == \E i \in DOMAIN mOpen : mOpen[i] = tag

\* What may stand in what. An item of a tight list holds its text without a paragraph.
MayHold(tag) ==
  CASE tag \in {"document", "quote"} -> BlockTags
    [] tag = "item" -> BlockTags \cup InlineTags
    [] tag = "list" -> {"item"}
    [] tag = "table" -> {"head", "row"}
    [] tag \in {"head", "row"} -> {"cell"}
    [] tag \in {"paragraph", "heading", "cell"} -> InlineTags
    [] tag = "emphasis" -> InlineTags
    [] tag = "link" -> {"emphasis"}
    [] OTHER -> {}
HoldsText == Innermost \in {"paragraph", "heading", "cell", "item", "code"} \cup InlineTags
-----------------------------------------------------------------------------
(* The writer's helpers, on the lines [lines, spans, pending, needs, has].  *)

L == [lines |-> mLines, spans |-> mSpans, pending |-> mPending, needs |-> mNeeds, has |-> mHas]
WriteTo(l) ==
  mLines' = l.lines /\ mSpans' = l.spans /\ mPending' = l.pending /\ mNeeds' = l.needs
  /\ mHas' = l.has

Span(text) == [text |-> text, style |-> mStyles]
Mark == [text |-> 0, style |-> <<>>] \* what the writer adds of its own

push_span(l, span) == [l EXCEPT !.spans = Append(@, span)]
flush_line(l) ==
  IF l.spans = <<>> THEN l
  ELSE [l EXCEPT !.lines = Append(@, l.spans), !.spans = <<>>, !.has = TRUE]
flush_code_line(l) == [l EXCEPT !.lines = Append(@, l.spans), !.spans = <<>>, !.has = TRUE]
push_blank_line(l) == [l EXCEPT !.lines = Append(@, <<>>)]
ensure_blank_line_before_block(l) ==
  IF l.needs /\ l.has THEN [push_blank_line(flush_line(l)) EXCEPT !.needs = FALSE] ELSE l

\* At the start of a line: the quotes it stands in, and the marker or the indentation.
emit_prefix_if_needed(l) ==
  IF l.spans # <<>> THEN l
  ELSE LET marks == mQuote + (IF mList # <<>> THEN 1 ELSE 0)
       IN [l EXCEPT !.spans = [i \in 1..marks |-> Mark],
                    !.pending = @ /\ mList = <<>>]
-----------------------------------------------------------------------------
(* start_tag and end_tag.                                                  *)

StartBlock(tag) ==
  LET l == ensure_blank_line_before_block(L) IN
  /\ CASE tag = "heading" -> WriteTo(push_span(l, Mark))
       [] tag = "list" -> WriteTo(IF mList = <<>> THEN l ELSE flush_line(L))
       [] OTHER -> WriteTo(l)
  /\ mHeading' = (mHeading \/ tag = "heading")
  /\ mStyles' = IF tag = "heading" THEN Append(mStyles, tag) ELSE mStyles
  /\ mQuote' = IF tag = "quote" THEN mQuote + 1 ELSE mQuote
  /\ mCode' = (mCode \/ tag = "code")
  /\ mBuffer' = IF tag = "code" THEN <<>> ELSE mBuffer
  /\ mList' = IF tag = "list" THEN Append(mList, 1) ELSE mList
  /\ mTable' = (mTable \/ tag = "table")
  /\ mRows' = IF tag = "table" THEN <<>> ELSE mRows
  /\ UNCHANGED <<mLink, mRow, mCell>>

StartPart(tag) ==
  /\ IF tag = "item" THEN WriteTo([flush_line(L) EXCEPT !.pending = TRUE])
     ELSE UNCHANGED lineVars
  /\ mRow' = IF tag \in {"head", "row"} THEN <<>> ELSE mRow
  /\ mCell' = IF tag = "cell" THEN <<>> ELSE mCell
  /\ mStyles' = IF tag = "emphasis" THEN Append(mStyles, tag) ELSE mStyles
  /\ mLink' = (mLink \/ tag = "link")
  /\ UNCHANGED <<mHeading, mCode, mTable, mList, mQuote, mBuffer, mRows>>

start_tag(tag) ==
  /\ mTags < MaxTags /\ Len(mOpen) < MaxOpen
  /\ tag \in MayHold(Innermost)
  /\ tag = "link" => ~IsOpen("link")
  /\ (tag = "row" => mRows # <<>>) /\ (tag = "head" => mRows = <<>>)
  /\ IF tag \in BlockTags THEN StartBlock(tag) ELSE StartPart(tag)
  /\ mOpen' = Append(mOpen, tag) /\ mTags' = mTags + 1
  /\ UNCHANGED <<mTexts, mAhead, mInput>>

\* The lines of a table, each led by marks. They do not wait for the line that the table
\* interrupts, the text of a tight list's item: that comes after them.
render_table(l) ==
  LET row(i) == [j \in 1..mQuote + 1 |-> Mark] \o FlattenSeq(mRows[i])
  IN IF \A i \in DOMAIN mRows : mRows[i] = <<>> THEN l
     ELSE [l EXCEPT !.lines = @ \o [i \in DOMAIN mRows |-> row(i)], !.has = TRUE]

\* A line for each piece of the code, here one.
flush_code_block(l) ==
  LET p == emit_prefix_if_needed(l) IN flush_code_line([p EXCEPT !.spans = @ \o mBuffer])

Needing(l) == [l EXCEPT !.needs = TRUE]
\* Mutant: a style outlives what it belongs to.
Popped_Kept == mStyles
Popped == IF mStyles = <<>> THEN <<>> ELSE Front(mStyles)

EndBlock(tag) ==
  \/ /\ tag = "paragraph" /\ WriteTo(Needing(flush_line(L)))
     /\ UNCHANGED <<flagVars, mBuffer, tableVars>>
  \/ /\ tag = "heading" /\ WriteTo(Needing(flush_line(L)))
     /\ mStyles' = Popped /\ mHeading' = FALSE
     /\ UNCHANGED <<mCode, mTable, mLink, mList, mQuote, mBuffer, tableVars>>
  \/ /\ tag = "quote" /\ WriteTo(Needing(flush_line(L))) /\ mQuote' = mQuote - 1
     /\ UNCHANGED <<mStyles, mHeading, mCode, mTable, mLink, mList, mBuffer, tableVars>>
  \/ /\ tag = "code" /\ WriteTo(Needing(flush_code_block(L))) /\ mBuffer' = <<>>
     /\ mCode' = FALSE
     /\ UNCHANGED <<mStyles, mHeading, mTable, mLink, mList, mQuote, tableVars>>
  \/ /\ tag = "list"
     /\ WriteTo(IF Len(mList) = 1 THEN Needing(flush_line(L)) ELSE flush_line(L))
     /\ mList' = Front(mList)
     /\ UNCHANGED <<mStyles, mHeading, mCode, mTable, mLink, mQuote, mBuffer, tableVars>>
  \/ /\ tag = "table" /\ WriteTo(Needing(render_table(L))) /\ mTable' = FALSE
     /\ UNCHANGED <<mStyles, mHeading, mCode, mLink, mList, mQuote, mBuffer, tableVars>>

\* The address of a link follows its text; in a table it goes to the line that comes
\* next, outside it, which the texts' order leaves out.
EndPart(tag) ==
  /\ CASE tag = "item" -> WriteTo(flush_line(L))
       [] tag = "link" /\ mTable -> WriteTo(push_span(L, Mark))
       [] tag = "link" /\ ~mTable -> WriteTo(push_span(L, Span(mTexts + 1)))
       [] OTHER -> UNCHANGED lineVars
  /\ mTexts' = IF tag = "link" /\ ~mTable THEN mTexts + 1 ELSE mTexts
  /\ mList' = IF tag = "item" THEN [mList EXCEPT ![Len(mList)] = @ + 1] ELSE mList
  /\ mRows' = IF tag = "head" THEN <<mRow>> \o mRows
              ELSE IF tag = "row" THEN Append(mRows, mRow) ELSE mRows
  /\ mRow' = IF tag \in {"head", "row"} THEN <<>>
             ELSE IF tag = "cell" THEN Append(mRow, mCell) ELSE mRow
  /\ mCell' = IF tag = "cell" THEN <<>> ELSE mCell
  /\ mStyles' = IF tag = "emphasis" THEN Popped ELSE mStyles
  /\ mLink' = (mLink /\ tag # "link")
  /\ UNCHANGED <<mHeading, mCode, mTable, mQuote, mBuffer>>

TextsOf(spans) == Only([i \in DOMAIN spans |-> spans[i].text], Nat \ {0})
Interrupted == ToSet(TextsOf(mSpans)) \X ToSet(TextsOf(FlattenSeq(FlattenSeq(mRows))))

end_tag ==
  /\ mOpen # <<>>
  /\ IF Innermost \in BlockTags THEN EndBlock(Innermost) /\ UNCHANGED mTexts
     ELSE EndPart(Innermost)
  /\ mAhead' = mAhead \cup (IF Innermost = "table" THEN Interrupted ELSE {})
  /\ mOpen' = Front(mOpen) /\ UNCHANGED <<mTags, mInput>>
-----------------------------------------------------------------------------
(* Texts and breaks.                                                       *)

\* on_text and on_inline_code
on_text ==
  LET span == Span(mTexts + 1) IN
  /\ HoldsText /\ mTexts < MaxTexts /\ mTexts' = mTexts + 1
  /\ IF mTable THEN mCell' = Append(mCell, span) /\ UNCHANGED <<lineVars, mBuffer>>
     ELSE IF mCode THEN mBuffer' = Append(mBuffer, span) /\ UNCHANGED <<lineVars, mCell>>
     ELSE WriteTo(push_span(emit_prefix_if_needed(L), span)) /\ UNCHANGED <<mBuffer, mCell>>
  /\ UNCHANGED <<mOpen, mTags, flagVars, mRows, mRow, mAhead, mInput>>

\* A break counts among the tags.
on_soft_break ==
  /\ HoldsText /\ ~mCode /\ mTags < MaxTags /\ mTags' = mTags + 1
  /\ IF mTable THEN mCell # <<>> /\ Last(mCell) # Mark /\ mCell' = Append(mCell, Mark)
                    /\ UNCHANGED lineVars
     ELSE mSpans # <<>> /\ Last(mSpans) # Mark /\ WriteTo(push_span(L, Mark)) /\ UNCHANGED mCell
  /\ UNCHANGED <<mOpen, mTexts, flagVars, mBuffer, mRows, mRow, mAhead, mInput>>

on_hard_break ==
  /\ HoldsText /\ ~mCode /\ ~mTable /\ mSpans # <<>> /\ WriteTo(flush_line(L))
  /\ mTags < MaxTags /\ mTags' = mTags + 1
  /\ UNCHANGED <<mOpen, mTexts, flagVars, mBuffer, tableVars, mAhead, mInput>>

on_rule ==
  LET l == flush_line(L) IN
  /\ "paragraph" \in MayHold(Innermost) /\ mTags < MaxTags /\ mTags' = mTags + 1
  /\ WriteTo([(IF l.has THEN push_blank_line(l) ELSE l) EXCEPT
              !.lines = Append(@, <<Mark>>), !.has = TRUE, !.needs = TRUE])
  /\ UNCHANGED <<mOpen, mTexts, flagVars, mBuffer, tableVars, mAhead, mInput>>

\* on_html, a line of it
on_html ==
  /\ "paragraph" \in MayHold(Innermost) /\ mTexts < MaxTexts /\ mTexts' = mTexts + 1
  /\ WriteTo(flush_line(push_span(emit_prefix_if_needed(L), Span(mTexts + 1))))
  /\ UNCHANGED <<mOpen, mTags, flagVars, mBuffer, tableVars, mAhead, mInput>>
-----------------------------------------------------------------------------
(* wrap_spans, and the columns of a table.                                 *)

LineWidth(chars) == Len(chars) + Len(Only(chars, {"wide"}))

\* The chars from pos that a line of this width holds, and where it is best broken: after
\* the last blank or wide character in it, or else where it is full.
FitsUpTo(chars, pos, width) ==
  Max({pos - 1} \cup {e \in pos..Len(chars) : LineWidth(SubSeq(chars, pos, e)) <= width})
BreakAt(chars, pos, end) ==
  LET breaks == {e \in pos..end : chars[e] \in {"blank", "wide"}}
  IN IF breaks # {} THEN Max(breaks) ELSE Max({end, pos})
NextWord(chars, from) ==
  Min({Len(chars) + 1} \cup {i \in from..Len(chars) : chars[i] # "blank"})
Trimmed(chars, pos, end) ==
  SubSeq(chars, pos, Max({pos - 1} \cup {i \in pos..end : chars[i] # "blank"}))

\* The lines: [indented, chars]. Where the indentation leaves no room, a character each.
wrap_spans(in) ==
  LET chars == in.chars
      from[pos \in 1..Len(chars) + 1] ==
        LET more  == pos > 1
            width == IF more THEN (IF in.width > in.indent THEN in.width - in.indent ELSE 0)
                     ELSE in.width
            end   == FitsUpTo(chars, pos, width)
            split == BreakAt(chars, pos, end)
        IN IF pos > Len(chars) THEN <<>>
           ELSE IF width = 0
           THEN <<[indented |-> FALSE, chars |-> <<chars[pos]>>]>> \o from[pos + 1]
           ELSE IF end = Len(chars)
           THEN <<[indented |-> more, chars |-> SubSeq(chars, pos, end)]>>
           ELSE <<[indented |-> more, chars |-> Trimmed(chars, pos, split)]>>
                  \o from[NextWord(chars, split + 1)]
  IN IF in.width = 0 \/ LineWidth(chars) <= in.width THEN <<[indented |-> FALSE, chars |-> chars]>>
     ELSE from[1]

\* The columns that are locked at their own width share nothing; the others, what is left.
Total(widths) ==
  LET upTo[n \in 0..Len(widths)] == IF n = 0 THEN 0 ELSE upTo[n - 1] + widths[n]
  IN upTo[Len(widths)]
Left(in, S) ==
  LET taken == Total([i \in DOMAIN in.natural |-> IF i \in S THEN in.natural[i] ELSE 0])
  IN IF in.available > taken THEN in.available - taken ELSE 0
Wide(in, S) == Cardinality(DOMAIN in.natural \ S)
Share(in, S) == IF Wide(in, S) = 0 THEN 0 ELSE Left(in, S) \div Wide(in, S)

\* Columns are locked, pass by pass, that are no wider than their share: in as many passes
\* as there are columns, all that will be.
Locked(in) ==
  LET lock[n \in 0..Len(in.natural)] ==
        IF n = 0 THEN {}
        ELSE LET share == Share(in, lock[n - 1])
             IN lock[n - 1] \cup {i \in DOMAIN in.natural : in.natural[i] <= share}
  IN lock[Len(in.natural)]

distribute_column_widths(in) ==
  LET cols == DOMAIN in.natural
      locked == Locked(in)
      extra == IF Wide(in, locked) = 0 THEN 0 ELSE Left(in, locked) % Wide(in, locked)
      before(i) == Cardinality({j \in cols \ locked : j < i})
  IN IF in.available <= Len(in.natural)
     THEN [i \in cols |-> IF i <= in.available THEN 1 ELSE 0]
     ELSE [i \in cols |-> IF i \in locked THEN in.natural[i]
                          ELSE Share(in, locked) + (IF before(i) < extra THEN 1 ELSE 0)]
-----------------------------------------------------------------------------
PagesEmpty ==
  /\ mOpen = <<>> /\ mTags = 0 /\ mTexts = 0 /\ mAhead = {}
  /\ mLines = <<>> /\ mSpans = <<>> /\ mStyles = <<>>
  /\ mHeading = FALSE /\ mCode = FALSE /\ mTable = FALSE /\ mLink = FALSE
  /\ mBuffer = <<>> /\ mList = <<>> /\ mQuote = 0
  /\ mPending = FALSE /\ mNeeds = FALSE /\ mHas = FALSE
  /\ mRows = <<>> /\ mRow = <<>> /\ mCell = <<>>
PagesInit == PagesEmpty /\ mInput \in {NoInput} \cup WrapInputs \cup TableInputs

PagesNext ==
  /\ mInput = NoInput
  /\ \/ \E tag \in BlockTags \cup InlineTags \cup {"item", "head", "row", "cell"} : start_tag(tag)
     \/ end_tag \/ on_text \/ on_soft_break \/ on_hard_break \/ on_rule \/ on_html

PagesSpec == PagesInit /\ [][PagesNext]_pagesVars
-----------------------------------------------------------------------------
Written ==
  TextsOf(FlattenSeq(mLines) \o mSpans
          \o (IF mTable THEN FlattenSeq(FlattenSeq(Append(mRows, mRow))) \o mCell ELSE <<>>)
          \o mBuffer)

Count(tag) == Len(Only(mOpen, {tag}))

\* Each of n texts once, and two of them in order unless the second went ahead of the first.
InOrderBut(ahead, texts, n) ==
  /\ texts \in Bijection(1..n, 1..n)
  /\ \A i, j \in 1..n :
       i < j => (texts[j] < texts[i] <=> <<texts[j], texts[i]>> \in ahead)

\* However the parts of a document are nested: each text is on the page exactly once, and
\* they stand in reading order, though code and tables are held back until their end: only
\* a table in an item of a list goes ahead of texts, those of the line it interrupts. And
\* the writer's flags tell what is open, so that no text takes the style, the marker or
\* the quote of a part that has ended.
DocumentKept ==
  /\ InOrderBut(mAhead, Written, mTexts)
  /\ mTable /\ ~IsOpen("item") => TextsOf(mSpans) = <<>>
  /\ mStyles = Only(mOpen, {"heading", "emphasis"})
  /\ mTable = IsOpen("table") /\ mCode = IsOpen("code") /\ mHeading = IsOpen("heading")
  /\ Len(mList) = Count("list") /\ mQuote = Count("quote")

Solid(chars) == Only(chars, PageCharacters \ {"blank"})

\* Wrapping loses nothing but blanks, keeps within the width wherever a character does;
\* and the columns of a table that is too wide fit into it, none of them vanishing as long
\* as there is room.
WrapFits ==
  /\ "chars" \in DOMAIN mInput =>
       LET lines == wrap_spans(mInput)
           width(i) == LineWidth(lines[i].chars) + (IF lines[i].indented THEN mInput.indent ELSE 0)
       IN /\ Solid(FlattenSeq([i \in DOMAIN lines |-> lines[i].chars])) = Solid(mInput.chars)
          /\ mInput.width > 0 =>
               \A i \in DOMAIN lines : width(i) <= mInput.width \/ Len(lines[i].chars) = 1
  /\ "natural" \in DOMAIN mInput =>
       LET widths == distribute_column_widths(mInput)
       IN /\ Total(widths) <= mInput.available
          /\ \A i \in DOMAIN widths :
               mInput.available > Len(widths) /\ mInput.natural[i] > 0 => widths[i] > 0

\* What is on the page is what the document says, in whatever it is nested and however
\* narrow the page.
PagesKept == IF mInput = NoInput THEN DocumentKept ELSE WrapFits
=============================================================================
