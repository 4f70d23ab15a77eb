------------------------------ MODULE LineEditor ------------------------------
(***************************************************************************)
(* The shadow of the line editor's buffer (editor/mode.rs). reedline gives *)
(* an EditMode the keys only, so that arf follows the events it returns    *)
(* for them, decides by its shadow what brackets, quotes, ':' and ';' do,  *)
(* and lets whoever sees the real buffer (highlighter, validator, menus)   *)
(* correct it. Keys that arrive together are all parsed before the first   *)
(* of them is handled. reedline itself is external.                        *)
(***************************************************************************)
EXTENDS Naturals, Sequences, FiniteSets, SequencesExt

CONSTANTS
  Typed,    \* characters typed: "a", ":", "(", ")", "quote", ";", "newline"
  Recalled, \* bound: lines in the history
  MaxText,  \* bound: characters in the line before the next is typed
  MaxBatch, \* bound: keys that arrive together
  MaxAstray \* bound: keys while the shadow is uncertain or has not followed

\* The characters that the rules tell apart
Characters == {"a", ":", "(", ")", "quote", ";", "newline"}

ASSUME EditorAssumption ==
  /\ MaxText \in Nat /\ MaxBatch \in Nat /\ MaxAstray \in Nat
  /\ Typed \subseteq Characters /\ Recalled \subseteq Seq(Characters)

VARIABLES
  eReal,    \* reedline's buffer: text, and pos, the characters before the cursor
  eShadow,  \* EditorState: buffer, buffer_len, cursor_pos, uncertain
  ePending, \* events parsed and not yet handled
  eBusy,    \* they are being handled
  eBlind,   \* history: a key has done what update_from_event does not follow
  eAstray   \* how much of the bound is used up

editorVars == <<eReal, eShadow, ePending, eBusy, eBlind, eAstray>>

EmptyLine == [text |-> <<>>, pos |-> 0]
Least(x, y) == IF x < y THEN x ELSE y

Certain(r) ==
  [buffer |-> r.text, buffer_len |-> Len(r.text), cursor_pos |-> r.pos, uncertain |-> FALSE]

EditorInit ==
  /\ eReal = EmptyLine /\ eShadow = Certain(EmptyLine)
  /\ ePending = <<>> /\ eBusy = FALSE /\ eBlind = FALSE /\ eAstray = 0

------------------------------------------------------------------------------
(* Text and edit commands *)

\* The text with s in place of what is between two positions
Splice(text, from, to, s) == SubSeq(text, 1, from) \o s \o SubSeq(text, to + 1, Len(text))

Insert(s) == [c |-> "Insert", s |-> s]
Cmd(c) == [c |-> c]

\* Where the line with the cursor begins and ends, for reedline
Newlines(t) == {i \in 1..Len(t) : t[i] = "newline"}
LineStart(r) == IF \E i \in Newlines(r.text) : i <= r.pos
                THEN CHOOSE i \in 0..r.pos : /\ i \in Newlines(r.text)
                                             /\ \A j \in Newlines(r.text) : j <= r.pos => j <= i
                ELSE 0
LineEnd(r) == IF \E i \in Newlines(r.text) : i > r.pos
              THEN CHOOSE i \in r.pos..Len(r.text) : /\ i + 1 \in Newlines(r.text)
                                                     /\ \A j \in r.pos + 1..i : j \notin Newlines(r.text)
              ELSE Len(r.text)

\* reedline's line buffer. What a word is, is its own affair, see Handle.
Edited(r, cmd) ==
  LET len == Len(r.text)
      at(pos) == [r EXCEPT !.pos = pos]
      cut(from, to) == [text |-> Splice(r.text, from, to, <<>>), pos |-> from] IN
  CASE cmd.c = "Insert" -> [text |-> Splice(r.text, r.pos, r.pos, cmd.s),
                            pos |-> r.pos + Len(cmd.s)]
    [] cmd.c = "Backspace" -> IF r.pos > 0 THEN cut(r.pos - 1, r.pos) ELSE r
    [] cmd.c = "Delete" -> IF r.pos < len THEN cut(r.pos, r.pos + 1) ELSE r
    [] cmd.c = "MoveLeft" -> IF r.pos > 0 THEN at(r.pos - 1) ELSE r
    [] cmd.c = "MoveRight" -> IF r.pos < len THEN at(r.pos + 1) ELSE r
    [] cmd.c = "MoveToLineStart" -> at(LineStart(r))
    [] cmd.c = "MoveToLineEnd" -> at(LineEnd(r))
    [] cmd.c = "MoveToEnd" -> at(len)
    [] cmd.c = "CutFromStart" -> cut(0, r.pos)
    [] cmd.c = "CutToLineEnd" -> cut(r.pos, LineEnd(r))
    [] OTHER -> r

\* update_from_edit_command; a position behind the end means the end (char_to_byte_pos).
update_from_edit_command(s, cmd) ==
  LET chars == Len(s.buffer)
      byte(pos) == Least(pos, chars)
      spliced(from, to, t) == Splice(s.buffer, byte(from), byte(to), t)
      left == Least(s.cursor_pos, 5)
      right == Least(s.buffer_len - s.cursor_pos, 5) IN
  CASE cmd.c = "Insert" ->
         [s EXCEPT !.buffer = spliced(s.cursor_pos, s.cursor_pos, cmd.s),
                   !.cursor_pos = @ + Len(cmd.s), !.buffer_len = @ + Len(cmd.s)]
    [] cmd.c = "Backspace" /\ s.cursor_pos > 0 ->
         [s EXCEPT !.buffer = spliced(s.cursor_pos - 1, s.cursor_pos, <<>>),
                   !.cursor_pos = @ - 1, !.buffer_len = @ - 1]
    [] cmd.c = "Delete" /\ s.cursor_pos < s.buffer_len ->
         [s EXCEPT !.buffer = spliced(s.cursor_pos, s.cursor_pos + 1, <<>>),
                   !.buffer_len = @ - 1]
    [] cmd.c = "MoveLeft" /\ s.cursor_pos > 0 -> [s EXCEPT !.cursor_pos = @ - 1]
    [] cmd.c = "MoveRight" /\ s.cursor_pos < s.buffer_len -> [s EXCEPT !.cursor_pos = @ + 1]
    [] cmd.c = "MoveToLineStart" -> [s EXCEPT !.cursor_pos = 0]
    [] cmd.c \in {"MoveToEnd", "MoveToLineEnd"} -> [s EXCEPT !.cursor_pos = s.buffer_len]
    [] cmd.c = "CutFromStart" ->
         [s EXCEPT !.buffer = spliced(0, s.cursor_pos, <<>>), !.cursor_pos = 0,
                   !.buffer_len = IF @ > s.cursor_pos THEN @ - s.cursor_pos ELSE 0]
    [] cmd.c = "CutToLineEnd" ->
         [s EXCEPT !.buffer = SubSeq(@, 1, byte(s.cursor_pos)), !.buffer_len = s.cursor_pos]
    [] cmd.c = "CutWordLeft" ->
         [s EXCEPT !.uncertain = TRUE, !.cursor_pos = @ - left, !.buffer_len = @ - left]
    [] cmd.c = "CutWordRight" -> [s EXCEPT !.uncertain = TRUE, !.buffer_len = @ - right]
    [] cmd.c = "Other" -> [s EXCEPT !.uncertain = TRUE]
    [] OTHER -> s

------------------------------------------------------------------------------
(* What the shadow says of the cursor's surroundings *)

at_end == eShadow.cursor_pos = eShadow.buffer_len

\* char_after_cursor and char_before_cursor; "none" when there is none, or none is known
after ==
  IF eShadow.uncertain \/ eShadow.cursor_pos >= Least(eShadow.buffer_len, Len(eShadow.buffer))
  THEN "none" ELSE eShadow.buffer[eShadow.cursor_pos + 1]
before ==
  IF eShadow.uncertain \/ eShadow.cursor_pos \notin 1..Len(eShadow.buffer)
  THEN "none" ELSE eShadow.buffer[eShadow.cursor_pos]

is_inside_empty_pair ==
  /\ \A i \in DOMAIN eShadow.buffer : eShadow.buffer[i] # "newline"
  /\ <<before, after>> \in {<<"(", ")">>, <<"quote", "quote">>}

\* An odd number of quotes before the cursor (no character typed here is a backslash)
cursor_in_quote ==
  /\ ~eShadow.uncertain
  /\ LET quotes == {i \in DOMAIN eShadow.buffer : /\ i <= eShadow.cursor_pos
                                                  /\ eShadow.buffer[i] = "quote"}
     IN Cardinality(quotes) % 2 = 1

CursorAtEndOrBeforeClosing == at_end \/ after \in {")", "quote"}

------------------------------------------------------------------------------
(* Keys and the events they become *)

Edit(cmds) == [k |-> "Edit", cmds |-> cmds]
Pair(open, close) == Edit(<<Insert(<<open, close>>), Cmd("MoveLeft")>>)
Char(c) == Edit(<<Insert(<<c>>)>>)
MoveRight == Edit(<<Cmd("MoveRight")>>)

\* The event of a typed character, after the rules in their order: skip over, auto-match,
\* semicolon. That ':' may open a menu as well changes neither buffer.
apply_rules(c) ==
  CASE c = "(" -> IF CursorAtEndOrBeforeClosing THEN Pair("(", ")") ELSE Char("(")
    [] c = ")" -> IF after = ")" THEN MoveRight ELSE Char(")")
    [] c = "quote" -> IF after = "quote" THEN MoveRight
                      ELSE IF CursorAtEndOrBeforeClosing /\ ~cursor_in_quote
                           THEN Pair("quote", "quote") ELSE Char("quote")
    [] c = ";" -> IF eShadow.buffer_len = 0 /\ ~eShadow.uncertain
                  THEN [k |-> "Shell"] ELSE Char(";")
    [] OTHER -> Char(c)

\* Backspace in an empty pair deletes both.
BackspaceEvent ==
  Edit(IF is_inside_empty_pair THEN <<Cmd("Backspace"), Cmd("Delete")>>
       ELSE <<Cmd("Backspace")>>)

\* Ctrl+arrow: to a token's boundary, by so many characters; left to reedline when the
\* shadow is uncertain. Right, End and Ctrl+Right first try to complete a hint.
WordLeftEvents ==
  IF eShadow.uncertain THEN {Edit(<<Cmd("Other")>>)}
  ELSE {Edit([i \in 1..n |-> Cmd("MoveLeft")]) : n \in 0..eShadow.cursor_pos}
HintEvents ==
  {[k |-> "Hint", cmds |-> <<Cmd(c)>>] : c \in {"MoveRight", "MoveToLineEnd"}}
  \cup IF eShadow.uncertain THEN {[k |-> "Hint", cmds |-> <<Cmd("Other")>>]}
       ELSE {[k |-> "Hint", cmds |-> [i \in 1..n |-> Cmd("MoveRight")]] :
               n \in 0..Len(eShadow.buffer)}

PlainEdits ==
  {Edit(<<Cmd(c)>>) : c \in {"Delete", "MoveToLineStart", "MoveToEnd", "CutFromStart",
                             "CutToLineEnd", "CutWordLeft", "CutWordRight", "Other"}}

\* Up and Down, which a menu may take; Left likewise; Ctrl+D, which deletes
OtherEvents == {[k |-> k] : k \in {"Recall", "Left", "CtrlD", "CtrlC", "Enter"}}

Follow(s, cmds) == FoldLeft(update_from_edit_command, s, cmds)

\* ";" at an empty prompt: ":shell", whose characters do not matter, and Submit
ShellCommand == Insert(<<":", "a">>)

\* Bug: a completed hint is taken for a move.
update_without_hint(s, e) ==
  CASE e.k \in {"Edit", "Hint"} -> Follow(s, e.cmds)
    [] e.k = "Shell" -> [Follow(s, <<ShellCommand>>) EXCEPT !.uncertain = TRUE]
    [] e.k = "Enter" -> [s EXCEPT !.uncertain = TRUE]
    [] e.k = "Left" -> Follow(s, <<Cmd("MoveLeft")>>)
    [] OTHER -> s

\* update_from_event. Up and Down are alternatives of a move in a menu, which is what is
\* followed; CtrlC and CtrlD are not followed at all.
update_from_event(s, e) ==
  CASE e.k = "Hint" /\ s.cursor_pos = s.buffer_len /\ s.buffer_len > 0 ->
         [s EXCEPT !.uncertain = TRUE]
    [] OTHER -> update_without_hint(s, e)

\* Lines of a buffer with several are not told apart by update_from_edit_command.
ActsOnLine(e) ==
  /\ e.k \in {"Edit", "Hint"} /\ Newlines(eShadow.buffer) # {}
  /\ \E i \in DOMAIN e.cmds :
       e.cmds[i].c \in {"MoveToLineStart", "MoveToLineEnd", "CutToLineEnd"}

\* parse_event for a key; the Enter key ends what is read together.
Parse(e) ==
  /\ ~eBusy /\ Len(ePending) < MaxBatch
  /\ (ePending # <<>> => Last(ePending).k # "Enter")
  /\ IF eBlind \/ eShadow.uncertain
     THEN /\ eAstray < MaxAstray \/ e.k \in {"Enter", "CtrlC"}
          /\ eAstray' = Least(eAstray + 1, MaxAstray)
     ELSE eAstray' = 0
  /\ eShadow' = update_from_event(eShadow, e)
  /\ ePending' = Append(ePending, e)
  /\ eBlind' = (eBlind \/ e.k \in {"Recall", "CtrlD"} \/ ActsOnLine(e))
  /\ UNCHANGED <<eReal, eBusy>>

Room == Len(eReal.text) + Len(ePending) < MaxText /\ Len(eShadow.buffer) < MaxText

TypeCharacter == Room /\ \E c \in Typed : Parse(apply_rules(c))
PressBackspace == Parse(BackspaceEvent)
MoveByWord == \E e \in WordLeftEvents \cup HintEvents : Parse(e)
PressOther == \E e \in PlainEdits \cup OtherEvents : Parse(e)

------------------------------------------------------------------------------
(* reedline handles the events *)

\* The first non-blank character makes a meta command.
IsMeta(text) ==
  \E i \in DOMAIN text : text[i] = ":" /\ \A j \in 1..i - 1 : text[j] = "newline"

Rest(real) == eReal' = real /\ ePending' = Tail(ePending)

\* A line, or Ctrl+C, ends the reading; events behind it are dropped.
Finish == eReal' = EmptyLine /\ ePending' = <<>>

Does(k) ==
  ePending # <<>> /\ Head(ePending).k = k /\ eBusy' = TRUE /\ UNCHANGED eAstray
Unfollowed(k) == Does(k) /\ UNCHANGED eShadow

EditBuffer == FoldLeft(Edited, eReal, Head(ePending).cmds)

HandleEdit ==
  /\ Unfollowed("Edit")
  /\ UNCHANGED eBlind
  /\ LET cmd == Head(ePending).cmds[1].c
         words == IF cmd \in {"CutWordLeft", "Other"} THEN 0..eReal.pos ELSE {}
         ahead == IF cmd \in {"CutWordRight", "Other"} THEN eReal.pos..Len(eReal.text) ELSE {}
     IN \/ Rest(IF Head(ePending).cmds = <<>> THEN eReal ELSE EditBuffer)
        \/ /\ Head(ePending).cmds # <<>>
           /\ \/ cmd = "Other" /\ \E pos \in 0..Len(eReal.text) : Rest([eReal EXCEPT !.pos = pos])
              \/ \E from \in words : Rest([text |-> Splice(eReal.text, from, eReal.pos, <<>>),
                                           pos |-> from])
              \/ \E to \in ahead : Rest([eReal EXCEPT !.text = Splice(@, eReal.pos, to, <<>>)])

\* A hint, shown at the end of a line that is not empty, is completed; a menu takes it; or
\* the cursor moves.
HandleHint ==
  /\ Unfollowed("Hint")
  /\ \/ /\ eReal.pos = Len(eReal.text) /\ eReal.text # <<>> /\ Len(eReal.text) <= MaxText
        /\ Rest(Edited(eReal, Insert(<<"a">>))) /\ UNCHANGED eBlind
     \/ Rest(eReal) /\ eBlind' = TRUE
     \/ Rest(EditBuffer) /\ UNCHANGED eBlind
     \/ /\ Head(ePending).cmds = <<Cmd("Other")>>
        /\ \E pos \in eReal.pos..Len(eReal.text) : Rest([eReal EXCEPT !.pos = pos])
        /\ UNCHANGED eBlind

HandleLeft ==
  /\ Unfollowed("Left")
  /\ \/ Rest(Edited(eReal, Cmd("MoveLeft"))) /\ UNCHANGED eBlind
     \/ Rest(eReal) /\ eBlind' = TRUE

HandleRecall ==
  /\ Unfollowed("Recall")
  /\ \/ \E text \in Recalled : Rest([text |-> text, pos |-> Len(text)])
     \/ \E pos \in 0..Len(eReal.text) : Rest([eReal EXCEPT !.pos = pos])
  /\ UNCHANGED eBlind

HandleCtrlD ==
  /\ Unfollowed("CtrlD")
  /\ Rest(Edited(eReal, Cmd("Delete")))
  /\ UNCHANGED eBlind

\* Ctrl+C, and the shortcut ';', whose text is submitted without being validated
HandleInterrupt == (Unfollowed("CtrlC") \/ Unfollowed("Shell")) /\ Finish /\ UNCHANGED eBlind

\* RValidator::validate
Validated ==
  IF eReal.text = <<>> THEN Certain(EmptyLine)
  ELSE IF eShadow.buffer = eReal.text THEN eShadow
  ELSE [eShadow EXCEPT !.buffer = eReal.text, !.buffer_len = Len(eReal.text),
                       !.uncertain = TRUE]

IsBlank == \A i \in DOMAIN eReal.text : eReal.text[i] = "newline"

\* Enter: the menu's choice goes into the buffer, and the menu corrects the shadow
\* (sync_editor_state); or the line is complete; or it goes on.
HandleEnter ==
  /\ Does("Enter")
  /\ \/ LET chosen == Edited(eReal, Insert(<<"a">>)) IN
        /\ Len(eReal.text) <= MaxText
        /\ Rest(chosen)
        /\ eShadow' = Certain(chosen) /\ eBlind' = FALSE
     \/ Finish /\ eShadow' = Validated /\ UNCHANGED eBlind
     \/ /\ ~IsBlank /\ ~IsMeta(eReal.text) /\ Len(eReal.text) < MaxText
        /\ Rest(Edited(eReal, Insert(<<"newline">>))) /\ eShadow' = Validated
        /\ UNCHANGED eBlind

\* CombinedHighlighter::highlight corrects the shadow, but not in a meta command.
Redraw ==
  /\ eBusy /\ ePending = <<>>
  /\ eBusy' = FALSE
  /\ IF IsMeta(eReal.text) THEN UNCHANGED <<eShadow, eBlind>>
     ELSE eShadow' = Certain(eReal) /\ eBlind' = FALSE
  /\ eAstray' = IF eBlind' \/ eShadow'.uncertain THEN eAstray ELSE 0
  /\ UNCHANGED <<eReal, ePending>>

EditorNext ==
  \/ TypeCharacter \/ PressBackspace \/ MoveByWord \/ PressOther
  \/ HandleEdit \/ HandleHint \/ HandleLeft \/ HandleRecall \/ HandleCtrlD
  \/ HandleInterrupt \/ HandleEnter \/ Redraw

EditorSpec == EditorInit /\ [][EditorNext]_editorVars

------------------------------------------------------------------------------
\* What an event of the keys that are followed does
Moved(r, e) ==
  IF e.k = "Left" THEN Edited(r, Cmd("MoveLeft")) ELSE FoldLeft(Edited, r, e.cmds)

\* When a key is parsed, a shadow that calls itself certain is the buffer as it will be
\* when the keys before it have been handled: same text, same length, same cursor. So no
\* pair is completed, skipped or deleted that is not there, and ';' opens the shell at an
\* empty prompt only. The exceptions are the keys that are not followed (history with Up
\* and Down, a menu that takes Left or Right, Ctrl+D, and those that stop at a newline),
\* until somebody corrects the shadow.
Ahead == FoldLeft(Moved, eReal, ePending)
Predictable == \A i \in DOMAIN ePending : ePending[i].k \in {"Edit", "Hint", "Left"}
ShadowExact ==
  ~eBusy /\ ~eBlind /\ ~eShadow.uncertain /\ Predictable =>
    eShadow = Certain(Ahead)
=============================================================================
