---------------------------- MODULE CommandProofs ----------------------------
(***************************************************************************)
(* Proofs about what goes on around a command.                             *)
(* About CommandLifecycle, for every configuration of history forget, and  *)
(* any number of lines, mishaps and pieces: outcomes are those of the      *)
(* commands they are recorded for, the sponge removes failed commands,     *)
(* each in time, and nothing else, and the meta-command flag is on the row *)
(* of its own line.                                                        *)
(* About ConsoleIO, for any number of commands, presses of Ctrl+C, nested  *)
(* calls and chunks of output: an interrupt jumps out of R code only and   *)
(* hits the command it was meant for, the spinner is out of the way, and a *)
(* script's lines stand under their source.                                *)
(***************************************************************************)
EXTENDS CommandLifecycle, ConsoleIO, Integers, FiniteSetTheorems, FunctionTheorems,
  SequenceTheorems, TLAPS

USE LifecycleAssumption

-----------------------------------------------------------------------------
(* The inductive invariant, part by part.                                  *)

\* The ids that rows of the R store have had.
Given == 1..(nextId["r"] - 1)

\* Where the main thread can be: R runs outside shell mode only, and a command prompt
\* has settled what was awaited, and has reset the error state. While a command is
\* awaited, the error state is its own, but for errors outside every command.
FlowInv ==
  /\ shell => pc # "R"
  /\ pc = "reading" /\ prompt = "command" =>
       context = NoContext /\ (stray = 0 => ~hadError)
  /\ context # NoContext =>
       (erred => hadError) /\ (hadError /\ stray = 0 => erred)

\* An id is given once: the row it names is in the store, erased, or forgotten, and
\* one outcome at most is recorded for it.
IdsInv ==
  /\ \A s \in Stores : nextId[s] >= 1 /\ \A i \in DOMAIN history[s] : i >= 1
  /\ erased \subseteq Given /\ erased \cap DOMAIN Rows = {}
  /\ context \in Nat => context \in Given /\ OutcomesOf(context) = {}
  /\ \A k \in DOMAIN completed : completed[k].id \in Given \cup {NoId}
  /\ \A k, l \in DOMAIN completed :
       completed[k].id = completed[l].id /\ completed[k].id # NoId => k = l
  /\ faults = 0 =>
       context # NoId /\ \A k \in DOMAIN completed : completed[k].id # NoId

\* Every command has its status, but the one that is awaited.
SettledInv ==
  /\ context \in DOMAIN Rows => IsOwnCommand(Rows[context])
  /\ faults = 0 =>
       \A i \in DOMAIN Rows :
         Rows[i].status # "null" <=> IsOwnCommand(Rows[i]) /\ i # context

\* What the sponge has of a completed command.
Entry(c) == IF c.failed THEN c.id ELSE NoId

\* The sponge queue holds the commands completed last, newest first: as many as the
\* delay, or all of them when they are forgotten on exit only.
QueueInv ==
  pc # "over" =>
    IF ~forget.enabled THEN sponge = <<>>
    ELSE /\ Len(sponge) <= Len(completed)
         /\ \A j \in 1..Len(sponge) :
              sponge[j] = Entry(completed[Len(completed) + 1 - j])
         /\ IF forget.on_exit_only THEN Len(sponge) = Len(completed)
            ELSE /\ Len(sponge) <= forget.delay
                 /\ Len(sponge) < Len(completed) => Len(sponge) = forget.delay

-----------------------------------------------------------------------------
(* What the operations do to the histories, apart from where they happen.  *)

\* A row as the editor saves it, finalized or not.
Fresh(row, line, author, mark, broken) ==
  /\ row \in HistoryRow
  /\ row.line = line /\ row.author = author /\ row.status = "null"
  /\ row.place = "command" <=> prompt = "command"
  /\ row.meta = IF broken = "finalize" THEN "unknown" ELSE mark

\* The id that a line saved in s takes in t.
NewIds(t, s, broken) == IF t = s /\ broken # "save" THEN {nextId[s]} ELSE {}

\* rows are those of store s and the new one, unless the save failed.
Extended(rows, s, line, author, mark, broken) ==
  /\ DOMAIN rows = DOMAIN history[s] \cup NewIds(s, s, broken)
  /\ \A i \in DOMAIN history[s] : rows[i] = history[s][i]
  /\ broken # "save" => Fresh(rows[nextId[s]], line, author, mark, broken)

Lines == {"code", "comment", "meta", "shell"}

LEMMA RoutedRows ==
  ASSUME TypeOK, NEW s \in Stores, NEW line \in Lines, NEW author \in Authors,
         NEW mark \in {"yes", "no"}, NEW broken
  PROVE  Extended(Routed(s, line, author, mark, broken), s, line, author, mark, broken)
<1> DEFINE row == [line |-> line, place |-> IF prompt = "command" THEN prompt ELSE "nested",
                   author |-> author, status |-> "null", meta |-> "unknown"]
           saved == Saved(s, row, broken)
<1>1. nextId[s] \in Nat /\ nextId[s] \notin DOMAIN history[s] /\ NoId \notin DOMAIN history[s]
  BY DEF TypeOK
<1>2. Routed(s, line, author, mark, broken) = Finalized(saved, SavedId(s, broken), mark, broken)
  BY DEF Routed
<1>3. CASE broken = "save"
  BY <1>1, <1>2, <1>3 DEF Saved, SavedId, Finalized, Extended, NewIds
<1>4. CASE broken # "save"
  <2>1. /\ DOMAIN saved = DOMAIN history[s] \cup {nextId[s]}
        /\ saved[nextId[s]] = row
        /\ \A i \in DOMAIN history[s] : saved[i] = history[s][i]
    BY <1>1, <1>4 DEF Saved
  <2>2. SavedId(s, broken) = nextId[s]
    BY <1>4 DEF SavedId
  <2>3. row \in HistoryRow /\ [row EXCEPT !.meta = mark] \in HistoryRow
    BY DEF HistoryRow, Lines
  <2>4. CASE broken = "finalize"
    BY <1>2, <1>4, <2>1, <2>2, <2>3, <2>4 DEF Finalized, Extended, NewIds, Fresh
  <2>5. CASE broken # "finalize"
    <3>1. Finalized(saved, nextId[s], mark, broken) = [saved EXCEPT ![nextId[s]].meta = mark]
      BY <2>1, <2>5 DEF Finalized
    <3>2. QED
      BY <1>1, <1>2, <1>4, <2>1, <2>2, <2>3, <2>5, <3>1 DEF Extended, NewIds, Fresh
  <2>6. QED
    BY <2>4, <2>5
<1>5. QED
  BY <1>3, <1>4

-----------------------------------------------------------------------------
(* The effects of a step on the histories.                                 *)

\* Neither the histories nor what is awaited change.
Still ==
  /\ UNCHANGED <<forget, rowVars, context, sponge, completed, faults>>
  /\ pc # "over" /\ pc' # "over"
  /\ stray' \in Nat /\ stray' >= stray

\* A store's call may have failed.
Counted(broken) == faults' = IF broken = "none" THEN faults ELSE faults + 1

\* A line was saved in store s; then the user may have erased rows.
LineEntered(s, line, author, mark, broken) ==
  /\ UNCHANGED <<forget, sponge, completed, stray>>
  /\ pc # "over" /\ pc' # "over"
  /\ Counted(broken)
  /\ nextId' = [nextId EXCEPT ![s] = IF broken = "save" THEN @ ELSE @ + 1]
  /\ context' = IF line = "code" /\ prompt = "command" THEN SavedId("r", broken) ELSE context
  /\ line = "code" /\ prompt = "command" => pc = "reading" /\ s = "r"
  /\ line = "meta" <=> mark = "yes"
  /\ DOMAIN history' = Stores
  /\ \A t \in Stores : \A i \in DOMAIN history'[t] :
       \/ i \in DOMAIN history[t] /\ history'[t][i] = history[t][i]
       \/ i \in NewIds(t, s, broken) /\ Fresh(history'[t][i], line, author, mark, broken)
  /\ erased \subseteq erased' /\ erased' \subseteq erased \cup DOMAIN Rows \cup NewIds("r", s, broken)
  /\ DOMAIN Rows \cup NewIds("r", s, broken) \subseteq DOMAIN Rows' \cup erased'
  /\ (erased' \ erased) \cap DOMAIN Rows' = {}

\* Any line of either editor.
SomeLine ==
  \E s \in Stores, line \in Lines, author \in Authors, mark \in {"yes", "no"},
     broken \in {"none", "save", "finalize", "status", "delete"} :
    LineEntered(s, line, author, mark, broken)

\* A line whose rows are saved as they are routed has that effect.
LEMMA RoutedLine ==
  ASSUME TypeOK, NEW s \in Stores, NEW line \in Lines, NEW author \in Authors,
         NEW mark \in {"yes", "no"}, NEW broken,
         history' = [history EXCEPT ![s] = Routed(s, line, author, mark, broken)],
         erased' = erased,
         pc # "over", pc' # "over", UNCHANGED <<forget, sponge, completed, stray>>,
         Counted(broken), CountsId(s, broken),
         context' = IF line = "code" /\ prompt = "command" THEN SavedId("r", broken) ELSE context,
         line = "code" /\ prompt = "command" => pc = "reading" /\ s = "r",
         line = "meta" <=> mark = "yes"
  PROVE  LineEntered(s, line, author, mark, broken)
<1> DEFINE rows == Routed(s, line, author, mark, broken)
<1>1. Extended(rows, s, line, author, mark, broken)
  BY RoutedRows
<1> HIDE DEF rows
<1>2. /\ DOMAIN history' = Stores
      /\ \A t \in Stores : history'[t] = IF t = s THEN rows ELSE history[t]
  BY DEF TypeOK, rows
<1>3. \A t \in Stores : DOMAIN history'[t] = DOMAIN history[t] \cup NewIds(t, s, broken)
  BY <1>1, <1>2 DEF Extended, NewIds
<1>4. \A t \in Stores : \A i \in DOMAIN history'[t] :
       \/ i \in DOMAIN history[t] /\ history'[t][i] = history[t][i]
       \/ i \in NewIds(t, s, broken) /\ Fresh(history'[t][i], line, author, mark, broken)
  BY <1>1, <1>2 DEF Extended, NewIds
<1>5. DOMAIN Rows' = DOMAIN Rows \cup NewIds("r", s, broken)
  BY <1>3 DEF Rows, Stores
<1>6. QED
  BY <1>2, <1>4, <1>5 DEF LineEntered, CountsId

LEMMA ErasedLine ==
  ASSUME TypeOK, MetaErase
  PROVE  \E mark \in {"yes", "no"}, broken \in {"none", "save", "finalize"} :
           LineEntered(Editor, "meta", "user", mark, broken)
<1>1. PICK broken \in {"none", "save", "finalize"} :
        LET rows == MetaRows(broken)
        IN /\ Meta(broken)
           /\ \E r \in SUBSET DOMAIN rows["r"], sh \in SUBSET DOMAIN rows["shell"] :
                /\ \/ r = {} \/ sh = {}
                   \/ r = DOMAIN rows["r"] /\ sh = DOMAIN rows["shell"]
                /\ history' = [s \in Stores |->
                     [i \in DOMAIN rows[s] \ (IF s = "r" THEN r ELSE sh) |-> rows[s][i]]]
                /\ erased' = erased \cup r
  BY DEF MetaErase
<1> DEFINE rows == MetaRows(broken)
           routed == Routed(Editor, "meta", "user", "yes", broken)
<1>2. PICK r \in SUBSET DOMAIN rows["r"], sh \in SUBSET DOMAIN rows["shell"] :
        /\ history' = [s \in Stores |->
             [i \in DOMAIN rows[s] \ (IF s = "r" THEN r ELSE sh) |-> rows[s][i]]]
        /\ erased' = erased \cup r
  BY <1>1
<1>3. Editor \in Stores
  BY DEF Editor, Stores
<1>4. Extended(routed, Editor, "meta", "user", "yes", broken)
  BY <1>3, RoutedRows DEF Lines, Authors
<1>5. \A t \in Stores : rows[t] = IF t = Editor THEN routed ELSE history[t]
  BY <1>3 DEF MetaRows, TypeOK
<1> HIDE DEF rows, routed
<1>6. /\ DOMAIN history' = Stores
      /\ \A t \in Stores :
           /\ DOMAIN history'[t] = DOMAIN rows[t] \ (IF t = "r" THEN r ELSE sh)
           /\ \A i \in DOMAIN history'[t] : history'[t][i] = rows[t][i]
  BY <1>2
<1>7. \A t \in Stores : DOMAIN rows[t] = DOMAIN history[t] \cup NewIds(t, Editor, broken)
  BY <1>4, <1>5 DEF Extended, NewIds
<1>8. \A t \in Stores : \A i \in DOMAIN history'[t] :
       \/ i \in DOMAIN history[t] /\ history'[t][i] = history[t][i]
       \/ i \in NewIds(t, Editor, broken) /\ Fresh(history'[t][i], "meta", "user", "yes", broken)
  BY <1>4, <1>5, <1>6, <1>7 DEF Extended, NewIds
<1>9. /\ DOMAIN rows["r"] = DOMAIN Rows \cup NewIds("r", Editor, broken)
      /\ DOMAIN Rows' = DOMAIN rows["r"] \ r
  BY <1>6, <1>7 DEF Rows, Stores
<1>10. UNCHANGED <<forget, sponge, completed, stray, context>> /\ pc = "reading" /\ pc' = pc
  BY <1>1 DEF MetaErase, Meta, consoleVars, outcomeVars
<1>11. Counted(broken) /\ CountsId(Editor, broken)
  BY <1>1 DEF Meta, Breaks, Counted
<1>12. LineEntered(Editor, "meta", "user", "yes", broken)
  BY <1>2, <1>6, <1>8, <1>9, <1>10, <1>11 DEF LineEntered, CountsId
<1>13. QED
  BY <1>12

\* The rows that record_command has told to delete.
Gone(id, failed) == IF forget.enabled THEN Forgotten(sponge, id, failed) ELSE {}

\* The outcome of a command was recorded: of the awaited one, or of a line the formatter
\* has rejected, whose row was just saved.
OutcomeRecorded(id, failed, inError, broken) ==
  /\ UNCHANGED <<forget, erased, stray>>
  /\ pc # "over" /\ pc' # "over"
  /\ failed \in BOOLEAN /\ inError \in BOOLEAN
  /\ Counted(broken)
  /\ context' = NoContext
  /\ \/ context = id /\ id # NoContext /\ nextId' = nextId
     \/ /\ context = NoContext /\ id = SavedId("r", broken)
        /\ nextId' = [nextId EXCEPT !["r"] = IF broken = "save" THEN @ ELSE @ + 1]
  /\ sponge' = IF forget.enabled THEN Sponged(sponge, id, failed) ELSE sponge
  /\ \E author \in Authors :
       completed' = Append(completed, [id |-> id, failed |-> failed, erred |-> inError,
                                       author |-> author])
  /\ DOMAIN history' = Stores /\ history'["shell"] = history["shell"]
  /\ LET new  == IF context = NoContext THEN NewIds("r", "r", broken) ELSE {}
         gone == Gone(id, failed)
     IN /\ \A i \in DOMAIN Rows' :
             \/ i \in new
             \/ i \in DOMAIN Rows /\ i # id /\ Rows'[i] = Rows[i]
             \/ /\ i \in DOMAIN Rows /\ i = id
                /\ \E st \in {"null", "ok", "failed"} : Rows'[i] = [Rows[i] EXCEPT !.status = st]
        /\ \A i \in DOMAIN Rows' : i \in new =>
             \E row \in HistoryRow, st \in {"null", "ok", "failed"} :
               /\ Fresh(row, "code", "user", "no", broken) /\ prompt = "command"
               /\ Rows'[i] = [row EXCEPT !.status = st]
        /\ id \in DOMAIN Rows' =>
             Rows'[id].status = (IF broken = "status" THEN (IF id \in new THEN "null" ELSE Rows[id].status)
                                 ELSE IF failed THEN "failed" ELSE "ok")
        /\ DOMAIN Rows' \subseteq DOMAIN Rows \cup new
        /\ (DOMAIN Rows \cup new) \ gone \subseteq DOMAIN Rows'
        /\ broken # "delete" => gone \cap DOMAIN Rows' = {}

\* What counts as failed has raised an error, unless code outside every command has, and
\* what has raised one counts as failed.
Honest(failed, inError) == (inError => failed) /\ (failed /\ stray = 0 => inError)

SomeOutcome ==
  \E id \in Nat \cup {NoId}, failed \in BOOLEAN, inError \in BOOLEAN,
     broken \in {"none", "save", "finalize", "status", "delete"} :
    OutcomeRecorded(id, failed, inError, broken) /\ Honest(failed, inError)

\* out are rows without those that were forgotten, unless that failed, and with the status
\* of row id.
Outcome(out, rows, id, failed, broken, gone) ==
  /\ DOMAIN out \subseteq DOMAIN rows
  /\ DOMAIN rows \ gone \subseteq DOMAIN out
  /\ broken # "delete" => gone \cap DOMAIN out = {}
  /\ \A i \in DOMAIN out : i # id => out[i] = rows[i]
  /\ id \in DOMAIN out => out[id] = IF broken = "status" THEN rows[id]
       ELSE [rows[id] EXCEPT !.status = IF failed THEN "failed" ELSE "ok"]

LEMMA OutcomeRows ==
  ASSUME NEW rows, NEW id, NEW failed \in BOOLEAN, NEW broken
  PROVE  Outcome(WithOutcome(rows, id, failed, broken), rows, id, failed, broken,
                 Gone(id, failed))
<1> DEFINE marked == IF broken = "status" \/ id \notin DOMAIN rows THEN rows
                     ELSE [rows EXCEPT ![id].status = IF failed THEN "failed" ELSE "ok"]
           gone == IF forget.enabled /\ broken # "delete" THEN Forgotten(sponge, id, failed)
                   ELSE {}
<1>1. /\ DOMAIN marked = DOMAIN rows
      /\ \A i \in DOMAIN rows : i # id => marked[i] = rows[i]
      /\ id \in DOMAIN rows => marked[id] = IF broken = "status" THEN rows[id]
                 ELSE [rows[id] EXCEPT !.status = IF failed THEN "failed" ELSE "ok"]
  OBVIOUS
<1>2. WithOutcome(rows, id, failed, broken) = [i \in DOMAIN marked \ gone |-> marked[i]]
  BY DEF WithOutcome
<1> HIDE DEF marked
<1>3. QED
  BY <1>1, <1>2 DEF Outcome, Gone

\* Recording the outcome of the awaited command.
LEMMA AwaitedOutcome ==
  ASSUME TypeOK, NEW id \in Nat \cup {NoId}, context = id, NEW failed \in BOOLEAN,
         NEW inError \in BOOLEAN, NEW broken,
         RecordOutcome(Rows, id, failed, inError, broken), Counted(broken), context' = NoContext,
         UNCHANGED <<forget, erased, stray, nextId>>, pc # "over", pc' # "over"
  PROVE  OutcomeRecorded(id, failed, inError, broken)
<1> DEFINE out == WithOutcome(Rows, id, failed, broken)
<1>1. /\ DOMAIN history' = Stores /\ history'["shell"] = history["shell"] /\ Rows' = out
  BY DEF RecordOutcome, TypeOK, Stores, Rows
<1>2. \A i \in DOMAIN Rows : Rows[i] \in HistoryRow
  BY DEF TypeOK, Rows, Stores
<1>3. \A i \in DOMAIN Rows : Rows[i] = [Rows[i] EXCEPT !.status = Rows[i].status]
                          /\ Rows[i].status \in {"null", "ok", "failed"}
  BY <1>2 DEF HistoryRow
<1>4. AuthorOf(Rows, id) \in Authors
  BY <1>2 DEF AuthorOf, HistoryRow, Authors
<1>5. Outcome(out, Rows, id, failed, broken, Gone(id, failed))
  BY OutcomeRows
<1> HIDE DEF out
<1>6. \A i \in DOMAIN Rows' :
        \/ i \in DOMAIN Rows /\ i # id /\ Rows'[i] = Rows[i]
        \/ /\ i \in DOMAIN Rows /\ i = id
           /\ \E st \in {"null", "ok", "failed"} : Rows'[i] = [Rows[i] EXCEPT !.status = st]
  BY <1>1, <1>3, <1>5 DEF Outcome
<1>7. id \in DOMAIN Rows' =>
        Rows'[id].status = (IF broken = "status" THEN Rows[id].status
                            ELSE IF failed THEN "failed" ELSE "ok")
  BY <1>1, <1>2, <1>5 DEF HistoryRow, Outcome
<1>8. /\ sponge' = IF forget.enabled THEN Sponged(sponge, id, failed) ELSE sponge
      /\ completed' = Append(completed, [id |-> id, failed |-> failed, erred |-> inError,
                                         author |-> AuthorOf(Rows, id)])
  BY DEF RecordOutcome
<1>9. id # NoContext
  OBVIOUS
<1>10. QED
  BY <1>1, <1>4, <1>5, <1>6, <1>7, <1>8, <1>9 DEF OutcomeRecorded, Outcome

LEMMA SettleEffect ==
  ASSUME TypeOK, FlowInv, NEW k \in PromptKinds, ReadConsole(k)
  PROVE  Still \/ SomeOutcome
<1>1. pc = "R" /\ pc' = "reading"
  BY DEF ReadConsole
<1>2. CASE UNCHANGED <<hadError, outcomeVars, history, faults>>
  BY <1>1, <1>2 DEF ReadConsole, Still, outcomeVars, rowVars, TypeOK
<1>3. CASE SettleContext /\ context = NoContext
  BY <1>1, <1>3 DEF ReadConsole, SettleContext, Still, rowVars, TypeOK
<1>4. CASE SettleContext /\ context # NoContext
  <2>1. PICK broken \in OutcomeCalls \cup {"none"} :
          /\ Breaks(OutcomeCalls, broken)
          /\ RecordOutcome(history["r"], context, hadError, erred, broken)
    BY <1>4 DEF SettleContext
  <2>2. PICK id \in Nat \cup {NoId} : id = context
    BY <1>4 DEF TypeOK
  <2>3. PICK failed \in BOOLEAN : failed = hadError
    BY DEF TypeOK
  <2>4. PICK inError \in BOOLEAN : inError = erred
    BY DEF TypeOK
  <2>5. RecordOutcome(Rows, id, failed, inError, broken)
    BY <2>1, <2>2, <2>3, <2>4 DEF Rows
  <2>6. broken \in {"none", "save", "finalize", "status", "delete"}
    BY <2>1 DEF OutcomeCalls
  <2>7. UNCHANGED <<forget, erased, stray, nextId>> /\ Counted(broken) /\ context' = NoContext
    BY <1>4, <2>1 DEF ReadConsole, SettleContext, Breaks, Counted
  <2>8. OutcomeRecorded(id, failed, inError, broken)
    BY <1>1, <2>2, <2>5, <2>7, AwaitedOutcome
  <2>9. Honest(failed, inError)
    BY <1>4, <2>3, <2>4 DEF FlowInv, Honest
  <2>10. QED
    BY <2>6, <2>8, <2>9 DEF SomeOutcome
<1>5. QED
  BY <1>2, <1>3, <1>4 DEF ReadConsole, SettleContext

\* Code the formatter rejects, at the command prompt.
LEMMA RejectedOutcome ==
  ASSUME TypeOK, context = NoContext, prompt = "command", NEW broken,
         RecordOutcome(Routed("r", "code", "user", "no", broken), SavedId("r", broken), TRUE,
                       TRUE, broken),
         Counted(broken), CountsId("r", broken), UNCHANGED <<forget, erased, stray, context>>,
         pc # "over", pc' # "over"
  PROVE  OutcomeRecorded(SavedId("r", broken), TRUE, TRUE, broken)
<1> DEFINE id   == SavedId("r", broken)
           rows == Routed("r", "code", "user", "no", broken)
           new  == NewIds("r", "r", broken)
           out  == WithOutcome(rows, id, TRUE, broken)
<1>1. Extended(rows, "r", "code", "user", "no", broken)
  BY RoutedRows DEF Lines, Stores, Authors
<1>2. Outcome(out, rows, id, TRUE, broken, Gone(id, TRUE))
  BY OutcomeRows
<1>3. DOMAIN history' = Stores /\ history'["shell"] = history["shell"] /\ Rows' = out
  BY DEF RecordOutcome, TypeOK, Stores, Rows
<1>4. /\ \A i \in DOMAIN Rows : Rows[i] \in HistoryRow
      /\ nextId["r"] \in Nat /\ nextId["r"] \notin DOMAIN Rows /\ NoId \notin DOMAIN Rows
  BY DEF TypeOK, Rows, Stores
<1>5. IF broken = "save" THEN new = {} /\ id = NoId ELSE new = {id} /\ id = nextId["r"]
  BY DEF NewIds, SavedId
<1> HIDE DEF rows, out, id, new
<1>6. /\ DOMAIN rows = DOMAIN Rows \cup new
      /\ \A i \in DOMAIN Rows : rows[i] = Rows[i] /\ i # id
      /\ new # {} => Fresh(rows[id], "code", "user", "no", broken)
  BY <1>1, <1>4, <1>5 DEF Extended, Rows, new
<1>7. AuthorOf(rows, id) \in Authors
  BY <1>4, <1>5, <1>6 DEF AuthorOf, Fresh, Authors, HistoryRow
<1>8. \A i \in DOMAIN Rows' :
        \/ i \in new
        \/ i \in DOMAIN Rows /\ i # id /\ Rows'[i] = Rows[i]
  BY <1>2, <1>3, <1>6 DEF Outcome
<1>9. \A i \in DOMAIN Rows' : i \in new =>
        \E row \in HistoryRow, st \in {"null", "ok", "failed"} :
          /\ Fresh(row, "code", "user", "no", broken) /\ prompt = "command"
          /\ Rows'[i] = [row EXCEPT !.status = st]
  <2> SUFFICES ASSUME NEW i \in DOMAIN Rows', i \in new
      PROVE \E row \in HistoryRow, st \in {"null", "ok", "failed"} :
          /\ Fresh(row, "code", "user", "no", broken) /\ prompt = "command"
          /\ Rows'[i] = [row EXCEPT !.status = st]
    OBVIOUS
  <2>1. i = id /\ Fresh(rows[id], "code", "user", "no", broken) /\ rows[id] \in HistoryRow
    BY <1>5, <1>6 DEF Fresh
  <2>2. rows[id] = [rows[id] EXCEPT !.status = rows[id].status]
        /\ rows[id].status \in {"null", "ok", "failed"}
    BY <2>1 DEF HistoryRow
  <2>3. \E st \in {"null", "ok", "failed"} : Rows'[i] = [rows[id] EXCEPT !.status = st]
    BY <1>2, <1>3, <2>1, <2>2 DEF Outcome
  <2>4. QED
    BY <2>1, <2>3
<1>10. id \in DOMAIN Rows' =>
         Rows'[id].status = (IF broken = "status" THEN (IF id \in new THEN "null" ELSE Rows[id].status)
                             ELSE "failed")
  <2>1. SUFFICES ASSUME id \in DOMAIN Rows'
        PROVE Rows'[id].status = (IF broken = "status" THEN (IF id \in new THEN "null" ELSE Rows[id].status)
                             ELSE "failed")
    OBVIOUS
  <2>2. id \in new /\ rows[id] \in HistoryRow /\ rows[id].status = "null"
    BY <1>2, <1>3, <1>5, <1>6, <2>1 DEF Outcome, Fresh
  <2>3. QED
    BY <1>2, <1>3, <2>1, <2>2 DEF Outcome, HistoryRow
<1>11. /\ sponge' = IF forget.enabled THEN Sponged(sponge, id, TRUE) ELSE sponge
       /\ completed' = Append(completed, [id |-> id, failed |-> TRUE, erred |-> TRUE,
                                          author |-> AuthorOf(rows, id)])
  BY DEF RecordOutcome, id, rows
<1>12. nextId' = [nextId EXCEPT !["r"] = IF broken = "save" THEN @ ELSE @ + 1]
  BY DEF CountsId
<1>13. OutcomeRecorded(id, TRUE, TRUE, broken)
  BY <1>2, <1>3, <1>6, <1>7, <1>8, <1>9, <1>10, <1>11, <1>12 DEF OutcomeRecorded, Outcome, new, id
<1>14. QED
  BY <1>13 DEF id

\* The lines that are typed in the R editor.
LEMMA UserLineEffect ==
  ASSUME TypeOK, FlowInv, UserLines \/ ClientCode
  PROVE  Still \/ SomeLine \/ SomeOutcome
<1> USE DEF outcomeVars, rowVars, Stores, Lines, Authors
<1>1. CASE EnterAnswer
  <2>1. PICK broken \in {"none", "save", "finalize"} :
          /\ Breaks({"save", "finalize"}, broken)
          /\ CountsId("r", broken)
          /\ history' = [history EXCEPT !["r"] = Routed("r", "code", "user", "no", broken)]
    BY <1>1 DEF EnterAnswer
  <2>2. LineEntered("r", "code", "user", "no", broken)
    BY <1>1, <2>1, RoutedLine DEF EnterAnswer, InR, GiveToR, Breaks, Counted
  <2>3. QED
    BY <2>2 DEF SomeLine
<1>2. CASE EnterCode
  <2>1. PICK broken \in {"none", "save", "finalize"} :
          /\ Breaks({"save", "finalize"}, broken)
          /\ CountsId("r", broken)
          /\ history' = [history EXCEPT !["r"] = Routed("r", "code", "user", "no", broken)]
          /\ context' = IF prompt = "command" THEN SavedId("r", broken) ELSE context
    BY <1>2 DEF EnterCode
  <2>2. LineEntered("r", "code", "user", "no", broken)
    BY <1>2, <2>1, RoutedLine DEF EnterCode, InR, GiveToR, Breaks, Counted
  <2>3. QED
    BY <2>2 DEF SomeLine
<1>3. CASE EnterRejected
  <2>1. PICK broken \in {"none", "save", "finalize"} \cup OutcomeCalls :
          /\ Breaks({"save", "finalize"} \cup OutcomeCalls, broken)
          /\ CountsId("r", broken)
          /\ \/ /\ prompt = "command"
                /\ RecordOutcome(Routed("r", "code", "user", "no", broken), SavedId("r", broken),
                                 TRUE, TRUE, broken)
                /\ lastFailed' = TRUE
             \/ /\ prompt # "command"
                /\ history' = [history EXCEPT !["r"] = Routed("r", "code", "user", "no", broken)]
                /\ UNCHANGED <<sponge, completed, lastFailed>>
    BY <1>3 DEF EnterRejected
  <2>2. broken \in {"none", "save", "finalize", "status", "delete"}
    BY <2>1 DEF OutcomeCalls
  <2>3. /\ pc = "reading" /\ pc' = "reading" /\ UNCHANGED <<forget, erased, stray, context>>
        /\ Counted(broken)
    BY <1>3, <2>1 DEF EnterRejected, InR, consoleVars, Breaks, Counted
  <2>4. CASE prompt = "command"
    <3>1. OutcomeRecorded(SavedId("r", broken), TRUE, TRUE, broken)
      BY <2>1, <2>3, <2>4, RejectedOutcome DEF FlowInv
    <3>2. SavedId("r", broken) \in Nat \cup {NoId}
      BY DEF SavedId, TypeOK
    <3>3. QED
      BY <2>2, <3>1, <3>2 DEF SomeOutcome, Honest
  <2>5. CASE prompt # "command"
    <3>1. LineEntered("r", "code", "user", "no", broken)
      BY <2>1, <2>3, <2>5, RoutedLine
    <3>2. QED
      BY <2>2, <3>1 DEF SomeLine
  <2>6. QED
    BY <2>4, <2>5
<1>4. CASE EnterComment
  <2>1. PICK broken \in {"none", "save", "finalize"} :
          /\ Breaks({"save", "finalize"}, broken)
          /\ CountsId("r", broken)
          /\ history' = [history EXCEPT !["r"] = Routed("r", "comment", "user", "no", broken)]
    BY <1>4 DEF EnterComment
  <2>2. LineEntered("r", "comment", "user", "no", broken)
    BY <1>4, <2>1, RoutedLine DEF EnterComment, InR, Breaks, Counted
  <2>3. QED
    BY <2>2 DEF SomeLine
<1>5. CASE EnterNothing
  BY <1>5 DEF EnterNothing, Still, TypeOK
<1>6. CASE ClientCode
  <2>1. PICK broken \in {"none", "save"} :
          /\ Breaks({"save"}, broken)
          /\ CountsId("r", broken)
          /\ history' = [history EXCEPT !["r"] = Routed("r", "code", "client", "no", broken)]
          /\ context' = SavedId("r", broken)
    BY <1>6 DEF ClientCode
  <2>2. LineEntered("r", "code", "client", "no", broken)
    BY <1>6, <2>1, RoutedLine DEF ClientCode, InR, GiveToR, Breaks, Counted
  <2>3. QED
    BY <2>2 DEF SomeLine
<1>7. QED
  BY <1>1, <1>2, <1>3, <1>4, <1>5, <1>6 DEF UserLines

\* Meta commands and the shell editor.
LEMMA MetaLineEffect ==
  ASSUME TypeOK, MetaLines
  PROVE  Still \/ SomeLine
<1> USE DEF outcomeVars, rowVars, Stores, Lines, Authors
<1>1. ASSUME NEW broken \in {"none", "save", "finalize"}, Meta(broken),
             history' = MetaRows(broken), pc' # "over",
             UNCHANGED <<forget, erased, sponge, completed, stray, context>>
      PROVE  SomeLine
  <2>1. Editor \in Stores
    BY DEF Editor
  <2>2. LineEntered(Editor, "meta", "user", "yes", broken)
    BY <1>1, <2>1, RoutedLine DEF Meta, MetaRows, Breaks, Counted
  <2>3. QED
    BY <2>1, <2>2 DEF SomeLine
<1>2. CASE MetaSwitch
  BY <1>1, <1>2 DEF MetaSwitch, Meta
<1>3. CASE MetaErase
  <2>1. Editor \in Stores
    BY DEF Editor
  <2>2. QED
    BY <1>3, <2>1, ErasedLine DEF SomeLine
<1>4. CASE MetaQuit
  BY <1>1, <1>4 DEF MetaQuit
<1>5. CASE ShellLine
  <2>1. PICK broken \in {"none", "save", "finalize"} :
          /\ Breaks({"save", "finalize"}, broken)
          /\ CountsId("shell", broken)
          /\ history' = [history EXCEPT !["shell"] =
                                          Routed("shell", "shell", "user", "no", broken)]
    BY <1>5 DEF ShellLine
  <2>2. LineEntered("shell", "shell", "user", "no", broken)
    BY <1>5, <2>1, RoutedLine DEF ShellLine, Breaks, Counted
  <2>3. QED
    BY <2>2 DEF SomeLine
<1>6. CASE LeaveShell
  BY <1>6 DEF LeaveShell, Still, TypeOK
<1>7. QED
  BY <1>2, <1>3, <1>4, <1>5, <1>6 DEF MetaLines

\* Every step has one of these effects.
LEMMA NextEffect ==
  ASSUME TypeOK, FlowInv, LifecycleNext
  PROVE  Still \/ SomeLine \/ SomeOutcome \/ Cleanup \/ UNCHANGED lifecycleVars
<1>1. CASE RSteps
  BY <1>1, SettleEffect DEF RSteps, RErrs, NextChunk, StrayError, Quit, Still, TypeOK,
     outcomeVars, rowVars, consoleVars
<1>2. CASE Ends
  BY <1>2 DEF Ends, CtrlD, ExitInR, Still, TypeOK, outcomeVars, rowVars
<1>3. QED
  BY <1>1, <1>2, UserLineEffect, MetaLineEffect DEF LifecycleNext, Step, Terminated

-----------------------------------------------------------------------------
(* The sponge queue and the cleanup.                                       *)

\* A completed command is put in front of the queue.
LEMMA PushedShape ==
  ASSUME NEW queue \in Seq(Nat \cup {NoId}), NEW id \in Nat \cup {NoId}, NEW failed \in BOOLEAN
  PROVE  /\ Pushed(queue, id, failed) \in Seq(Nat \cup {NoId})
         /\ Len(Pushed(queue, id, failed)) = Len(queue) + 1
         /\ Pushed(queue, id, failed)[1] = IF failed THEN id ELSE NoId
         /\ \A j \in 1..Len(queue) : Pushed(queue, id, failed)[j + 1] = queue[j]
<1> DEFINE e == IF failed THEN id ELSE NoId
<1>1. <<e>> \in Seq(Nat \cup {NoId}) /\ Len(<<e>>) = 1 /\ <<e>>[1] = e
  OBVIOUS
<1>2. Pushed(queue, id, failed) = <<e>> \o queue
  BY DEF Pushed
<1> HIDE DEF e
<1>3. /\ <<e>> \o queue \in Seq(Nat \cup {NoId})
      /\ Len(<<e>> \o queue) = Len(queue) + 1
      /\ \A i \in 1..Len(queue) + 1 :
           (<<e>> \o queue)[i] = IF i <= 1 THEN <<e>>[i] ELSE queue[i - 1]
  BY <1>1, ConcatProperties
<1>4. Len(queue) \in Nat
  OBVIOUS
<1>5. (<<e>> \o queue)[1] = e
  BY <1>1, <1>3, <1>4
<1>6. \A j \in 1..Len(queue) : (<<e>> \o queue)[j + 1] = queue[j]
  BY <1>3, <1>4
<1>7. QED
  BY <1>2, <1>3, <1>5, <1>6 DEF e

\* The queue after a command has completed, q before it is cut, and what falls off it.
Cut(queue, id, failed, q) ==
  /\ Sponged(queue, id, failed) \in Seq(Nat \cup {NoId})
  /\ Outgrown(q) => /\ Len(Sponged(queue, id, failed)) = Len(queue)
                    /\ Forgotten(queue, id, failed) = {q[Len(queue) + 1]} \ {NoId}
  /\ ~Outgrown(q) => /\ Len(Sponged(queue, id, failed)) = Len(queue) + 1
                     /\ Forgotten(queue, id, failed) = {}
  /\ \A j \in 1..Len(Sponged(queue, id, failed)) : Sponged(queue, id, failed)[j] = q[j]

LEMMA SpongedShape ==
  ASSUME NEW queue \in Seq(Nat \cup {NoId}), NEW id \in Nat \cup {NoId}, NEW failed \in BOOLEAN
  PROVE  Cut(queue, id, failed, Pushed(queue, id, failed))
<1> DEFINE q == Pushed(queue, id, failed)
<1>1. q \in Seq(Nat \cup {NoId}) /\ Len(q) = Len(queue) + 1 /\ Len(queue) \in Nat
  BY PushedShape
<1>2. CASE Outgrown(q)
  <2>1. Sponged(queue, id, failed) = SubSeq(q, 1, Len(queue))
    BY <1>1, <1>2 DEF Sponged
  <2>2. /\ SubSeq(q, 1, Len(queue)) \in Seq(Nat \cup {NoId})
        /\ Len(SubSeq(q, 1, Len(queue))) = Len(queue)
        /\ \A j \in 1..Len(queue) : SubSeq(q, 1, Len(queue))[j] = q[j]
    BY <1>1
  <2>3. Forgotten(queue, id, failed) = {q[Len(queue) + 1]} \ {NoId}
    BY <1>1, <1>2 DEF Forgotten
  <2>4. QED
    BY <1>2, <2>1, <2>2, <2>3 DEF Cut
<1>3. CASE ~Outgrown(q)
  BY <1>1, <1>3 DEF Sponged, Forgotten, Cut
<1>4. QED
  BY <1>2, <1>3

\* At the end all that is left in the queue goes, but for what fails.
CleanedUp(kept) ==
  /\ kept \subseteq Drained
  /\ pc' = "over" /\ pc = "eof"
  /\ UNCHANGED <<forget, nextId, erased, context, completed, stray>>
  /\ faults' \in Nat /\ faults' >= faults /\ (faults' = faults => kept = {})
  /\ DOMAIN history' = Stores /\ history'["shell"] = history["shell"]
  /\ DOMAIN Rows' = DOMAIN Rows \ (Drained \ kept)
  /\ \A i \in DOMAIN Rows' : Rows'[i] = Rows[i]
  /\ sponge' = <<>>

LEMMA CleanupEffect ==
  ASSUME TypeOK, Cleanup
  PROVE  \E kept \in SUBSET Drained : CleanedUp(kept)
<1>1. PICK kept \in SUBSET Drained :
        /\ faults' = faults + Cardinality(kept)
        /\ history' = [history EXCEPT !["r"] = [i \in DOMAIN @ \ (Drained \ kept) |-> @[i]]]
  BY DEF Cleanup
<1>2. IsFiniteSet(Drained)
  <2>1. IsFiniteSet(1..Len(sponge)) /\ DOMAIN sponge = 1..Len(sponge)
    BY FS_Interval DEF TypeOK
  <2>2. IsFiniteSet({sponge[i] : i \in DOMAIN sponge})
    <3> DEFINE T == {sponge[i] : i \in DOMAIN sponge}
               f == [i \in DOMAIN sponge |-> sponge[i]]
    <3>1. f \in [DOMAIN sponge -> T] /\ \A t \in T : \E i \in DOMAIN sponge : f[i] = t
      OBVIOUS
    <3>2. f \in Surjection(DOMAIN sponge, T)
      BY <3>1, Fun_IsSurj
    <3>3. QED
      BY <2>1, <3>2, FS_Surjection
  <2>3. QED
    BY <2>2, FS_Subset DEF Drained
<1>3. Cardinality(kept) \in Nat /\ (Cardinality(kept) = 0 => kept = {})
  <2>1. IsFiniteSet(kept)
    BY <1>2, FS_Subset
  <2>2. QED
    BY <2>1, FS_CardinalityType, FS_EmptySet
<1>4. faults' \in Nat /\ faults' >= faults /\ (faults' = faults => kept = {})
  BY <1>1, <1>3 DEF TypeOK
<1>5. /\ DOMAIN history' = Stores /\ history'["shell"] = history["shell"]
      /\ DOMAIN Rows' = DOMAIN Rows \ (Drained \ kept)
      /\ \A i \in DOMAIN Rows' : Rows'[i] = Rows[i]
  BY <1>1 DEF TypeOK, Stores, Rows
<1>6. CleanedUp(kept)
  BY <1>4, <1>5 DEF Cleanup, CleanedUp
<1>7. QED
  BY <1>6

-----------------------------------------------------------------------------
(* Type correctness and flow.                                              *)

HistoryTypeOK ==
  /\ forget \in ForgetConfigs
  /\ faults \in Nat /\ stray \in Nat
  /\ nextId \in [Stores -> Nat]
  /\ DOMAIN history = Stores
  /\ \A s \in Stores : \A i \in DOMAIN history[s] :
       i \in Nat /\ i < nextId[s] /\ history[s][i] \in HistoryRow
  /\ context \in Nat \cup {NoId, NoContext}
  /\ sponge \in Seq(Nat \cup {NoId})
  /\ completed \in Seq(Completed)
  /\ erased \subseteq Nat

LEMMA HistoryType ==
  ASSUME TypeOK, FlowInv, LifecycleNext
  PROVE  HistoryTypeOK'
<1>1. CASE Still
  BY <1>1 DEF Still, TypeOK, HistoryTypeOK, rowVars
<1>2. CASE SomeLine
  <2>1. PICK s \in Stores, line \in Lines, author \in Authors, mark \in {"yes", "no"},
             broken \in {"none", "save", "finalize", "status", "delete"} :
          LineEntered(s, line, author, mark, broken)
    BY <1>2 DEF SomeLine
  <2>2. forget' \in ForgetConfigs /\ faults' \in Nat /\ stray' \in Nat
        /\ sponge' \in Seq(Nat \cup {NoId}) /\ completed' \in Seq(Completed)
    BY <2>1 DEF LineEntered, Counted, TypeOK
  <2>3. nextId' \in [Stores -> Nat] /\ \A t \in Stores : nextId'[t] >= nextId[t]
                                     /\ \A i \in NewIds(t, s, broken) : i < nextId'[t] /\ i \in Nat
    BY <2>1 DEF LineEntered, TypeOK, NewIds
  <2>4. context' \in Nat \cup {NoId, NoContext}
    BY <2>1 DEF LineEntered, TypeOK, SavedId, Stores
  <2>5. erased' \subseteq Nat
    BY <2>1 DEF LineEntered, TypeOK, NewIds, Rows, Stores
  <2>6. DOMAIN history' = Stores /\ \A t \in Stores : \A i \in DOMAIN history'[t] :
          i \in Nat /\ i < nextId'[t] /\ history'[t][i] \in HistoryRow
    <3> SUFFICES ASSUME NEW t \in Stores, NEW i \in DOMAIN history'[t]
        PROVE  i \in Nat /\ i < nextId'[t] /\ history'[t][i] \in HistoryRow
      BY <2>1 DEF LineEntered
    <3>1. \/ i \in DOMAIN history[t] /\ history'[t][i] = history[t][i]
          \/ i \in NewIds(t, s, broken) /\ Fresh(history'[t][i], line, author, mark, broken)
      BY <2>1 DEF LineEntered
    <3>2. QED
      BY <2>3, <3>1 DEF TypeOK, Fresh
  <2>7. QED
    BY <2>2, <2>3, <2>4, <2>5, <2>6 DEF HistoryTypeOK
<1>3. CASE SomeOutcome
  <2>1. PICK id \in Nat \cup {NoId}, failed \in BOOLEAN, inError \in BOOLEAN,
             broken \in {"none", "save", "finalize", "status", "delete"} :
          OutcomeRecorded(id, failed, inError, broken) /\ Honest(failed, inError)
    BY <1>3 DEF SomeOutcome
  <2>2. forget' \in ForgetConfigs /\ faults' \in Nat /\ stray' \in Nat
        /\ context' \in Nat \cup {NoId, NoContext} /\ erased' \subseteq Nat
    BY <2>1 DEF OutcomeRecorded, Counted, TypeOK
  <2>3. sponge' \in Seq(Nat \cup {NoId})
    <3>1. Sponged(sponge, id, failed) \in Seq(Nat \cup {NoId})
      BY SpongedShape DEF TypeOK, Cut
    <3>2. QED
      BY <2>1, <3>1 DEF OutcomeRecorded, TypeOK
  <2>4. completed' \in Seq(Completed)
    <3>1. PICK author \in Authors :
            completed' = Append(completed, [id |-> id, failed |-> failed, erred |-> inError,
                                            author |-> author])
      BY <2>1 DEF OutcomeRecorded
    <3>2. [id |-> id, failed |-> failed, erred |-> inError, author |-> author] \in Completed
      BY DEF Completed
    <3>3. QED
      BY <3>1, <3>2 DEF TypeOK
  <2>5. nextId' \in [Stores -> Nat] /\ nextId'["shell"] >= nextId["shell"]
        /\ nextId'["r"] >= nextId["r"]
        /\ (context = NoContext => \A i \in NewIds("r", "r", broken) : i < nextId'["r"] /\ i \in Nat)
    BY <2>1 DEF OutcomeRecorded, TypeOK, NewIds, Stores
  <2>6. \A i \in DOMAIN Rows' : i \in Nat /\ i < nextId'["r"] /\ Rows'[i] \in HistoryRow
    <3> SUFFICES ASSUME NEW i \in DOMAIN Rows'
        PROVE  i \in Nat /\ i < nextId'["r"] /\ Rows'[i] \in HistoryRow
      OBVIOUS
    <3>1. \A row \in HistoryRow, st \in {"null", "ok", "failed"} :
            [row EXCEPT !.status = st] \in HistoryRow
      BY DEF HistoryRow
    <3>2. \A j \in DOMAIN Rows : j \in Nat /\ j < nextId'["r"] /\ Rows[j] \in HistoryRow
      BY <2>5 DEF TypeOK, Rows, Stores
    <3>3. CASE i \in DOMAIN Rows /\ i # id /\ Rows'[i] = Rows[i]
      BY <3>2, <3>3
    <3>4. CASE /\ i \in DOMAIN Rows /\ i = id
               /\ \E st \in {"null", "ok", "failed"} : Rows'[i] = [Rows[i] EXCEPT !.status = st]
      <4>1. PICK st \in {"null", "ok", "failed"} : Rows'[i] = [Rows[i] EXCEPT !.status = st]
        BY <3>4
      <4>2. i \in Nat /\ i < nextId'["r"] /\ Rows[i] \in HistoryRow
        BY <3>2, <3>4
      <4>3. [Rows[i] EXCEPT !.status = st] \in HistoryRow
        BY <3>1, <4>2
      <4>4. QED
        BY <4>1, <4>2, <4>3
    <3>5. CASE context = NoContext /\ i \in NewIds("r", "r", broken)
      <4>1. \E row \in HistoryRow, st \in {"null", "ok", "failed"} :
              Rows'[i] = [row EXCEPT !.status = st]
        BY <2>1, <3>5 DEF OutcomeRecorded
      <4>2. QED
        BY <2>5, <3>1, <3>5, <4>1
    <3>6. QED
      BY <2>1, <3>3, <3>4, <3>5 DEF OutcomeRecorded
  <2>7. DOMAIN history' = Stores /\ \A t \in Stores : \A i \in DOMAIN history'[t] :
          i \in Nat /\ i < nextId'[t] /\ history'[t][i] \in HistoryRow
    BY <2>1, <2>5, <2>6 DEF OutcomeRecorded, TypeOK, Rows, Stores
  <2>8. QED
    BY <2>2, <2>3, <2>4, <2>5, <2>7 DEF HistoryTypeOK
<1>4. CASE Cleanup
  <2>1. PICK kept \in SUBSET Drained : CleanedUp(kept)
    BY <1>4, CleanupEffect
  <2>2. \A t \in Stores : \A i \in DOMAIN history'[t] :
          i \in Nat /\ i < nextId'[t] /\ history'[t][i] \in HistoryRow
    BY <2>1 DEF CleanedUp, TypeOK, Rows, Stores
  <2>3. sponge' \in Seq(Nat \cup {NoId})
    BY <2>1 DEF CleanedUp
  <2>4. QED
    BY <2>1, <2>2, <2>3 DEF CleanedUp, TypeOK, HistoryTypeOK
<1>5. CASE UNCHANGED lifecycleVars
  BY <1>5 DEF lifecycleVars, rowVars, outcomeVars, TypeOK, HistoryTypeOK
<1>6. QED
  BY <1>1, <1>2, <1>3, <1>4, <1>5, NextEffect

ConsoleTypeOK ==
  /\ pc \in Locations /\ prompt \in PromptKinds
  /\ shell \in BOOLEAN /\ evaluating \in BOOLEAN /\ hadError \in BOOLEAN
  /\ lastFailed \in BOOLEAN /\ erred \in BOOLEAN
  /\ pendingInput \in Nat

LEMMA ConsoleType ==
  ASSUME TypeOK, LifecycleNext
  PROVE  ConsoleTypeOK'
<1> USE DEF TypeOK, ConsoleTypeOK, Locations, PromptKinds, consoleVars, rVars, outcomeVars
<1>1. ASSUME NEW k \in PromptKinds, ReadConsole(k) PROVE ConsoleTypeOK'
  BY <1>1 DEF ReadConsole, SettleContext
<1>2. CASE RErrs
  BY <1>2 DEF RErrs
<1>3. CASE NextChunk
  BY <1>3 DEF NextChunk
<1>4. CASE StrayError
  BY <1>4 DEF StrayError
<1>5. CASE Quit
  BY <1>5 DEF Quit
<1>6. CASE EnterAnswer
  BY <1>6 DEF EnterAnswer, GiveToR, InR, SavedId, Stores
<1>7. CASE EnterCode
  BY <1>7 DEF EnterCode, GiveToR, InR, SavedId, Stores
<1>8. CASE EnterRejected
  BY <1>8 DEF EnterRejected, InR
<1>9. CASE EnterComment
  BY <1>9 DEF EnterComment, InR
<1>10. CASE EnterNothing
  BY <1>10 DEF EnterNothing
<1>11. CASE ClientCode
  <2>1. erred' = FALSE /\ UNCHANGED <<prompt, shell, hadError, lastFailed>>
    BY <1>11 DEF ClientCode
  <2>2. pc' = "R" /\ evaluating' = TRUE /\ pendingInput' \in 0..MaxChunks
    BY <1>11 DEF ClientCode, GiveToR
  <2>3. erred' \in BOOLEAN
    BY <2>1
  <2>4. evaluating' \in BOOLEAN /\ pendingInput' \in Nat
    BY <2>2
  <2>5. QED
    BY <2>1, <2>2, <2>3, <2>4
<1>12. CASE MetaSwitch
  BY <1>12 DEF MetaSwitch, Meta
<1>13. CASE MetaErase
  BY <1>13 DEF MetaErase, Meta
<1>14. CASE MetaQuit
  BY <1>14 DEF MetaQuit, Meta
<1>15. CASE ShellLine
  BY <1>15 DEF ShellLine
<1>16. CASE LeaveShell
  BY <1>16 DEF LeaveShell
<1>17. CASE CtrlD
  BY <1>17 DEF CtrlD
<1>18. CASE Cleanup
  BY <1>18 DEF Cleanup
<1>19. CASE ExitInR
  BY <1>19 DEF ExitInR
<1>20. QED
  BY <1>1, <1>2, <1>3, <1>4, <1>5, <1>6, <1>7, <1>8, <1>9, <1>10, <1>11, <1>12, <1>13, <1>14, <1>15, <1>16, <1>17, <1>18, <1>19
     DEF LifecycleNext, Step, RSteps, UserLines, MetaLines, Ends, Terminated, lifecycleVars

LEMMA FlowStep ==
  ASSUME TypeOK, FlowInv, LifecycleNext
  PROVE  FlowInv'
<1> USE DEF TypeOK, FlowInv, consoleVars, rVars, outcomeVars
<1>1. ASSUME NEW k \in PromptKinds, ReadConsole(k) PROVE FlowInv'
  BY <1>1 DEF ReadConsole, SettleContext
<1>2. CASE RErrs
  BY <1>2 DEF RErrs
<1>3. CASE NextChunk
  BY <1>3 DEF NextChunk
<1>4. CASE StrayError
  BY <1>4 DEF StrayError
<1>5. CASE Quit
  BY <1>5 DEF Quit
<1>6. CASE EnterAnswer
  BY <1>6 DEF EnterAnswer, GiveToR, InR, SavedId, Stores
<1>7. CASE EnterCode
  BY <1>7 DEF EnterCode, GiveToR, InR, SavedId, Stores
<1>8. CASE EnterRejected
  BY <1>8 DEF EnterRejected, InR
<1>9. CASE EnterComment
  BY <1>9 DEF EnterComment, InR
<1>10. CASE EnterNothing
  BY <1>10 DEF EnterNothing
<1>11. CASE ClientCode
  BY <1>11 DEF ClientCode, GiveToR, InR, SavedId, Stores
<1>12. CASE MetaSwitch
  BY <1>12 DEF MetaSwitch, Meta
<1>13. CASE MetaErase
  BY <1>13 DEF MetaErase, Meta
<1>14. CASE MetaQuit
  BY <1>14 DEF MetaQuit, Meta
<1>15. CASE ShellLine
  BY <1>15 DEF ShellLine
<1>16. CASE LeaveShell
  BY <1>16 DEF LeaveShell
<1>17. CASE CtrlD
  BY <1>17 DEF CtrlD
<1>18. CASE Cleanup
  BY <1>18 DEF Cleanup
<1>19. CASE ExitInR
  BY <1>19 DEF ExitInR
<1>20. QED
  BY <1>1, <1>2, <1>3, <1>4, <1>5, <1>6, <1>7, <1>8, <1>9, <1>10, <1>11, <1>12, <1>13, <1>14, <1>15, <1>16, <1>17, <1>18, <1>19
     DEF LifecycleNext, Step, RSteps, UserLines, MetaLines, Ends, Terminated, lifecycleVars

-----------------------------------------------------------------------------
(* The ids.                                                                *)

\* What is known of the completed commands once an outcome has been recorded.
LEMMA CompletedGrows ==
  ASSUME TypeOK, NEW id \in Nat \cup {NoId}, NEW failed \in BOOLEAN, NEW inError \in BOOLEAN,
         NEW broken, OutcomeRecorded(id, failed, inError, broken)
  PROVE  /\ Len(completed) \in Nat /\ DOMAIN completed = 1..Len(completed)
         /\ Len(completed') = Len(completed) + 1 /\ DOMAIN completed' = 1..(Len(completed) + 1)
         /\ \A k \in 1..Len(completed) : completed'[k] = completed[k] /\ completed[k] \in Completed
         /\ LET c == completed'[Len(completed) + 1]
            IN c.id = id /\ c.failed = failed /\ c.erred = inError
<1>1. PICK author \in Authors :
        completed' = Append(completed, [id |-> id, failed |-> failed, erred |-> inError,
                                        author |-> author])
  BY DEF OutcomeRecorded
<1>2. completed \in Seq(Completed)
  BY DEF TypeOK
<1>3. QED
  BY <1>1, <1>2

LEMMA GivenGrows ==
  ASSUME TypeOK, IdsInv, nextId' \in [Stores -> Nat], \A s \in Stores : nextId'[s] >= nextId[s]
  PROVE  Given \subseteq Given' /\ \A s \in Stores : nextId'[s] >= 1
BY DEF Given, IdsInv, TypeOK, Stores

LEMMA IdsStep ==
  ASSUME TypeOK, FlowInv, IdsInv, LifecycleNext
  PROVE  IdsInv'
<1>1. CASE Still
  BY <1>1 DEF Still, IdsInv, rowVars, Given, Rows, OutcomesOf
<1>2. CASE SomeLine
  <2>1. PICK s \in Stores, line \in Lines, author \in Authors, mark \in {"yes", "no"},
             broken \in {"none", "save", "finalize", "status", "delete"} :
          LineEntered(s, line, author, mark, broken)
    BY <1>2 DEF SomeLine
  <2>2. nextId' \in [Stores -> Nat] /\ \A t \in Stores : nextId'[t] >= nextId[t]
    BY <2>1 DEF LineEntered, TypeOK
  <2>3. Given \subseteq Given' /\ \A t \in Stores : nextId'[t] >= 1
    BY <2>2, GivenGrows
  <2>4. \A i \in NewIds("r", s, broken) : i = nextId["r"] /\ i \in Given' /\ i \notin Given
    BY <2>1 DEF LineEntered, TypeOK, IdsInv, NewIds, Given, Stores
  <2>5. \A t \in Stores : \A i \in DOMAIN history'[t] : i >= 1
    BY <2>1 DEF LineEntered, NewIds, IdsInv
  <2>6. DOMAIN Rows \subseteq Given
    BY DEF TypeOK, IdsInv, Rows, Given, Stores
  <2>7. erased' \subseteq Given' /\ erased' \cap DOMAIN Rows' = {}
    <3>1. DOMAIN Rows' \subseteq DOMAIN Rows \cup NewIds("r", s, broken)
      BY <2>1 DEF LineEntered, Rows, Stores
    <3>2. QED
      BY <2>1, <2>3, <2>4, <2>6, <3>1 DEF LineEntered, IdsInv
  <2>8. UNCHANGED completed
    BY <2>1 DEF LineEntered
  <2>9. context' \in Nat => context' \in Given' /\ OutcomesOf(context)' = {}
    <3>1. CASE line = "code" /\ prompt = "command"
      <4>1. context' = SavedId("r", broken) /\ s = "r"
        BY <2>1, <3>1 DEF LineEntered
      <4>2. CASE broken = "save"
        BY <4>1, <4>2 DEF SavedId
      <4>3. CASE broken # "save"
        <5>1. context' = nextId["r"] /\ context' \in Given' /\ context' \notin Given
          BY <2>4, <4>1, <4>3 DEF SavedId, NewIds
        <5>2. context' # NoId
          BY <5>1 DEF TypeOK, Stores
        <5>3. QED
          BY <2>8, <5>1, <5>2 DEF OutcomesOf, IdsInv
      <4>4. QED
        BY <4>2, <4>3
    <3>2. CASE ~(line = "code" /\ prompt = "command")
      BY <2>1, <2>3, <2>8, <3>2 DEF LineEntered, OutcomesOf, IdsInv
    <3>3. QED
      BY <3>1, <3>2
  <2>10. faults' = 0 => faults = 0 /\ context' # NoId
    BY <2>1 DEF LineEntered, Counted, TypeOK, IdsInv, SavedId, Stores
  <2>11. QED
    BY <2>3, <2>5, <2>7, <2>8, <2>9, <2>10 DEF IdsInv
<1>3. CASE SomeOutcome
  <2>1. PICK id \in Nat \cup {NoId}, failed \in BOOLEAN, inError \in BOOLEAN,
             broken \in {"none", "save", "finalize", "status", "delete"} :
          OutcomeRecorded(id, failed, inError, broken) /\ Honest(failed, inError)
    BY <1>3 DEF SomeOutcome
  <2> DEFINE new == IF context = NoContext THEN NewIds("r", "r", broken) ELSE {}
             n   == Len(completed) + 1
  <2>2. nextId' \in [Stores -> Nat] /\ \A t \in Stores : nextId'[t] >= nextId[t]
    <3>1. \/ nextId' = nextId
          \/ nextId' = [nextId EXCEPT !["r"] = IF broken = "save" THEN @ ELSE @ + 1]
      BY <2>1 DEF OutcomeRecorded
    <3>2. nextId \in [Stores -> Nat]
      BY DEF TypeOK
    <3>3. QED
      BY <3>1, <3>2
  <2>3. Given \subseteq Given' /\ \A t \in Stores : nextId'[t] >= 1
    BY <2>2, GivenGrows
  <2>4. \A i \in new : i = nextId["r"] /\ i \in Given' /\ i \notin Given /\ i = id
    BY <2>1 DEF OutcomeRecorded, TypeOK, IdsInv, NewIds, Given, Stores, SavedId
  <2>5. DOMAIN Rows \subseteq Given /\ DOMAIN Rows' \subseteq DOMAIN Rows \cup new
    BY <2>1 DEF TypeOK, IdsInv, Rows, Given, Stores, OutcomeRecorded
  <2>6. \A t \in Stores : \A i \in DOMAIN history'[t] : i >= 1
    <3>1. \A i \in DOMAIN Rows' : i \in Given'
      BY <2>3, <2>4, <2>5
    <3>2. QED
      BY <2>1, <3>1 DEF OutcomeRecorded, IdsInv, Stores, Rows, Given
  <2>7. erased' \subseteq Given' /\ erased' \cap DOMAIN Rows' = {}
    BY <2>1, <2>3, <2>4, <2>5 DEF OutcomeRecorded, IdsInv
  <2>8. id \in Given' \cup {NoId}
    <3>1. CASE context = id /\ id # NoContext /\ nextId' = nextId
      BY <2>3, <3>1 DEF IdsInv
    <3>2. CASE /\ context = NoContext /\ id = SavedId("r", broken)
               /\ nextId' = [nextId EXCEPT !["r"] = IF broken = "save" THEN @ ELSE @ + 1]
      BY <2>4, <3>2 DEF SavedId, NewIds
    <3>3. QED
      BY <2>1, <3>1, <3>2 DEF OutcomeRecorded
  <2>9. \A k \in 1..Len(completed) : completed[k].id # id \/ id = NoId
    <3>1. CASE context = id /\ id # NoContext /\ nextId' = nextId
      BY <3>1, CompletedGrows, <2>1 DEF IdsInv, OutcomesOf
    <3>2. CASE context = NoContext /\ id = SavedId("r", broken) /\ broken # "save"
      <4>1. id = nextId["r"] /\ id \notin Given /\ id # NoId
        BY <2>4, <3>2 DEF SavedId, NewIds, TypeOK, Stores
      <4>2. QED
        BY <4>1, CompletedGrows, <2>1 DEF IdsInv
    <3>3. QED
      BY <2>1, <3>1, <3>2 DEF OutcomeRecorded, SavedId
  <2>10. /\ Len(completed) \in Nat /\ DOMAIN completed = 1..Len(completed)
         /\ DOMAIN completed' = 1..n /\ completed'[n].id = id
         /\ \A k \in 1..Len(completed) : completed'[k] = completed[k]
    BY <2>1, CompletedGrows
  <2>11. \A k \in DOMAIN completed' : completed'[k].id \in Given' \cup {NoId}
    <3> SUFFICES ASSUME NEW k \in 1..n PROVE completed'[k].id \in Given' \cup {NoId}
      BY <2>10
    <3>1. CASE k = n
      BY <2>8, <2>10, <3>1
    <3>2. CASE k # n
      <4>1. k \in DOMAIN completed /\ completed'[k] = completed[k]
        BY <2>10, <3>2
      <4>2. QED
        BY <2>3, <4>1 DEF IdsInv
    <3>3. QED
      BY <3>1, <3>2
  <2>12. \A k, l \in DOMAIN completed' :
           completed'[k].id = completed'[l].id /\ completed'[k].id # NoId => k = l
    <3>1. \A k \in 1..n : k = n \/ k \in 1..Len(completed)
      BY <2>10
    <3>2. QED
      BY <2>9, <2>10, <3>1 DEF IdsInv
  <2>13. faults' = 0 => \A k \in DOMAIN completed' : completed'[k].id # NoId
    <3> SUFFICES ASSUME faults' = 0 PROVE \A k \in DOMAIN completed' : completed'[k].id # NoId
      OBVIOUS
    <3>1. faults = 0 /\ broken = "none"
      BY <2>1 DEF OutcomeRecorded, Counted, TypeOK
    <3>2. id # NoId
      BY <2>1, <3>1 DEF OutcomeRecorded, SavedId, IdsInv, TypeOK, Stores
    <3>3. QED
      BY <2>10, <3>1, <3>2 DEF IdsInv
  <2>14. context' = NoContext
    BY <2>1 DEF OutcomeRecorded
  <2>15. QED
    BY <2>3, <2>6, <2>7, <2>11, <2>12, <2>13, <2>14 DEF IdsInv
<1>4. CASE Cleanup
  <2>1. PICK kept \in SUBSET Drained : CleanedUp(kept)
    BY <1>4, CleanupEffect
  <2>2. \A s \in Stores : nextId'[s] >= 1 /\ \A i \in DOMAIN history'[s] : i >= 1
    BY <2>1 DEF CleanedUp, IdsInv, Rows, Stores
  <2>3. faults' = 0 => faults = 0
    BY <2>1 DEF CleanedUp, TypeOK
  <2>4. QED
    BY <2>1, <2>2, <2>3 DEF CleanedUp, IdsInv, Given, OutcomesOf
<1>5. CASE UNCHANGED lifecycleVars
  BY <1>5 DEF lifecycleVars, rowVars, outcomeVars, IdsInv, Given, Rows, OutcomesOf
<1>6. QED
  BY <1>1, <1>2, <1>3, <1>4, <1>5, NextEffect

-----------------------------------------------------------------------------
(* The meta-command mark.                                                  *)

LEMMA MetaFlagStep ==
  ASSUME TypeOK, FlowInv, MetaFlagOnOwnRow, LifecycleNext
  PROVE  MetaFlagOnOwnRow'
<1>1. CASE Still
  BY <1>1 DEF Still, MetaFlagOnOwnRow, rowVars
<1>2. CASE SomeLine
  <2>1. PICK s \in Stores, line \in Lines, author \in Authors, mark \in {"yes", "no"},
             broken \in {"none", "save", "finalize", "status", "delete"} :
          LineEntered(s, line, author, mark, broken)
    BY <1>2 DEF SomeLine
  <2>2. faults' >= faults /\ (broken = "finalize" => faults' > 0) /\ faults \in Nat /\ faults' \in Nat
    BY <2>1 DEF LineEntered, Counted, TypeOK
  <2> SUFFICES ASSUME NEW t \in Stores, NEW i \in DOMAIN history'[t]
               PROVE  LET row == history'[t][i]
                      IN /\ row.meta = "yes" => row.line = "meta"
                         /\ row.meta = "no"  => row.line # "meta"
                         /\ row.meta = "unknown" => faults' > 0
    BY DEF MetaFlagOnOwnRow
  <2>3. CASE i \in DOMAIN history[t] /\ history'[t][i] = history[t][i]
    BY <2>2, <2>3 DEF MetaFlagOnOwnRow
  <2>4. CASE Fresh(history'[t][i], line, author, mark, broken)
    BY <2>1, <2>2, <2>4 DEF Fresh, LineEntered
  <2>5. QED
    BY <2>1, <2>3, <2>4 DEF LineEntered
<1>3. CASE SomeOutcome
  <2>1. PICK id \in Nat \cup {NoId}, failed \in BOOLEAN, inError \in BOOLEAN,
             broken \in {"none", "save", "finalize", "status", "delete"} :
          OutcomeRecorded(id, failed, inError, broken) /\ Honest(failed, inError)
    BY <1>3 DEF SomeOutcome
  <2>2. faults' >= faults /\ (broken = "finalize" => faults' > 0) /\ faults \in Nat /\ faults' \in Nat
    BY <2>1 DEF OutcomeRecorded, Counted, TypeOK
  <2>3. \A i \in DOMAIN Rows' :
          /\ Rows'[i].meta = "yes" => Rows'[i].line = "meta"
          /\ Rows'[i].meta = "no"  => Rows'[i].line # "meta"
          /\ Rows'[i].meta = "unknown" => faults' > 0
    <3> SUFFICES ASSUME NEW i \in DOMAIN Rows'
        PROVE /\ Rows'[i].meta = "yes" => Rows'[i].line = "meta"
              /\ Rows'[i].meta = "no"  => Rows'[i].line # "meta"
              /\ Rows'[i].meta = "unknown" => faults' > 0
      OBVIOUS
    <3>1. CASE context = NoContext /\ i \in NewIds("r", "r", broken)
      <4>1. PICK row \in HistoryRow, st \in {"null", "ok", "failed"} :
              /\ Fresh(row, "code", "user", "no", broken)
              /\ Rows'[i] = [row EXCEPT !.status = st]
        BY <2>1, <3>1 DEF OutcomeRecorded
      <4>2. Rows'[i].meta = row.meta /\ Rows'[i].line = row.line
        BY <4>1 DEF HistoryRow
      <4>3. QED
        BY <2>2, <4>1, <4>2 DEF Fresh
    <3>2. CASE i \in DOMAIN Rows
      <4>1. \/ Rows'[i] = Rows[i]
            \/ \E st \in {"null", "ok", "failed"} : Rows'[i] = [Rows[i] EXCEPT !.status = st]
            \/ context = NoContext /\ i \in NewIds("r", "r", broken)
        BY <2>1 DEF OutcomeRecorded
      <4>2. Rows[i] \in HistoryRow
        BY <3>2 DEF TypeOK, Rows, Stores
      <4>3. \/ Rows'[i].meta = Rows[i].meta /\ Rows'[i].line = Rows[i].line
            \/ context = NoContext /\ i \in NewIds("r", "r", broken)
        <5>1. CASE \E st \in {"null", "ok", "failed"} : Rows'[i] = [Rows[i] EXCEPT !.status = st]
          <6>1. PICK st \in {"null", "ok", "failed"} : Rows'[i] = [Rows[i] EXCEPT !.status = st]
            BY <5>1
          <6>2. QED
            BY <4>2, <6>1 DEF HistoryRow
        <5>2. QED
          BY <4>1, <5>1
      <4>4. QED
        BY <2>2, <3>1, <3>2, <4>3 DEF MetaFlagOnOwnRow, Rows, Stores
    <3>3. QED
      BY <2>1, <3>1, <3>2 DEF OutcomeRecorded
  <2>4. \A i \in DOMAIN history'["shell"] :
          LET row == history'["shell"][i]
          IN /\ row.meta = "yes" => row.line = "meta"
             /\ row.meta = "no"  => row.line # "meta"
             /\ row.meta = "unknown" => faults' > 0
    BY <2>1, <2>2 DEF OutcomeRecorded, MetaFlagOnOwnRow, Stores
  <2>5. QED
    BY <2>3, <2>4 DEF MetaFlagOnOwnRow, Rows, Stores
<1>4. CASE Cleanup
  <2>1. PICK kept \in SUBSET Drained : CleanedUp(kept)
    BY <1>4, CleanupEffect
  <2>2. \A s \in Stores : \A i \in DOMAIN history'[s] :
          i \in DOMAIN history[s] /\ history'[s][i] = history[s][i]
    BY <2>1 DEF CleanedUp, Rows, Stores
  <2>3. faults > 0 => faults' > 0
    BY <2>1 DEF CleanedUp, TypeOK
  <2>4. QED
    BY <2>2, <2>3 DEF MetaFlagOnOwnRow
<1>5. CASE UNCHANGED lifecycleVars
  BY <1>5 DEF lifecycleVars, rowVars, MetaFlagOnOwnRow
<1>6. QED
  BY <1>1, <1>2, <1>3, <1>4, <1>5, NextEffect

-----------------------------------------------------------------------------
(* Outcomes.                                                               *)

LEMMA OwnOutcomeStep ==
  ASSUME TypeOK, FlowInv, OwnOutcome, LifecycleNext
  PROVE  OwnOutcome'
<1>1. CASE Still
  BY <1>1 DEF Still, OwnOutcome, rowVars, Rows, OutcomesOf, TypeOK
<1>2. CASE SomeLine
  <2>1. PICK s \in Stores, line \in Lines, author \in Authors, mark \in {"yes", "no"},
             broken \in {"none", "save", "finalize", "status", "delete"} :
          LineEntered(s, line, author, mark, broken)
    BY <1>2 DEF SomeLine
  <2>2. \A i \in DOMAIN Rows' :
          \/ i \in DOMAIN Rows /\ Rows'[i] = Rows[i]
          \/ Rows'[i].status = "null"
    BY <2>1 DEF LineEntered, Fresh, Rows, Stores
  <2>3. QED
    BY <2>1, <2>2 DEF OwnOutcome, OutcomesOf, LineEntered
<1>3. CASE SomeOutcome
  <2>1. PICK id \in Nat \cup {NoId}, failed \in BOOLEAN, inError \in BOOLEAN,
             broken \in {"none", "save", "finalize", "status", "delete"} :
          OutcomeRecorded(id, failed, inError, broken) /\ Honest(failed, inError)
    BY <1>3 DEF SomeOutcome
  <2> DEFINE n == Len(completed) + 1
  <2>2. /\ DOMAIN completed = 1..Len(completed) /\ Len(completed) \in Nat
        /\ DOMAIN completed' = 1..n
        /\ \A k \in DOMAIN completed : completed'[k] = completed[k] /\ k \in DOMAIN completed'
        /\ n \in DOMAIN completed' /\ completed'[n].id = id /\ completed'[n].failed = failed
        /\ completed'[n].erred = inError
    BY <2>1, CompletedGrows
  <2> SUFFICES ASSUME NEW i \in DOMAIN Rows'
      PROVE /\ Rows'[i].status = "ok" => \E k \in OutcomesOf(i)' : ~completed'[k].erred
            /\ Rows'[i].status = "failed" /\ stray' = 0 =>
                 \E k \in OutcomesOf(i)' : completed'[k].erred
    BY DEF OwnOutcome
  <2>3. OutcomesOf(i) \subseteq OutcomesOf(i)'
        /\ \A k \in OutcomesOf(i) : completed'[k] = completed[k]
    BY <2>2 DEF OutcomesOf
  <2>4. stray' = stray
    BY <2>1 DEF OutcomeRecorded
  <2>5. CASE i \in DOMAIN Rows /\ Rows'[i].status = Rows[i].status
    BY <2>3, <2>4, <2>5 DEF OwnOutcome
  <2>6. CASE i = id /\ Rows'[i].status = IF failed THEN "failed" ELSE "ok"
    <3>1. n \in OutcomesOf(i)'
      BY <2>2, <2>6 DEF OutcomesOf
    <3>2. QED
      BY <2>1, <2>2, <2>4, <2>6, <3>1 DEF Honest
  <2>7. CASE Rows'[i].status = "null"
    BY <2>7
  <2>8. \/ i \in DOMAIN Rows /\ Rows'[i].status = Rows[i].status
        \/ i = id /\ Rows'[i].status = IF failed THEN "failed" ELSE "ok"
        \/ Rows'[i].status = "null"
    <3> DEFINE new == IF context = NoContext THEN NewIds("r", "r", broken) ELSE {}
    <3>1. CASE i # id
      <4>1. i \notin new
        BY <2>1, <3>1 DEF OutcomeRecorded, NewIds, SavedId
      <4>2. QED
        BY <2>1, <3>1, <4>1 DEF OutcomeRecorded
    <3>2. CASE i = id
      <4>1. Rows'[id].status = (IF broken = "status"
                                THEN (IF id \in new THEN "null" ELSE Rows[id].status)
                                ELSE IF failed THEN "failed" ELSE "ok")
        BY <2>1, <3>2 DEF OutcomeRecorded
      <4>2. i \in DOMAIN Rows \/ i \in new
        BY <2>1 DEF OutcomeRecorded
      <4>3. QED
        BY <3>2, <4>1, <4>2
    <3>3. QED
      BY <3>1, <3>2
  <2>9. QED
    BY <2>5, <2>6, <2>7, <2>8
<1>4. CASE Cleanup
  <2>1. PICK kept \in SUBSET Drained : CleanedUp(kept)
    BY <1>4, CleanupEffect
  <2>2. QED
    BY <2>1 DEF CleanedUp, OwnOutcome, OutcomesOf
<1>5. CASE UNCHANGED lifecycleVars
  BY <1>5 DEF lifecycleVars, rowVars, outcomeVars, OwnOutcome, Rows, OutcomesOf
<1>6. QED
  BY <1>1, <1>2, <1>3, <1>4, <1>5, NextEffect

LEMMA SettledStep ==
  ASSUME TypeOK, FlowInv, IdsInv, SettledInv, LifecycleNext
  PROVE  SettledInv'
<1>1. CASE Still
  BY <1>1 DEF Still, SettledInv, rowVars, Rows
<1>2. CASE SomeLine
  <2>1. PICK s \in Stores, line \in Lines, author \in Authors, mark \in {"yes", "no"},
             broken \in {"none", "save", "finalize", "status", "delete"} :
          LineEntered(s, line, author, mark, broken)
    BY <1>2 DEF SomeLine
  <2> DEFINE awaited == line = "code" /\ prompt = "command"
  <2>2. faults' = 0 => faults = 0
    BY <2>1 DEF LineEntered, Counted, TypeOK
  <2>3. nextId["r"] \notin DOMAIN Rows /\ NoId \notin DOMAIN Rows'
    <3>1. nextId["r"] \in Nat /\ \A i \in DOMAIN Rows : i \in Nat /\ i < nextId["r"]
      BY DEF TypeOK, Rows, Stores
    <3>2. \A i \in DOMAIN Rows' : i \in Nat
      BY <2>1, <3>1 DEF LineEntered, Rows, Stores, NewIds
    <3>3. QED
      BY <3>1, <3>2
  <2>4. \A i \in DOMAIN Rows' :
          \/ i \in DOMAIN Rows /\ Rows'[i] = Rows[i]
          \/ /\ i = nextId["r"] /\ broken # "save" /\ s = "r"
             /\ Fresh(Rows'[i], line, author, mark, broken)
    BY <2>1 DEF LineEntered, NewIds, Rows, Stores
  <2>5. context' = IF awaited THEN SavedId("r", broken) ELSE context
    BY <2>1 DEF LineEntered
  <2>6. awaited => context = NoContext /\ s = "r"
    BY <2>1 DEF LineEntered, FlowInv
  <2>7. \A i \in DOMAIN Rows : i # context' \/ context' = context
    BY <2>3, <2>5 DEF SavedId, Rows, TypeOK, Stores
  <2>8. \A i \in DOMAIN Rows' : i \notin DOMAIN Rows =>
          /\ Rows'[i].status = "null"
          /\ IsOwnCommand(Rows'[i]) <=> i = context'
    <3> SUFFICES ASSUME NEW i \in DOMAIN Rows', i \notin DOMAIN Rows
        PROVE Rows'[i].status = "null" /\ (IsOwnCommand(Rows'[i]) <=> i = context')
      OBVIOUS
    <3>1. i = nextId["r"] /\ broken # "save" /\ Fresh(Rows'[i], line, author, mark, broken)
      BY <2>4
    <3>2. IsOwnCommand(Rows'[i]) <=> awaited
      BY <3>1 DEF Fresh, IsOwnCommand
    <3>3. awaited => i = context'
      BY <2>5, <3>1 DEF SavedId
    <3>4. ~awaited => i # context'
      <4>1. context \in Nat => context < nextId["r"]
        BY DEF IdsInv, Given, TypeOK, Stores
      <4>2. nextId["r"] \in Nat
        BY DEF TypeOK, Stores
      <4>3. QED
        BY <2>5, <3>1, <4>1, <4>2
    <3>5. QED
      BY <3>1, <3>2, <3>3, <3>4 DEF Fresh
  <2>9. \A i \in DOMAIN Rows' : i \in DOMAIN Rows => Rows'[i] = Rows[i]
    BY <2>3, <2>4
  <2>10. context' \in DOMAIN Rows' => IsOwnCommand(Rows'[context'])
    BY <2>7, <2>8, <2>9 DEF SettledInv
  <2>11. \A i \in DOMAIN Rows : i # context' <=> i # context
    <3>1. CASE awaited
      <4>1. context = NoContext /\ \A i \in DOMAIN Rows : i \in Nat
        BY <2>6, <3>1 DEF TypeOK, Rows, Stores
      <4>2. context' = nextId["r"] \/ context' = NoId
        BY <2>5, <3>1 DEF SavedId
      <4>3. QED
        BY <2>3, <4>1, <4>2
    <3>2. QED
      BY <2>5, <3>1
  <2>12. faults' = 0 =>
          \A i \in DOMAIN Rows' :
            Rows'[i].status # "null" <=> IsOwnCommand(Rows'[i]) /\ i # context'
    BY <2>2, <2>8, <2>9, <2>11 DEF SettledInv
  <2>13. QED
    BY <2>10, <2>12 DEF SettledInv
<1>3. CASE SomeOutcome
  <2>1. PICK id \in Nat \cup {NoId}, failed \in BOOLEAN, inError \in BOOLEAN,
             broken \in {"none", "save", "finalize", "status", "delete"} :
          OutcomeRecorded(id, failed, inError, broken) /\ Honest(failed, inError)
    BY <1>3 DEF SomeOutcome
  <2> DEFINE new == IF context = NoContext THEN NewIds("r", "r", broken) ELSE {}
  <2>2. faults' = 0 => faults = 0 /\ broken = "none"
    BY <2>1 DEF OutcomeRecorded, Counted, TypeOK
  <2>3. \A i \in DOMAIN Rows : i \in Nat /\ i < nextId["r"] /\ Rows[i] \in HistoryRow
    BY DEF TypeOK, Rows, Stores
  <2>4. context' = NoContext /\ (context = id \/ context = NoContext)
    BY <2>1 DEF OutcomeRecorded
  <2>5. \A i \in DOMAIN Rows' : i # NoContext
    <3>1. \A i \in new : i \in Nat
      BY DEF NewIds, TypeOK, Stores
    <3>2. QED
      BY <2>1, <2>3, <3>1 DEF OutcomeRecorded
  <2>6. \A i \in new : i = id /\ i \notin DOMAIN Rows
    <3>1. \A i \in new : i = nextId["r"] /\ context = NoContext /\ broken # "save"
      BY DEF NewIds
    <3>2. nextId["r"] \in Nat
      BY DEF TypeOK, Stores
    <3>3. QED
      BY <2>1, <2>3, <3>1, <3>2 DEF OutcomeRecorded, SavedId
  <2>7. \A i \in DOMAIN Rows' : i = id => IsOwnCommand(Rows'[i])
    <3> SUFFICES ASSUME NEW i \in DOMAIN Rows', i = id PROVE IsOwnCommand(Rows'[i])
      OBVIOUS
    <3>1. CASE i \in new
      <4>1. PICK row \in HistoryRow, st \in {"null", "ok", "failed"} :
              /\ Fresh(row, "code", "user", "no", broken) /\ prompt = "command"
              /\ Rows'[i] = [row EXCEPT !.status = st]
        BY <2>1, <3>1 DEF OutcomeRecorded
      <4>2. QED
        BY <4>1 DEF Fresh, IsOwnCommand, HistoryRow
    <3>2. CASE i \notin new
      <4>1. i \in DOMAIN Rows
        BY <2>1, <3>2 DEF OutcomeRecorded
      <4>2. PICK st \in {"null", "ok", "failed"} : Rows'[i] = [Rows[i] EXCEPT !.status = st]
        BY <2>1, <3>2 DEF OutcomeRecorded
      <4>3. id = context
        <5>1. nextId["r"] \in Nat
          BY DEF TypeOK, Stores
        <5>2. CASE context = NoContext /\ id = SavedId("r", broken)
          BY <2>3, <3>2, <4>1, <5>1, <5>2 DEF SavedId, NewIds
        <5>3. QED
          BY <2>1, <5>2 DEF OutcomeRecorded
      <4>4. IsOwnCommand(Rows[i])
        BY <4>1, <4>3 DEF SettledInv
      <4>5. QED
        BY <2>3, <4>1, <4>2, <4>4 DEF IsOwnCommand, HistoryRow
    <3>3. QED
      BY <3>1, <3>2
  <2>8. broken = "none" => \A i \in DOMAIN Rows' : i = id => Rows'[i].status # "null"
    BY <2>1 DEF OutcomeRecorded
  <2>9. \A i \in DOMAIN Rows' : i # id => i \in DOMAIN Rows /\ Rows'[i] = Rows[i]
    BY <2>1, <2>6 DEF OutcomeRecorded
  <2>10. \A i \in DOMAIN Rows' : i # id => i # context
    BY <2>4, <2>5
  <2>11. faults' = 0 => \A i \in DOMAIN Rows' :
            Rows'[i].status # "null" <=> IsOwnCommand(Rows'[i]) /\ i # context'
    BY <2>2, <2>4, <2>5, <2>7, <2>8, <2>9, <2>10 DEF SettledInv
  <2>12. QED
    BY <2>4, <2>5, <2>11 DEF SettledInv
<1>4. CASE Cleanup
  <2>1. PICK kept \in SUBSET Drained : CleanedUp(kept)
    BY <1>4, CleanupEffect
  <2>2. faults' = 0 => faults = 0
    BY <2>1 DEF CleanedUp, TypeOK
  <2>3. QED
    BY <2>1, <2>2 DEF CleanedUp, SettledInv
<1>5. CASE UNCHANGED lifecycleVars
  BY <1>5 DEF lifecycleVars, rowVars, outcomeVars, SettledInv, Rows
<1>6. QED
  BY <1>1, <1>2, <1>3, <1>4, <1>5, NextEffect

-----------------------------------------------------------------------------
(* Forgetting.                                                             *)

\* What the queue has become once the outcome of id was recorded.
LEMMA QueueStep ==
  ASSUME TypeOK, QueueInv, forget.enabled, NEW id \in Nat \cup {NoId}, NEW failed \in BOOLEAN,
         NEW inError \in BOOLEAN, NEW broken, OutcomeRecorded(id, failed, inError, broken)
  PROVE  LET n == Len(completed) + 1
             q == Pushed(sponge, id, failed)
         IN /\ \A j \in 1..(Len(sponge) + 1) : q[j] = Entry(completed'[n + 1 - j])
            /\ Outgrown(q) => /\ Len(sponge) = forget.delay /\ ~forget.on_exit_only
                              /\ forget.delay < n
            /\ ~Outgrown(q) => /\ Len(sponge) + 1 = n
                               /\ forget.on_exit_only \/ n <= forget.delay
<1> DEFINE n == Len(completed) + 1
           q == Pushed(sponge, id, failed)
           m == Len(sponge)
<1>1. /\ Len(completed) \in Nat
      /\ \A k \in 1..Len(completed) : completed'[k] = completed[k]
      /\ completed'[n].id = id /\ completed'[n].failed = failed
  BY CompletedGrows
<1>2. /\ Len(q) = m + 1 /\ m \in Nat
      /\ q[1] = Entry(completed'[n])
      /\ \A j \in 1..m : q[j + 1] = sponge[j]
  <2>1. sponge \in Seq(Nat \cup {NoId})
    BY DEF TypeOK
  <2>2. /\ Len(q) = m + 1
        /\ q[1] = IF failed THEN id ELSE NoId
        /\ \A j \in 1..m : q[j + 1] = sponge[j]
    BY <2>1, PushedShape
  <2>3. Entry(completed'[n]) = IF failed THEN id ELSE NoId
    BY <1>1 DEF Entry
  <2>4. m \in Nat
    BY <2>1
  <2> HIDE DEF q
  <2>5. QED
    BY <2>2, <2>3, <2>4
<1>3. /\ m <= Len(completed)
      /\ \A j \in 1..m : sponge[j] = Entry(completed[Len(completed) + 1 - j])
      /\ IF forget.on_exit_only THEN m = Len(completed)
         ELSE m <= forget.delay /\ (m < Len(completed) => m = forget.delay)
  BY DEF QueueInv, OutcomeRecorded
<1>4. forget.delay \in Nat
  BY DEF TypeOK
<1>5. Outgrown(q) <=> ~forget.on_exit_only /\ m + 1 > forget.delay
  BY <1>2 DEF Outgrown
<1> HIDE DEF q
<1>6. \A j \in 1..(m + 1) : q[j] = Entry(completed'[n + 1 - j])
  <2> SUFFICES ASSUME NEW j \in 1..(m + 1) PROVE q[j] = Entry(completed'[n + 1 - j])
    OBVIOUS
  <2>1. CASE j = 1
    BY <1>1, <1>2, <2>1
  <2>2. CASE j # 1
    <3>1. j - 1 \in 1..m /\ (j - 1) + 1 = j
      BY <1>2, <2>2
    <3>2. q[j] = sponge[j - 1] /\ sponge[j - 1] = Entry(completed[Len(completed) + 1 - (j - 1)])
      BY <1>2, <1>3, <3>1
    <3>3. Len(completed) + 1 - (j - 1) = n + 1 - j /\ n + 1 - j \in 1..Len(completed)
      BY <1>1, <1>2, <1>3, <3>1
    <3>4. QED
      BY <1>1, <3>2, <3>3
  <2>3. QED
    BY <2>1, <2>2
<1>7. QED
  BY <1>1, <1>2, <1>3, <1>4, <1>5, <1>6 DEF q

LEMMA QueueInvStep ==
  ASSUME TypeOK, FlowInv, QueueInv, LifecycleNext
  PROVE  QueueInv'
<1>1. CASE Still
  BY <1>1 DEF Still, QueueInv
<1>2. CASE SomeLine
  BY <1>2 DEF SomeLine, LineEntered, QueueInv
<1>3. CASE SomeOutcome
  <2>1. PICK id \in Nat \cup {NoId}, failed \in BOOLEAN, inError \in BOOLEAN,
             broken \in {"none", "save", "finalize", "status", "delete"} :
          OutcomeRecorded(id, failed, inError, broken) /\ Honest(failed, inError)
    BY <1>3 DEF SomeOutcome
  <2>2. CASE ~forget.enabled
    BY <2>1, <2>2 DEF OutcomeRecorded, QueueInv
  <2>3. CASE forget.enabled
    <3> DEFINE n == Len(completed) + 1
               q == Pushed(sponge, id, failed)
               m == Len(sponge)
    <3>1. /\ \A j \in 1..(m + 1) : q[j] = Entry(completed'[n + 1 - j])
          /\ Outgrown(q) => m = forget.delay /\ ~forget.on_exit_only /\ forget.delay < n
          /\ ~Outgrown(q) => m + 1 = n /\ (forget.on_exit_only \/ n <= forget.delay)
      BY <2>1, <2>3, QueueStep
    <3>2. /\ Len(completed') = n /\ Len(completed) \in Nat
      BY <2>1, CompletedGrows
    <3>3. sponge' = Sponged(sponge, id, failed) /\ UNCHANGED forget
      BY <2>1, <2>3 DEF OutcomeRecorded
    <3>4. sponge \in Seq(Nat \cup {NoId}) /\ m \in Nat /\ forget.delay \in Nat
          /\ forget \in ForgetConfigs
      BY DEF TypeOK
    <3>5. /\ Outgrown(q) => Len(sponge') = m
          /\ ~Outgrown(q) => Len(sponge') = m + 1
          /\ \A j \in 1..Len(sponge') : sponge'[j] = q[j]
      <4>1. Cut(sponge, id, failed, q)
        BY <3>4, SpongedShape
      <4>2. QED
        BY <3>3, <4>1 DEF Cut
    <3> HIDE DEF q
    <3>6. /\ Len(sponge') <= n
          /\ IF forget.on_exit_only THEN Len(sponge') = n
             ELSE Len(sponge') <= forget.delay /\ (Len(sponge') < n => Len(sponge') = forget.delay)
      BY <3>1, <3>2, <3>4, <3>5
    <3>7. \A j \in 1..Len(sponge') : sponge'[j] = Entry(completed'[n + 1 - j])
      <4>1. \A j \in 1..Len(sponge') : j \in 1..(m + 1)
        BY <3>4, <3>5
      <4>2. QED
        BY <3>1, <3>5, <4>1
    <3>8. QED
      BY <2>3, <3>2, <3>3, <3>6, <3>7 DEF QueueInv
  <2>4. QED
    BY <2>2, <2>3
<1>4. CASE Cleanup
  BY <1>4 DEF Cleanup, QueueInv
<1>5. CASE UNCHANGED lifecycleVars
  BY <1>5 DEF lifecycleVars, consoleVars, outcomeVars, QueueInv
<1>6. QED
  BY <1>1, <1>2, <1>3, <1>4, <1>5, NextEffect

\* The row that record_command returns is that of a command whose delay is over, and no
\* other command's is over by this one.
LEMMA GoneIsDue ==
  ASSUME TypeOK, QueueInv, NEW id \in Nat \cup {NoId}, NEW failed \in BOOLEAN,
         NEW inError \in BOOLEAN, NEW broken, OutcomeRecorded(id, failed, inError, broken)
  PROVE  /\ \A i \in Gone(id, failed) :
              \E k \in DOMAIN completed' : completed'[k].id = i /\ Due(k)'
         /\ \A k \in DOMAIN completed' : Due(k)' =>
              \/ k \in DOMAIN completed /\ completed'[k] = completed[k] /\ Due(k)
              \/ completed'[k].id \in Gone(id, failed) \cup {NoId}
         /\ \A k \in DOMAIN completed : k \in DOMAIN completed' /\ completed'[k] = completed[k]
              /\ (Due(k) => Due(k)')
<1> DEFINE n == Len(completed) + 1
           q == Pushed(sponge, id, failed)
           m == Len(sponge)
<1>1. /\ Len(completed) \in Nat /\ DOMAIN completed = 1..Len(completed)
      /\ Len(completed') = n /\ DOMAIN completed' = 1..n
      /\ \A k \in 1..Len(completed) : completed'[k] = completed[k]
  BY CompletedGrows
<1>2. forget.delay \in Nat /\ forget' = forget /\ m \in Nat /\ sponge \in Seq(Nat \cup {NoId})
      /\ forget \in ForgetConfigs
  BY DEF TypeOK, OutcomeRecorded
<1>3. CASE ~forget.enabled
  BY <1>1, <1>2, <1>3 DEF Gone, Due
<1>4. CASE forget.enabled
  <2>1. /\ \A j \in 1..(m + 1) : q[j] = Entry(completed'[n + 1 - j])
        /\ Outgrown(q) => m = forget.delay /\ ~forget.on_exit_only /\ forget.delay < n
        /\ ~Outgrown(q) => m + 1 = n /\ (forget.on_exit_only \/ n <= forget.delay)
    BY <1>4, QueueStep
  <2>2. /\ Outgrown(q) => Gone(id, failed) = {q[m + 1]} \ {NoId}
        /\ ~Outgrown(q) => Gone(id, failed) = {}
    <3>1. Cut(sponge, id, failed, q)
      BY <1>2, SpongedShape
    <3>2. QED
      BY <1>4, <3>1 DEF Gone, Cut
  <2> HIDE DEF q
  <2>3. \A k \in DOMAIN completed : k \in DOMAIN completed' /\ completed'[k] = completed[k]
              /\ (Due(k) => Due(k)')
    BY <1>1, <1>2 DEF Due
  <2>4. CASE Outgrown(q)
    <3>1. PICK d \in 1..n : d = n - forget.delay /\ n - d = forget.delay
      BY <1>1, <1>2, <2>1, <2>4
    <3>2. q[m + 1] = Entry(completed'[d])
      BY <1>1, <1>2, <2>1, <2>4, <3>1
    <3>3. completed'[d].failed => Due(d)'
      <4>1. forget'.enabled /\ ~forget'.on_exit_only /\ forget'.delay = forget.delay
        BY <1>2, <1>4, <2>1, <2>4
      <4>2. Len(completed') - d >= forget'.delay
        BY <1>1, <1>2, <3>1, <4>1
      <4>3. QED
        BY <4>1, <4>2 DEF Due
    <3>4. \A i \in Gone(id, failed) :
            \E k \in DOMAIN completed' : completed'[k].id = i /\ Due(k)'
      BY <1>1, <2>2, <2>4, <3>1, <3>2, <3>3 DEF Entry
    <3>5. \A k \in DOMAIN completed' : Due(k)' =>
              \/ k \in DOMAIN completed /\ completed'[k] = completed[k] /\ Due(k)
              \/ completed'[k].id \in Gone(id, failed) \cup {NoId}
      <4> SUFFICES ASSUME NEW k \in 1..n, Due(k)'
          PROVE \/ k \in DOMAIN completed /\ completed'[k] = completed[k] /\ Due(k)
                \/ completed'[k].id \in Gone(id, failed) \cup {NoId}
        BY <1>1
      <4>1. completed'[k].failed /\ n - k >= forget.delay
        BY <1>1, <1>2 DEF Due
      <4>2. CASE k = d
        BY <2>2, <2>4, <3>2, <4>1, <4>2 DEF Entry
      <4>3. CASE k # d
        <5>1. k <= Len(completed) /\ Len(completed) - k >= forget.delay
          BY <1>1, <1>2, <3>1, <4>1, <4>3
        <5>2. k \in DOMAIN completed /\ completed'[k] = completed[k]
          BY <1>1, <5>1
        <5>3. QED
          BY <1>2, <1>4, <2>1, <2>4, <4>1, <5>1, <5>2 DEF Due
      <4>4. QED
        BY <4>2, <4>3
    <3>6. QED
      BY <2>3, <3>4, <3>5
  <2>5. CASE ~Outgrown(q)
    <3>1. \A k \in DOMAIN completed' : ~Due(k)'
      BY <1>1, <1>2, <2>1, <2>5 DEF Due
    <3>2. QED
      BY <2>2, <2>3, <2>5, <3>1
  <2>6. QED
    BY <2>4, <2>5
<1>5. QED
  BY <1>3, <1>4

LEMMA NothingElseStep ==
  ASSUME TypeOK, FlowInv, IdsInv, QueueInv, NothingElseForgotten, LifecycleNext
  PROVE  NothingElseForgotten'
<1>1. CASE Still
  BY <1>1 DEF Still, NothingElseForgotten, rowVars, Rows, OutcomesOf, Due
<1>2. CASE SomeLine
  <2>1. PICK s \in Stores, line \in Lines, author \in Authors, mark \in {"yes", "no"},
             broken \in {"none", "save", "finalize", "status", "delete"} :
          LineEntered(s, line, author, mark, broken)
    BY <1>2 DEF SomeLine
  <2>2. \A i \in Given' : i \in Given \/ i \in NewIds("r", s, broken)
    BY <2>1 DEF LineEntered, Given, NewIds, TypeOK, Stores
  <2>3. pc # "over"
    BY <2>1 DEF LineEntered
  <2>4. \A i \in Given : i \in DOMAIN Rows \cup erased \/ \E k \in OutcomesOf(i) : Due(k)
    BY <2>3 DEF NothingElseForgotten, Given
  <2>5. \A i : OutcomesOf(i)' = OutcomesOf(i) /\ \A k : Due(k)' <=> Due(k)
    BY <2>1 DEF LineEntered, OutcomesOf, Due
  <2>6. DOMAIN Rows \cup NewIds("r", s, broken) \cup erased \subseteq DOMAIN Rows' \cup erased'
    BY <2>1 DEF LineEntered
  <2>7. QED
    BY <2>2, <2>4, <2>5, <2>6 DEF NothingElseForgotten, Given
<1>3. CASE SomeOutcome
  <2>1. PICK id \in Nat \cup {NoId}, failed \in BOOLEAN, inError \in BOOLEAN,
             broken \in {"none", "save", "finalize", "status", "delete"} :
          OutcomeRecorded(id, failed, inError, broken) /\ Honest(failed, inError)
    BY <1>3 DEF SomeOutcome
  <2> DEFINE new == IF context = NoContext THEN NewIds("r", "r", broken) ELSE {}
  <2>2. \A i \in Given' : i \in Given \/ i \in new
    <3>1. CASE nextId' = nextId
      BY <3>1 DEF Given
    <3>2. CASE /\ context = NoContext
               /\ nextId' = [nextId EXCEPT !["r"] = IF broken = "save" THEN @ ELSE @ + 1]
      BY <3>2 DEF Given, NewIds, TypeOK, Stores
    <3>3. QED
      BY <2>1, <3>1, <3>2 DEF OutcomeRecorded
  <2>3. pc # "over" /\ erased' = erased
    BY <2>1 DEF OutcomeRecorded
  <2>4. \A i \in Given : i \in DOMAIN Rows \cup erased \/ \E k \in OutcomesOf(i) : Due(k)
    BY <2>3 DEF NothingElseForgotten, Given
  <2>5. /\ \A i \in Gone(id, failed) : \E k \in OutcomesOf(i)' : Due(k)'
        /\ \A i : \A k \in OutcomesOf(i) : Due(k) => k \in OutcomesOf(i)' /\ Due(k)'
    BY <2>1, GoneIsDue DEF OutcomesOf
  <2>6. DOMAIN Rows \cup new \subseteq DOMAIN Rows' \cup Gone(id, failed)
    BY <2>1 DEF OutcomeRecorded
  <2>7. \A i \in Given' : i \in DOMAIN Rows' \cup erased' \/ \E k \in OutcomesOf(i)' : Due(k)'
    BY <2>2, <2>3, <2>4, <2>5, <2>6
  <2>8. QED
    BY <2>7 DEF NothingElseForgotten, Given
<1>4. CASE Cleanup
  BY <1>4 DEF Cleanup, NothingElseForgotten
<1>5. CASE UNCHANGED lifecycleVars
  BY <1>5 DEF lifecycleVars, rowVars, outcomeVars, consoleVars, NothingElseForgotten, Rows, OutcomesOf, Due
<1>6. QED
  BY <1>1, <1>2, <1>3, <1>4, <1>5, NextEffect

\* What was forgotten stays forgotten: an id in completed is one of those given before,
\* and no row takes it again.
LEMMA ForgottenStep ==
  ASSUME TypeOK, FlowInv, IdsInv, QueueInv, ForgottenInTime, NothingElseForgotten, LifecycleNext
  PROVE  ForgottenInTime'
<1>1. CASE Still
  BY <1>1 DEF Still, ForgottenInTime, rowVars, Rows, Due
<1>2. CASE SomeLine
  <2>1. PICK s \in Stores, line \in Lines, author \in Authors, mark \in {"yes", "no"},
             broken \in {"none", "save", "finalize", "status", "delete"} :
          LineEntered(s, line, author, mark, broken)
    BY <1>2 DEF SomeLine
  <2>2. faults' = 0 => faults = 0
    BY <2>1 DEF LineEntered, Counted, TypeOK
  <2>3. DOMAIN Rows' \subseteq DOMAIN Rows \cup {nextId["r"]}
    BY <2>1 DEF LineEntered, Rows, Stores, NewIds
  <2>4. \A k \in DOMAIN completed : completed[k].id # nextId["r"]
    BY DEF IdsInv, Given, TypeOK, Stores
  <2>5. UNCHANGED <<forget, completed>> /\ pc' # "over"
    BY <2>1 DEF LineEntered
  <2>6. QED
    BY <2>2, <2>3, <2>4, <2>5 DEF ForgottenInTime, Due
<1>3. CASE SomeOutcome
  <2>1. PICK id \in Nat \cup {NoId}, failed \in BOOLEAN, inError \in BOOLEAN,
             broken \in {"none", "save", "finalize", "status", "delete"} :
          OutcomeRecorded(id, failed, inError, broken) /\ Honest(failed, inError)
    BY <1>3 DEF SomeOutcome
  <2>2. faults' = 0 => faults = 0 /\ broken = "none"
    BY <2>1 DEF OutcomeRecorded, Counted, TypeOK
  <2>3. DOMAIN Rows' \subseteq DOMAIN Rows \cup {nextId["r"]}
    BY <2>1 DEF OutcomeRecorded, NewIds
  <2>4. \A k \in DOMAIN completed : completed[k].id # nextId["r"]
    BY DEF IdsInv, Given, TypeOK, Stores
  <2>5. NoId \notin DOMAIN Rows'
    BY <2>3 DEF TypeOK, Rows, Stores
  <2>6. broken = "none" => Gone(id, failed) \cap DOMAIN Rows' = {}
    BY <2>1 DEF OutcomeRecorded
  <2>7. \A k \in DOMAIN completed' : Due(k)' =>
          \/ k \in DOMAIN completed /\ completed'[k] = completed[k] /\ Due(k)
          \/ completed'[k].id \in Gone(id, failed) \cup {NoId}
    BY <2>1, GoneIsDue
  <2>8. faults' = 0 => \A k \in DOMAIN completed' : Due(k)' => completed'[k].id \notin DOMAIN Rows'
    BY <2>2, <2>3, <2>4, <2>5, <2>6, <2>7 DEF ForgottenInTime
  <2>9. pc' # "over"
    BY <2>1 DEF OutcomeRecorded
  <2>10. QED
    BY <2>8, <2>9 DEF ForgottenInTime
<1>4. CASE Cleanup
  <2>1. PICK kept \in SUBSET Drained : CleanedUp(kept)
    BY <1>4, CleanupEffect
  <2> SUFFICES ASSUME faults' = 0
               PROVE  /\ \A k \in DOMAIN completed : Due(k)' => completed[k].id \notin DOMAIN Rows'
                      /\ forget.enabled =>
                           \A k \in DOMAIN completed :
                             LET id == completed[k].id
                             IN id \in DOMAIN Rows' <=> ~completed[k].failed /\ id \notin erased
    BY <2>1 DEF ForgottenInTime, CleanedUp
  <2>2. faults = 0 /\ kept = {} /\ DOMAIN Rows' = DOMAIN Rows \ Drained
    BY <2>1 DEF CleanedUp, TypeOK
  <2>3. \A k \in DOMAIN completed : Due(k) => completed[k].id \notin DOMAIN Rows
    BY <2>2 DEF ForgottenInTime
  <2>4. \A k : Due(k)' <=> Due(k)
    BY <2>1 DEF CleanedUp, Due
  <2>5. ASSUME forget.enabled, NEW k \in DOMAIN completed
        PROVE  LET id == completed[k].id
               IN id \in DOMAIN Rows' <=> ~completed[k].failed /\ id \notin erased
    <3> DEFINE id == completed[k].id
               n  == Len(completed)
               m  == Len(sponge)
    <3>1. /\ m <= n
          /\ \A j \in 1..m : sponge[j] = Entry(completed[n + 1 - j])
          /\ IF forget.on_exit_only THEN m = n
             ELSE m <= forget.delay /\ (m < n => m = forget.delay)
      BY <2>1, <2>5 DEF QueueInv, CleanedUp
    <3>2. /\ n \in Nat /\ DOMAIN completed = 1..n /\ m \in Nat /\ DOMAIN sponge = 1..m
          /\ forget.delay \in Nat
      BY DEF TypeOK
    <3>3. id \in Given /\ id # NoId
      BY <2>2, <2>5 DEF IdsInv
    <3>4. CASE completed[k].failed
      <4>1. Due(k) \/ id \in Drained
        <5>1. CASE n + 1 - k <= m
          <6>1. n + 1 - k \in 1..m /\ n + 1 - (n + 1 - k) = k
            BY <2>5, <3>2, <5>1
          <6>2. sponge[n + 1 - k] = id
            BY <3>1, <3>4, <6>1 DEF Entry
          <6>3. QED
            BY <3>2, <3>3, <6>1, <6>2 DEF Drained
        <5>2. CASE ~(n + 1 - k <= m)
          <6>. HIDE DEF n, m
          <6>a. k \in 1..n
            BY <2>5, <3>2
          <6>b. m < n /\ n - k >= m
            BY <3>2, <5>2, <6>a
          <6>1. m < n /\ n - k >= m /\ ~forget.on_exit_only /\ m = forget.delay
            BY <3>1, <3>2, <6>b
          <6>2. QED
            BY <2>5, <3>4, <6>1 DEF Due, n
        <5>3. QED
          BY <5>1, <5>2
      <4>2. QED
        BY <2>2, <2>3, <3>4, <4>1
    <3>5. CASE ~completed[k].failed
      <4>1. \A l \in DOMAIN completed : completed[l].id = id => l = k
        BY <2>5, <3>3 DEF IdsInv
      <4>2. id \in DOMAIN Rows \cup erased
        <5>1. id \in DOMAIN Rows \cup erased \/ \E l \in OutcomesOf(id) : Due(l)
          BY <2>1, <3>3 DEF NothingElseForgotten, Given, CleanedUp
        <5>2. \A l \in OutcomesOf(id) : ~Due(l)
          BY <3>5, <4>1 DEF OutcomesOf, Due
        <5>3. QED
          BY <5>1, <5>2
      <4>3. id \notin Drained
        <5> SUFFICES ASSUME NEW j \in 1..m, sponge[j] = id PROVE FALSE
          BY <3>2 DEF Drained
        <5>0. n + 1 - j \in 1..n
          <6> HIDE DEF n, m
          <6> QED
            BY <3>1, <3>2
        <5>1. n + 1 - j \in DOMAIN completed /\ sponge[j] = Entry(completed[n + 1 - j])
          BY <3>1, <3>2, <5>0
        <5>2. completed[n + 1 - j].failed /\ completed[n + 1 - j].id = id
          BY <3>3, <5>1 DEF Entry
        <5>3. QED
          BY <3>5, <4>1, <5>1, <5>2
      <4>4. erased \cap DOMAIN Rows = {}
        BY DEF IdsInv
      <4>5. QED
        BY <2>2, <3>5, <4>2, <4>3, <4>4
    <3>6. QED
      BY <3>4, <3>5
  <2>6. QED
    BY <2>2, <2>3, <2>4, <2>5
<1>5. CASE UNCHANGED lifecycleVars
  BY <1>5 DEF lifecycleVars, rowVars, outcomeVars, consoleVars, ForgottenInTime, Rows, Due
<1>6. QED
  BY <1>1, <1>2, <1>3, <1>4, <1>5, NextEffect

-----------------------------------------------------------------------------
(* The theorems.                                                           *)

LifecycleInv ==
  TypeOK /\ FlowInv /\ IdsInv /\ MetaFlagOnOwnRow /\ OwnOutcome /\ SettledInv /\ QueueInv
  /\ NothingElseForgotten /\ ForgottenInTime

LEMMA InvHolds == LifecycleSpec => []LifecycleInv
<1>1. LifecycleInit => LifecycleInv
  <2> SUFFICES ASSUME LifecycleInit PROVE LifecycleInv
    OBVIOUS
  <2> USE DEF LifecycleInit, Stores, Rows
  <2>1. TypeOK
    <3>1. /\ DOMAIN history = Stores /\ \A s \in Stores : DOMAIN history[s] = {}
          /\ nextId \in [Stores -> Nat]
      OBVIOUS
    <3>2. sponge \in Seq(Nat \cup {NoId}) /\ completed \in Seq(Completed)
      OBVIOUS
    <3>3. /\ pc \in Locations /\ prompt \in PromptKinds /\ context \in Nat \cup {NoId, NoContext}
          /\ forget \in ForgetConfigs /\ erased \subseteq Nat
      BY DEF Locations, PromptKinds
    <3>4. /\ shell \in BOOLEAN /\ evaluating \in BOOLEAN /\ hadError \in BOOLEAN
          /\ lastFailed \in BOOLEAN /\ erred \in BOOLEAN
          /\ pendingInput \in Nat /\ faults \in Nat /\ stray \in Nat
      OBVIOUS
    <3>5. QED
      BY ONLY <3>1, <3>2, <3>3, <3>4 DEF TypeOK
  <2>2. FlowInv /\ IdsInv /\ SettledInv
    BY DEF FlowInv, IdsInv, SettledInv, Given, OutcomesOf
  <2>3. QueueInv
    BY <2>1 DEF QueueInv, TypeOK
  <2>4. MetaFlagOnOwnRow /\ OwnOutcome /\ NothingElseForgotten /\ ForgottenInTime
    BY DEF MetaFlagOnOwnRow, OwnOutcome, NothingElseForgotten, ForgottenInTime
  <2>5. QED
    BY <2>1, <2>2, <2>3, <2>4 DEF LifecycleInv
<1>2. LifecycleInv /\ [LifecycleNext]_lifecycleVars => LifecycleInv'
  <2> SUFFICES ASSUME LifecycleInv, LifecycleNext \/ UNCHANGED lifecycleVars PROVE LifecycleInv'
    OBVIOUS
  <2>1. CASE LifecycleNext
    <3>1. TypeOK'
      BY <2>1, HistoryType, ConsoleType DEF LifecycleInv, TypeOK, HistoryTypeOK, ConsoleTypeOK
    <3>2. FlowInv' /\ IdsInv' /\ SettledInv' /\ QueueInv'
      BY <2>1, FlowStep, IdsStep, SettledStep, QueueInvStep DEF LifecycleInv
    <3>3. MetaFlagOnOwnRow' /\ OwnOutcome' /\ NothingElseForgotten' /\ ForgottenInTime'
      BY <2>1, MetaFlagStep, OwnOutcomeStep, NothingElseStep, ForgottenStep DEF LifecycleInv
    <3>4. QED
      BY <3>1, <3>2, <3>3 DEF LifecycleInv
  <2>2. CASE UNCHANGED lifecycleVars
    <3> USE <2>2 DEF lifecycleVars, consoleVars, rVars, rowVars, outcomeVars, LifecycleInv
    <3>1. TypeOK'
      BY DEF TypeOK
    <3>2. FlowInv' /\ QueueInv'
      BY DEF FlowInv, QueueInv
    <3>3. IdsInv' /\ SettledInv'
      BY DEF IdsInv, SettledInv, Given, OutcomesOf, Rows
    <3>4. MetaFlagOnOwnRow' /\ OwnOutcome'
      BY DEF MetaFlagOnOwnRow, OwnOutcome, Rows, OutcomesOf
    <3>5. NothingElseForgotten' /\ ForgottenInTime'
      BY DEF NothingElseForgotten, ForgottenInTime, Rows, Due, OutcomesOf
    <3>6. QED
      BY <3>1, <3>2, <3>3, <3>4, <3>5
  <2>3. QED
    BY <2>1, <2>2
<1>3. QED
  BY <1>1, <1>2, PTL DEF LifecycleSpec

\* Types: also, what a save reports is an id that the store has given.
THEOREM LifecycleTypeCorrect == LifecycleSpec => []TypeOK
<1>1. LifecycleInv => TypeOK
  BY DEF LifecycleInv
<1>2. QED
  BY <1>1, InvHolds, PTL

\* Whatever is entered in whichever editor, whichever calls of the stores fail and
\* however R splits a long line: a recorded status is that of the command on its row,
\* and at a command prompt every command has one and no other line has.
THEOREM OutcomesAreRight == LifecycleSpec => []OutcomesRight
<1>1. LifecycleInv => OutcomesRight
  <2> SUFFICES ASSUME LifecycleInv PROVE OutcomesRight
    OBVIOUS
  <2>1. AllSettled
    <3> SUFFICES ASSUME pc = "reading", prompt = "command", faults = 0,
                        NEW i \in DOMAIN Rows
                 PROVE  Rows[i].status # "null" <=> IsOwnCommand(Rows[i])
      BY DEF AllSettled
    <3>1. context = NoContext
      BY DEF LifecycleInv, FlowInv
    <3>2. i \in Nat
      BY DEF LifecycleInv, TypeOK, Rows, Stores
    <3>3. QED
      BY <3>1, <3>2 DEF LifecycleInv, SettledInv
  <2>2. QED
    BY <2>1 DEF LifecycleInv, OutcomesRight
<1>2. QED
  BY <1>1, InvHolds, PTL

\* For every configuration of history forget: what the sponge removes are failed
\* commands, each when its delay is over or with the session, and nothing else.
THEOREM ForgetsOnlyFailures == LifecycleSpec => []ForgetsFailuresOnly
<1>1. LifecycleInv => ForgetsFailuresOnly
  BY DEF LifecycleInv, ForgetsFailuresOnly
<1>2. QED
  BY <1>1, InvHolds, PTL

\* The meta-command flag is on the rows of meta commands, in both stores, and on no
\* other, whichever editor a meta command switches to.
THEOREM MetaFlagOwned == LifecycleSpec => []MetaFlagOnOwnRow
<1>1. LifecycleInv => MetaFlagOnOwnRow
  BY DEF LifecycleInv
<1>2. QED
  BY <1>1, InvHolds, PTL

-----------------------------------------------------------------------------
(* ConsoleIO.                                                              *)

HIDE LifecycleAssumption
USE ConsoleIOAssumption

-----------------------------------------------------------------------------
(* The inductive invariant.                                                *)

Frame ==
  [k : {"script", "end", "pass", "read", "eval", "silent", "complete", "expr"}]
  \cup [k : {"stop", "gate"}, ask : BOOLEAN]
  \cup [k : {"events"}, old : BOOLEAN]
  \cup [k : {"write"}, err : BOOLEAN, chunk : {"text", "newline", "return"}]

Flags == [cmd : Nat, atPrompt : BOOLEAN, late : BOOLEAN]

IOTypeOK ==
  /\ stack \in Seq(Frame)
  /\ awaiting \in Nat /\ cmd \in Nat /\ presses \in Nat /\ writes \in Nat
  /\ flag \in Flags \cup {NoFlag} /\ handler \in Flags \cup {NoFlag}
  /\ suspended \in BOOLEAN /\ pieces \in BOOLEAN
  /\ spinner \in [slot : BOOLEAN, stop : BOOLEAN, thread : {"off", "print", "loop"},
                  shown : BOOLEAN]
  /\ sink \in [suppressed : BOOLEAN, captured : BOOLEAN, reprex : BOOLEAN,
               line : SUBSET Nat, hadOutput : BOOLEAN]
  /\ echo \in [source : Nat, mixed : BOOLEAN]

\* Which call can be in progress inside which: R calls back from code that runs only, and
\* what the editor starts is right above the read it belongs to.
Legal(i) ==
  LET k == stack[i].k
  IN /\ k \in {"eval", "script", "end"} => i = 1
     /\ k = "end" => Len(stack) = 1
     /\ k \in {"events", "silent", "complete"} => i > 1 /\ stack[i - 1].k = "read"
     /\ k = "events" => ~stack[i].old
     /\ k = "expr" => i = 2 /\ stack[1].k = "script"
     /\ k \in {"pass", "write"} \/ (k \in {"stop", "gate"} /\ stack[i].ask) => i > 1
     /\ k \in {"stop", "gate", "read", "pass", "write"} /\ i > 1 => stack[i - 1].k \in RKinds

LegalInv == \A i \in 1..Len(stack) : Legal(i)

\* Interrupts are suspended exactly while the handlers of R's events run, once at a time.
SuspendInv ==
  /\ \A i, j \in 1..Len(stack) : stack[i].k = "events" /\ stack[j].k = "events" => i = j
  /\ suspended <=> \E i \in 1..Len(stack) : stack[i].k = "events"

\* The gate counts the reads in progress.
Reads == {i \in 1..Len(stack) : stack[i].k = "read"}
GateInv == awaiting = Cardinality(Reads)

\* The spinner runs between a line and the next call that needs the console.
Consoles == {"gate", "read", "pass"}
SpinnerInv ==
  /\ ~spinner.slot => spinner.thread = "off" /\ ~spinner.shown
  /\ \A i \in 1..Len(stack) : stack[i].k \in Consoles => ~spinner.slot

\* The line buffer of a script holds what its last expression wrote, and nothing between two.
InScript == stack # <<>> /\ stack[1].k \in {"script", "end"}
EchoInv ==
  /\ ~echo.mixed
  /\ echo.source > 0 => InScript
  /\ Script => /\ echo.source = cmd /\ sink.line \subseteq {cmd}
               /\ Len(stack) = 1 => sink.line = {}

\* A press that got through is of the command that runs, or it got through when the flag had
\* been cleared for the next line.
Own(f) ==
  f # NoFlag => /\ ~f.atPrompt
                /\ f.cmd = cmd \/ f.late
                /\ stack # <<>> /\ stack[1].k \in {"gate", "read"} => f.late
FlagInv == InScript \/ (Own(flag) /\ Own(handler))

IOInv ==
  /\ IOTypeOK /\ LegalInv /\ SuspendInv /\ GateInv
  /\ SpinnerInv /\ EchoInv /\ FlagInv /\ NoJumpThroughRust

-----------------------------------------------------------------------------
(* What a step does to the stack.                                          *)

CallBegun(f) ==
  /\ f \in Frame /\ stack' \in Seq(Frame)
  /\ Len(stack') = Len(stack) + 1 /\ stack'[Len(stack) + 1] = f
  /\ \A i \in 1..Len(stack) : stack'[i] = stack[i]

Popped ==
  /\ Len(stack) > 0 /\ stack' \in Seq(Frame)
  /\ Len(stack') = Len(stack) - 1
  /\ \A i \in 1..Len(stack) - 1 : stack'[i] = stack[i]

Swapped(f) ==
  /\ Len(stack) > 0 /\ f \in Frame /\ stack' \in Seq(Frame)
  /\ Len(stack') = Len(stack) /\ stack'[Len(stack)] = f
  /\ \A i \in 1..Len(stack) - 1 : stack'[i] = stack[i]

Restarted(f) ==
  /\ f \in Frame /\ stack' \in Seq(Frame)
  /\ Len(stack') = 1 /\ stack'[1] = f

Emptied == stack' \in Seq(Frame) /\ Len(stack') = 0

LEMMA PushMoves ==
  ASSUME stack \in Seq(Frame), NEW f \in Frame, stack' = Append(stack, f)
  PROVE  CallBegun(f)
BY DEF CallBegun

LEMMA PopFacts ==
  ASSUME stack \in Seq(Frame), stack # <<>>
  PROVE  /\ Len(stack) \in Nat /\ Len(stack) > 0
         /\ Pop \in Seq(Frame) /\ Len(Pop) = Len(stack) - 1
         /\ \A i \in 1..Len(stack) - 1 : Pop[i] = stack[i]
<1>1. Len(stack) \in Nat /\ Len(stack) > 0 OBVIOUS
<1>2. \A i \in 1..Len(stack) - 1 : stack[i] \in Frame BY <1>1
<1>3. /\ Pop \in Seq(Frame)
      /\ Len(Pop) = IF 1 <= Len(stack) - 1 THEN (Len(stack) - 1) - 1 + 1 ELSE 0
      /\ \A i \in 1..(Len(stack) - 1) - 1 + 1 : Pop[i] = stack[1 + i - 1]
  BY <1>1, <1>2, SubSeqProperties DEF Pop
<1>4. \A i \in 1..Len(stack) - 1 : Pop[i] = stack[i] BY <1>1, <1>3
<1>5. 1 <= Len(stack) - 1 => Len(Pop) = (Len(stack) - 1) - 1 + 1 BY <1>3
<1>6. ~(1 <= Len(stack) - 1) => Len(Pop) = 0 BY <1>3
<1>7. Len(Pop) = Len(stack) - 1 BY <1>1, <1>5, <1>6
<1> QED BY <1>1, <1>3, <1>4, <1>7

LEMMA PopMoves ==
  ASSUME stack \in Seq(Frame), stack # <<>>, stack' = Pop
  PROVE  Popped
BY PopFacts DEF Popped

LEMMA PutMoves ==
  ASSUME stack \in Seq(Frame), stack # <<>>, NEW f \in Frame, stack' = Put(f)
  PROVE  Swapped(f)
BY PopFacts DEF Swapped, Put

LEMMA RestartMoves ==
  ASSUME NEW f \in Frame, stack' = <<f>>
  PROVE  Restarted(f)
BY DEF Restarted

\* The call on top of the stack
LEMMA TopFacts ==
  ASSUME stack \in Seq(Frame), stack # <<>>, LegalInv
  PROVE  /\ Len(stack) \in Nat /\ Len(stack) > 0 /\ Len(stack) \in 1..Len(stack)
         /\ Top = stack[Len(stack)] /\ Top \in Frame /\ Legal(Len(stack)) /\ Legal(1)
BY DEF Top, LegalInv

\* What each action finds on the stack, and how it leaves it.
IOStill == HandlerChecks \/ HandlerSets \/ SpinnerPrints \/ SpinnerLooks
         \/ \E on \in BOOLEAN : SetReprex(on)

LEMMA FrameFacts ==
  /\ \A n \in {"script", "end", "pass", "read", "eval", "silent", "complete", "expr"} :
       [k |-> n] \in Frame
  /\ \A n \in {"stop", "gate"}, a \in BOOLEAN : [k |-> n, ask |-> a] \in Frame
  /\ \A o \in BOOLEAN : [k |-> "events", old |-> o] \in Frame
  /\ \A e \in BOOLEAN, c \in {"text", "newline", "return"} :
       [k |-> "write", err |-> e, chunk |-> c] \in Frame
  /\ \A f \in Frame : /\ f.k \in {"stop", "gate"} => f.ask \in BOOLEAN
                      /\ f.k = "events" => f.old \in BOOLEAN
                      /\ f.k = "write" => f.err \in BOOLEAN /\ f.chunk \in {"text", "newline", "return"}
BY DEF Frame

LEMMA Effects ==
  ASSUME IOTypeOK, LegalInv
  PROVE
    /\ IOStill => stack' = stack
    /\ \A ask \in BOOLEAN : ReadLine(ask) =>
         /\ CallBegun([k |-> "stop", ask |-> ask])
         /\ (stack = <<>> /\ ~ask) \/ Running
    /\ \A err \in BOOLEAN, chunk \in {"text", "newline", "return"} : Write(err, chunk) =>
         CallBegun([k |-> "write", err |-> err, chunk |-> chunk]) /\ Running
    /\ PollEvents => AtEditor /\ CallBegun([k |-> "events", old |-> suspended])
    /\ EvaluateSilently => AtEditor /\ CallBegun([k |-> "silent"])
    /\ Complete => AtEditor /\ CallBegun([k |-> "complete"])
    /\ ShowSource => In("script") /\ CallBegun([k |-> "expr"])
    /\ ClearInterrupt => In("stop") /\ Swapped([k |-> "gate", ask |-> Top.ask])
    /\ AskPassword => In("gate") /\ Top.ask /\ Swapped([k |-> "pass"])
    /\ AwaitInput => In("gate") /\ ~Top.ask /\ Swapped([k |-> "read"])
    /\ PasswordRead => In("pass") /\ Popped
    /\ ReturnNothing => In("read") /\ NoCallback /\ Popped
    /\ EventsDone => In("events") /\ Popped
    /\ ContainedDone => (In("silent") \/ In("complete")) /\ Popped
    /\ CommandDone => In("eval") /\ Popped
    /\ WriteOut => In("write") /\ Popped
    /\ ExpressionDone => In("expr") /\ Popped
    /\ ExpressionFails => In("expr") /\ Restarted([k |-> "end"])
    /\ ScriptDone => In("script") /\ Restarted([k |-> "end"])
    /\ \A long \in BOOLEAN, spin \in BOOLEAN : ReturnLine(long, spin) =>
         /\ In("read") /\ (spin => Len(stack) = 1)
         /\ \/ Len(stack) = 1 /\ (Restarted([k |-> "eval"]) \/ Emptied)
            \/ Len(stack) > 1 /\ Popped
<1> stack \in Seq(Frame) /\ suspended \in BOOLEAN BY DEF IOTypeOK
<1> HIDE DEF CallBegun, Popped, Swapped, Restarted, Emptied
<1>1. IOStill => stack' = stack
  BY DEF IOStill, HandlerChecks, HandlerSets, SpinnerPrints, SpinnerLooks, SetReprex
<1>2. ASSUME NEW ask \in BOOLEAN, ReadLine(ask)
      PROVE  CallBegun([k |-> "stop", ask |-> ask]) /\ ((stack = <<>> /\ ~ask) \/ Running)
  BY <1>2, PushMoves, FrameFacts DEF ReadLine
<1>3. ASSUME NEW err \in BOOLEAN, NEW chunk \in {"text", "newline", "return"}, Write(err, chunk)
      PROVE  CallBegun([k |-> "write", err |-> err, chunk |-> chunk]) /\ Running
  BY <1>3, PushMoves, FrameFacts DEF Write
<1>4. PollEvents => AtEditor /\ CallBegun([k |-> "events", old |-> suspended])
  BY PushMoves, FrameFacts DEF PollEvents
<1>5. /\ EvaluateSilently => AtEditor /\ CallBegun([k |-> "silent"])
      /\ Complete => AtEditor /\ CallBegun([k |-> "complete"])
      /\ ShowSource => In("script") /\ CallBegun([k |-> "expr"])
  BY PushMoves, FrameFacts DEF EvaluateSilently, Complete, ShowSource
<1>6. ASSUME ClearInterrupt
      PROVE  In("stop") /\ Swapped([k |-> "gate", ask |-> Top.ask])
  <2>1. In("stop") /\ stack # <<>> /\ stack' = Put([k |-> "gate", ask |-> Top.ask])
    BY <1>6 DEF ClearInterrupt, In
  <2>2. [k |-> "gate", ask |-> Top.ask] \in Frame BY <2>1, TopFacts, FrameFacts DEF In
  <2> QED BY <2>1, <2>2, PutMoves
<1>7. /\ AskPassword => In("gate") /\ Top.ask /\ Swapped([k |-> "pass"])
      /\ AwaitInput => In("gate") /\ ~Top.ask /\ Swapped([k |-> "read"])
  BY PutMoves, FrameFacts DEF AskPassword, AwaitInput, In
<1>8. /\ PasswordRead => In("pass") /\ Popped
      /\ ReturnNothing => In("read") /\ NoCallback /\ Popped
      /\ EventsDone => In("events") /\ Popped
      /\ ContainedDone => (In("silent") \/ In("complete")) /\ Popped
      /\ CommandDone => In("eval") /\ Popped
      /\ WriteOut => In("write") /\ Popped
      /\ ExpressionDone => In("expr") /\ Popped
  BY PopMoves DEF PasswordRead, ReturnNothing, EventsDone, ContainedDone, CommandDone,
                  WriteOut, ExpressionDone, In
<1>9. /\ ExpressionFails => In("expr") /\ Restarted([k |-> "end"])
      /\ ScriptDone => In("script") /\ Restarted([k |-> "end"])
  BY RestartMoves, FrameFacts DEF ExpressionFails, ScriptDone
<1>10. ASSUME NEW long \in BOOLEAN, NEW spin \in BOOLEAN, ReturnLine(long, spin)
       PROVE  /\ In("read") /\ (spin => Len(stack) = 1)
              /\ \/ Len(stack) = 1 /\ (Restarted([k |-> "eval"]) \/ Emptied)
                 \/ Len(stack) > 1 /\ Popped
  <2>1. /\ In("read") /\ stack # <<>> /\ (spin => Len(stack) = 1)
        /\ stack' = Resumed \/ (Len(stack) = 1 /\ stack' = <<>>)
    BY <1>10 DEF ReturnLine, In
  <2>2. Len(stack) \in Nat /\ Len(stack) > 0 BY <2>1
  <2>3. CASE stack' = <<>> /\ Len(stack) = 1
    BY <2>1, <2>3 DEF Emptied
  <2>4. CASE stack' = Resumed /\ Len(stack) = 1
    BY <2>1, <2>4, RestartMoves, FrameFacts DEF Resumed
  <2>5. CASE stack' = Resumed /\ Len(stack) # 1
    <3>1. Len(stack) > 1
      <4>1. \A n \in Nat : n > 0 /\ n # 1 => n > 1 OBVIOUS
      <4> QED BY <2>2, <2>5, <4>1
    <3>2. stack' = Pop BY <2>5 DEF Resumed
    <3>3. Popped BY <2>1, <3>2, PopMoves
    <3> QED BY <2>1, <3>1, <3>3, Zenon
  <2>6. \/ stack' = <<>> /\ Len(stack) = 1
        \/ stack' = Resumed /\ Len(stack) = 1
        \/ stack' = Resumed /\ Len(stack) # 1
    BY <2>1, Zenon
  <2> QED BY <2>3, <2>4, <2>5, <2>6, Zenon
<1> QED BY <1>1, <1>2, <1>3, <1>4, <1>5, <1>6, <1>7, <1>8, <1>9, <1>10

(* Interrupts are taken in R code only, and the innermost evaluation ends with them.     *)
LEMMA InterruptEffects ==
  ASSUME IOTypeOK, LegalInv, SuspendInv, Interrupt
  PROVE  \/ /\ In("eval") /\ Len(stack) = 1 /\ Emptied
            /\ unwound' = unwound \cup {"eval"} /\ sink' = sink
         \/ /\ In("silent") \/ In("complete")
            /\ Popped /\ unwound' = unwound /\ sink' = Restored(Top.k)
         \/ /\ In("expr") /\ Restarted([k |-> "end"])
            /\ unwound' = unwound /\ sink' = Restored(Top.k)
<1> stack \in Seq(Frame) /\ stack # <<>> BY DEF IOTypeOK, Interrupt, Running
<1>1. /\ Len(stack) \in Nat /\ Len(stack) > 0 /\ Len(stack) \in 1..Len(stack)
      /\ Top = stack[Len(stack)] /\ Legal(Len(stack))
  BY TopFacts
<1>2. Top.k \in RKinds /\ Top.k # "events"
  BY <1>1 DEF Interrupt, Running, SuspendInv
<1>3. CASE Top.k = "eval"
  <2>1. Len(stack) = 1 BY <1>1, <1>3 DEF Legal
  <2>2. ~OnStack(Contained) BY <1>1, <1>3, <2>1 DEF OnStack, Contained
  <2>3. Target = 0 BY <2>2 DEF Target
  <2>4. {stack[i].k : i \in Target + 1..Len(stack)} = {"eval"}
    BY <1>1, <1>3, <2>1, <2>3
  <2>5. stack' = <<>> /\ sink' = sink /\ unwound' = unwound \cup {"eval"}
    BY <2>3, <2>4 DEF Interrupt
  <2> QED BY <1>3, <2>1, <2>5 DEF Emptied, In
<1>4. CASE Top.k \in Contained
  <2>1. OnStack(Contained) BY <1>1, <1>4 DEF OnStack
  <2>2. Target = Len(stack)
    <3> DEFINE P(i) == /\ stack[i].k \in Contained
                       /\ \A j \in i + 1..Len(stack) : stack[j].k \notin Contained
    <3>1. Target = CHOOSE i \in 1..Len(stack) : P(i) BY <2>1 DEF Target
    <3>2. P(Len(stack)) BY <1>1, <1>4
    <3>3. Target \in 1..Len(stack) /\ P(Target)
      <4> HIDE DEF P
      <4> QED BY <1>1, <3>1, <3>2
    <3>4. ~(Target < Len(stack))
      <4>1. Target < Len(stack) => Len(stack) \in Target + 1..Len(stack) BY <1>1, <3>3
      <4> QED BY <1>1, <1>4, <3>3, <4>1
    <3> QED BY <1>1, <3>3, <3>4
  <2>3. {stack[i].k : i \in Target + 1..Len(stack)} = {} BY <1>1, <2>2
  <2>4. /\ stack' = IF Top.k = "expr" THEN <<[k |-> "end"]>> ELSE Pop
        /\ sink' = Restored(Top.k) /\ unwound' = unwound
    BY <1>1, <2>2, <2>3 DEF Interrupt, Pop
  <2>5. CASE Top.k = "expr" BY <2>4, <2>5, RestartMoves, FrameFacts DEF In
  <2>6. CASE Top.k # "expr"
    <3>1. Popped BY <2>4, <2>6, PopMoves
    <3> QED BY <1>4, <2>4, <2>6, <3>1 DEF In, Contained
  <2> QED BY <2>5, <2>6
<1> QED BY <1>2, <1>3, <1>4 DEF RKinds, Contained

-----------------------------------------------------------------------------
(* Calls nest as R nests them.                                             *)

Attaches(f) ==
  /\ f.k \notin {"eval", "script", "end"}
  /\ Len(stack) > 0 => stack[Len(stack)].k # "end"
  /\ f.k \in {"events", "silent", "complete"} => Len(stack) > 0 /\ stack[Len(stack)].k = "read"
  /\ f.k = "events" => ~f.old
  /\ f.k = "expr" => Len(stack) = 1 /\ stack[1].k = "script"
  /\ f.k \in {"pass", "write"} \/ (f.k \in {"stop", "gate"} /\ f.ask) => Len(stack) > 0
  /\ f.k \in {"stop", "gate", "read", "pass", "write"} /\ Len(stack) > 0 =>
       stack[Len(stack)].k \in RKinds

LEMMA LegalPush ==
  ASSUME stack \in Seq(Frame), LegalInv, NEW f, CallBegun(f), Attaches(f)
  PROVE  LegalInv'
<1> SUFFICES ASSUME NEW i \in 1..Len(stack) + 1 PROVE Legal(i)' BY DEF LegalInv, CallBegun
<1> Len(stack) \in Nat OBVIOUS
<1>1. CASE i \in 1..Len(stack)
  <2>1. Legal(i) BY <1>1 DEF LegalInv
  <2>2. stack'[i] = stack[i] /\ stack'[1] = stack[1] /\ (i > 1 => stack'[i - 1] = stack[i - 1])
    BY <1>1 DEF CallBegun
  <2>3. stack[i].k # "end"
    <3>1. stack[i].k = "end" => i = Len(stack) BY <1>1, <2>1 DEF Legal
    <3> QED BY <1>1, <3>1 DEF Attaches
  <2> QED BY <2>1, <2>2, <2>3 DEF Legal
<1>2. CASE i = Len(stack) + 1
  <2>1. stack'[i] = f BY <1>2 DEF CallBegun
  <2>2. i > 1 => Len(stack) > 0 /\ i - 1 = Len(stack) /\ stack'[i - 1] = stack[Len(stack)]
                 /\ stack'[1] = stack[1]
    BY <1>2 DEF CallBegun
  <2>3. Len(stack) > 0 => i > 1
    <3>1. \A n \in Nat : n > 0 => n + 1 > 1 OBVIOUS
    <3> QED BY <1>2, <3>1
  <2>4. f.k = "expr" => i = 2
    <3>1. f.k = "expr" => i = 1 + 1 BY <1>2 DEF Attaches
    <3> QED BY <3>1
  <2> QED BY <2>1, <2>2, <2>3, <2>4 DEF Legal, Attaches
<1> QED BY <1>1, <1>2

LEMMA LegalPop ==
  ASSUME stack \in Seq(Frame), LegalInv, Popped
  PROVE  LegalInv'
<1> SUFFICES ASSUME NEW i \in 1..Len(stack) - 1 PROVE Legal(i)' BY DEF LegalInv, Popped
<1> Len(stack) \in Nat OBVIOUS
<1>1. Legal(i) BY DEF LegalInv
<1>2. stack'[i] = stack[i] /\ stack'[1] = stack[1] /\ (i > 1 => stack'[i - 1] = stack[i - 1])
  BY DEF Popped
<1>3. Len(stack) # 1
  <2>1. \A n \in Nat : i \in 1..n - 1 => n # 1 OBVIOUS
  <2> QED BY <2>1
<1>4. stack[i].k # "end" BY <1>1, <1>3 DEF Legal
<1> QED BY <1>1, <1>2, <1>4 DEF Legal

LEMMA LegalSwap ==
  ASSUME stack \in Seq(Frame), LegalInv, NEW f, Swapped(f),
         stack[Len(stack)].k \in {"stop", "gate"}, f.k \in {"gate", "read", "pass"},
         f.k = "pass" \/ (f.k = "gate" /\ f.ask) => stack[Len(stack)].ask
  PROVE  LegalInv'
<1> SUFFICES ASSUME NEW i \in 1..Len(stack) PROVE Legal(i)' BY DEF LegalInv, Swapped
<1> Len(stack) \in Nat /\ Len(stack) > 0 BY DEF Swapped
<1>1. Legal(i) BY DEF LegalInv
<1>2. CASE i < Len(stack)
  <2>1. stack'[i] = stack[i] /\ stack'[1] = stack[1] /\ (i > 1 => stack'[i - 1] = stack[i - 1])
    BY <1>2 DEF Swapped
  <2> QED BY <1>1, <2>1 DEF Legal, Swapped
<1>3. CASE i = Len(stack)
  <2>1. stack'[i] = f /\ (i > 1 => stack'[i - 1] = stack[i - 1]) BY <1>3 DEF Swapped
  <2> QED BY <1>1, <1>3, <2>1 DEF Legal
<1> QED BY <1>2, <1>3

LEMMA LegalRestart ==
  ASSUME NEW f, Restarted(f), f.k \in {"eval", "end"}
  PROVE  LegalInv'
<1> SUFFICES ASSUME NEW i \in 1..1 PROVE Legal(i)' BY DEF LegalInv, Restarted
<1>1. i = 1 /\ stack'[1] = f /\ Len(stack') = 1 BY DEF Restarted
<1> QED BY <1>1 DEF Legal

LEMMA LegalEmptied == Emptied => LegalInv'
BY DEF Emptied, LegalInv

\* Two reads are in progress only when the editor is not at its prompt.
LEMMA AtEditorFacts ==
  ASSUME stack \in Seq(Frame), LegalInv, AtEditor
  PROVE  /\ Len(stack) \in Nat /\ Len(stack) > 0 /\ stack[Len(stack)].k = "read"
         /\ \A i \in 1..Len(stack) - 1 : stack[i].k # "read"
         /\ \A i \in 1..Len(stack) : stack[i].k # "events"
         /\ ~Script
<1>1. stack # <<>> /\ In("read") /\ ~NoCallback BY DEF AtEditor, In
<1>2. Len(stack) \in Nat /\ Len(stack) > 0 /\ stack[Len(stack)].k = "read"
  BY <1>1, TopFacts DEF In
<1>3. ~Script /\ \A i \in 1..Len(stack) - 1 : stack[i].k # "read" BY <1>1 DEF NoCallback
<1>4. ASSUME NEW i \in 1..Len(stack), stack[i].k = "events" PROVE FALSE
  <2>1. i > 1 /\ stack[i - 1].k = "read" BY <1>4 DEF LegalInv, Legal
  <2> QED BY <1>2, <1>3, <2>1
<1> QED BY <1>2, <1>3, <1>4

LEMMA InFacts ==
  ASSUME IOTypeOK, LegalInv, NEW k, In(k)
  PROVE  /\ Len(stack) \in Nat /\ Len(stack) > 0 /\ Len(stack) \in 1..Len(stack)
         /\ Top = stack[Len(stack)] /\ Top \in Frame /\ Top.k = k
         /\ Legal(Len(stack)) /\ Legal(1)
BY TopFacts DEF In, IOTypeOK

LEMMA RunningFacts ==
  ASSUME IOTypeOK, LegalInv, Running
  PROVE  /\ Len(stack) \in Nat /\ Len(stack) > 0 /\ Len(stack) \in 1..Len(stack)
         /\ Top = stack[Len(stack)] /\ Top.k \in RKinds
BY TopFacts DEF Running, IOTypeOK

LEMMA LegalStep ==
  ASSUME IOTypeOK, LegalInv, SuspendInv, IONext
  PROVE  LegalInv'
<1> stack \in Seq(Frame) /\ Len(stack) \in Nat BY DEF IOTypeOK
<1>1. CASE IOStill
  BY <1>1, Effects DEF LegalInv, Legal
<1>2. ASSUME NEW ask \in BOOLEAN, ReadLine(ask) PROVE LegalInv'
  <2>1. CallBegun([k |-> "stop", ask |-> ask]) /\ ((stack = <<>> /\ ~ask) \/ Running)
    BY <1>2, Effects
  <2>2. Attaches([k |-> "stop", ask |-> ask])
    <3>1. CASE stack = <<>> /\ ~ask BY <3>1 DEF Attaches
    <3>2. CASE Running BY <3>2, RunningFacts DEF Attaches, RKinds
    <3> QED BY <2>1, <3>1, <3>2
  <2> QED BY <2>1, <2>2, LegalPush
<1>3. ASSUME NEW err \in BOOLEAN, NEW chunk \in {"text", "newline", "return"}, Write(err, chunk)
      PROVE  LegalInv'
  <2>1. CallBegun([k |-> "write", err |-> err, chunk |-> chunk]) /\ Running
    BY <1>3, Effects
  <2>2. Attaches([k |-> "write", err |-> err, chunk |-> chunk])
    BY <2>1, RunningFacts DEF Attaches, RKinds
  <2> QED BY <2>1, <2>2, LegalPush
<1>4. CASE PollEvents
  <2>1. AtEditor /\ CallBegun([k |-> "events", old |-> suspended]) BY <1>4, Effects
  <2>2. ~suspended BY <2>1, AtEditorFacts DEF SuspendInv
  <2>3. Attaches([k |-> "events", old |-> suspended])
    BY <2>1, <2>2, AtEditorFacts DEF Attaches
  <2> QED BY <2>1, <2>3, LegalPush
<1>5. CASE EvaluateSilently
  <2>1. AtEditor /\ CallBegun([k |-> "silent"]) BY <1>5, Effects
  <2>2. Attaches([k |-> "silent"]) BY <2>1, AtEditorFacts DEF Attaches
  <2> QED BY <2>1, <2>2, LegalPush
<1>6. CASE Complete
  <2>1. AtEditor /\ CallBegun([k |-> "complete"]) BY <1>6, Effects
  <2>2. Attaches([k |-> "complete"]) BY <2>1, AtEditorFacts DEF Attaches
  <2> QED BY <2>1, <2>2, LegalPush
<1>7. CASE ShowSource
  <2>1. In("script") /\ CallBegun([k |-> "expr"]) BY <1>7, Effects
  <2>2. Len(stack) = 1 /\ stack[1].k = "script" BY <2>1, InFacts DEF Legal
  <2>3. Attaches([k |-> "expr"]) BY <2>2 DEF Attaches
  <2> QED BY <2>1, <2>3, LegalPush
<1>8. CASE ClearInterrupt
  <2>1. In("stop") /\ Swapped([k |-> "gate", ask |-> Top.ask]) BY <1>8, Effects
  <2> QED BY <2>1, InFacts, LegalSwap
<1>9. CASE AskPassword
  <2>1. In("gate") /\ Top.ask /\ Swapped([k |-> "pass"]) BY <1>9, Effects
  <2> QED BY <2>1, InFacts, LegalSwap
<1>10. CASE AwaitInput
  <2>1. In("gate") /\ Swapped([k |-> "read"]) BY <1>10, Effects
  <2> QED BY <2>1, InFacts, LegalSwap
<1>11. CASE \/ PasswordRead \/ ReturnNothing \/ EventsDone \/ ContainedDone \/ CommandDone
            \/ WriteOut \/ ExpressionDone
  BY <1>11, Effects, LegalPop
<1>12. CASE ExpressionFails \/ ScriptDone
  BY <1>12, Effects, LegalRestart
<1>13. ASSUME NEW long \in BOOLEAN, NEW spin \in BOOLEAN, ReturnLine(long, spin)
       PROVE  LegalInv'
  <2>1. Restarted([k |-> "eval"]) \/ Emptied \/ Popped BY <1>13, Effects
  <2> QED BY <2>1, LegalRestart, LegalEmptied, LegalPop
<1>14. CASE Interrupt
  <2>1. Emptied \/ Popped \/ Restarted([k |-> "end"]) BY <1>14, InterruptEffects
  <2> QED BY <2>1, LegalRestart, LegalEmptied, LegalPop
<1> QED
  BY <1>1, <1>2, <1>3, <1>4, <1>5, <1>6, <1>7, <1>8, <1>9, <1>10, <1>11, <1>12, <1>13, <1>14
     DEF IONext, IOStill

(* R's interrupts are suspended as long as a handler of its events runs.   *)
LEMMA NoEventsAfter ==
  ASSUME NEW f, f.k # "events", Restarted(f) \/ Emptied
  PROVE  ~\E i \in 1..Len(stack)' : stack'[i].k = "events"
<1>1. ASSUME NEW i \in 1..Len(stack)', stack'[i].k = "events" PROVE FALSE
  <2>1. CASE Emptied BY <1>1, <2>1 DEF Emptied
  <2>2. CASE Restarted(f) BY <1>1, <2>2 DEF Restarted
  <2> QED BY <2>1, <2>2
<1> QED BY <1>1

LEMMA SuspendStep ==
  ASSUME IOTypeOK, LegalInv, SuspendInv, IONext
  PROVE  SuspendInv'
<1> stack \in Seq(Frame) /\ Len(stack) \in Nat BY DEF IOTypeOK
<1>1. CASE IOStill
  BY <1>1, Effects DEF SuspendInv, IOStill, HandlerChecks, HandlerSets, SpinnerPrints,
                       SpinnerLooks, SetReprex
<1>2. ASSUME NEW f, f.k # "events", CallBegun(f), suspended' = suspended PROVE SuspendInv'
  BY <1>2 DEF CallBegun, SuspendInv
<1>3. ASSUME NEW f, f.k # "events", stack[Len(stack)].k # "events", Swapped(f),
             suspended' = suspended
      PROVE  SuspendInv'
  BY <1>3 DEF Swapped, SuspendInv
<1>4. ASSUME stack[Len(stack)].k # "events", Popped, suspended' = suspended PROVE SuspendInv'
  BY <1>4 DEF Popped, SuspendInv
<1>5. ASSUME NEW f, f.k # "events", Restarted(f) \/ Emptied, ~suspended' PROVE SuspendInv'
  BY <1>5, NoEventsAfter DEF SuspendInv
<1>6. ASSUME NEW ask \in BOOLEAN, ReadLine(ask) PROVE SuspendInv'
  BY <1>2, <1>6, Effects DEF ReadLine
<1>7. ASSUME NEW err \in BOOLEAN, NEW chunk \in {"text", "newline", "return"}, Write(err, chunk)
      PROVE  SuspendInv'
  BY <1>2, <1>7, Effects DEF Write
<1>8. CASE EvaluateSilently \/ Complete \/ ShowSource
  BY <1>2, <1>8, Effects DEF EvaluateSilently, Complete, ShowSource
<1>9. CASE ClearInterrupt \/ AskPassword \/ AwaitInput
  <2>1. stack[Len(stack)].k # "events" BY <1>9, Effects, InFacts
  <2> QED BY <1>3, <1>9, <2>1, Effects DEF ClearInterrupt, AskPassword, AwaitInput
<1>10. CASE \/ PasswordRead \/ ReturnNothing \/ ContainedDone \/ CommandDone
            \/ WriteOut \/ ExpressionDone
  <2>1. stack[Len(stack)].k # "events" BY <1>10, Effects, InFacts
  <2> QED BY <1>4, <1>10, <2>1, Effects
          DEF PasswordRead, ReturnNothing, ContainedDone, CommandDone, WriteOut, ExpressionDone
<1>11. CASE PollEvents
  <2>1. AtEditor /\ CallBegun([k |-> "events", old |-> suspended]) /\ suspended' = TRUE
    BY <1>11, Effects DEF PollEvents
  <2>2. \A i \in 1..Len(stack) : stack[i].k # "events" BY <2>1, AtEditorFacts
  <2> QED BY <2>1, <2>2 DEF CallBegun, SuspendInv
<1>12. CASE EventsDone
  <2>1. In("events") /\ Popped /\ suspended' = Top.old BY <1>12, Effects DEF EventsDone, drop_suspend
  <2>2. stack[Len(stack)].k = "events" /\ ~suspended' BY <2>1, InFacts DEF Legal
  <2>3. \A i \in 1..Len(stack) - 1 : stack[i].k # "events"
    <3>1. ASSUME NEW i \in 1..Len(stack) - 1, stack[i].k = "events" PROVE FALSE
      <4>1. i = Len(stack) BY <2>1, <2>2, <3>1, InFacts DEF SuspendInv
      <4> QED BY <4>1
    <3> QED BY <3>1
  <2> QED BY <2>1, <2>2, <2>3 DEF Popped, SuspendInv
<1>13. CASE ExpressionFails \/ ScriptDone
  <2>1. Len(stack) > 0 /\ stack[Len(stack)].k \in {"expr", "script"} /\ Legal(Len(stack))
        /\ (stack[Len(stack)].k = "expr" => Len(stack) = 2 /\ stack[1].k = "script")
        /\ (stack[Len(stack)].k = "script" => Len(stack) = 1)
    BY <1>13, Effects, InFacts DEF Legal
  <2>2. \A i \in 1..Len(stack) : stack[i].k # "events" BY <2>1
  <2>3. Restarted([k |-> "end"]) /\ suspended' = suspended
    BY <1>13, Effects DEF ExpressionFails, ScriptDone
  <2>4. ~suspended' BY <2>2, <2>3 DEF SuspendInv
  <2> QED BY <1>5, <2>3, <2>4
<1>14. ASSUME NEW long \in BOOLEAN, NEW spin \in BOOLEAN, ReturnLine(long, spin)
       PROVE  SuspendInv'
  <2>1. In("read") /\ suspended' = suspended BY <1>14 DEF ReturnLine
  <2>2. stack[Len(stack)].k = "read" BY <2>1, InFacts
  <2>3. CASE Len(stack) = 1 /\ (Restarted([k |-> "eval"]) \/ Emptied)
    <3>1. ~suspended BY <2>2, <2>3 DEF SuspendInv
    <3> QED BY <1>5, <2>1, <2>3, <3>1
  <2>4. CASE Popped BY <1>4, <2>1, <2>2, <2>4
  <2> QED BY <1>14, <2>3, <2>4, Effects
<1>15. CASE Interrupt
  <2>1. ~suspended /\ suspended' = suspended /\ Running BY <1>15 DEF Interrupt
  <2>2. stack[Len(stack)].k # "events" BY <2>1, RunningFacts DEF SuspendInv
  <2>3. Emptied \/ Popped \/ Restarted([k |-> "end"]) BY <1>15, InterruptEffects
  <2>4. CASE Popped BY <1>4, <2>1, <2>2, <2>4
  <2>5. CASE Emptied \/ Restarted([k |-> "end"]) BY <1>5, <2>1, <2>5
  <2> QED BY <2>3, <2>4, <2>5
<1> QED
  BY <1>1, <1>6, <1>7, <1>8, <1>9, <1>10, <1>11, <1>12, <1>13, <1>14, <1>15 DEF IONext, IOStill

-----------------------------------------------------------------------------
(* The gate is closed as long as any read is in progress.                  *)

LEMMA ReadsFinite ==
  ASSUME stack \in Seq(Frame)
  PROVE  IsFiniteSet(Reads) /\ Cardinality(Reads) \in Nat
<1>1. Len(stack) \in Nat OBVIOUS
<1>2. IsFiniteSet(1..Len(stack)) BY <1>1, FS_Interval
<1>3. Reads \subseteq 1..Len(stack) BY DEF Reads
<1> QED BY <1>2, <1>3, FS_Subset, FS_CardinalityType

LEMMA ReadsKept ==
  ASSUME stack \in Seq(Frame), GateInv, Reads' = Reads, awaiting' = awaiting
  PROVE  GateInv'
BY DEF GateInv

\* A read begins, and a read ends.
LEMMA ReadBegins ==
  ASSUME stack \in Seq(Frame), GateInv, Swapped([k |-> "read"]), stack[Len(stack)].k # "read",
         awaiting' = awaiting + 1
  PROVE  GateInv'
<1> Len(stack) \in Nat OBVIOUS
<1>1. Len(stack) \notin Reads BY DEF Reads
<1>2. Reads' = Reads \cup {Len(stack)} BY DEF Reads, Swapped
<1>3. Cardinality(Reads') = Cardinality(Reads) + 1
  BY <1>1, <1>2, ReadsFinite, FS_AddElement
<1> QED BY <1>3 DEF GateInv

LEMMA ReadEnds ==
  ASSUME stack \in Seq(Frame), GateInv, Len(stack) > 0, stack[Len(stack)].k = "read",
         Reads' = Reads \ {Len(stack)}
  PROVE  awaiting - 1 \in Nat /\ (awaiting' = awaiting - 1 => GateInv')
<1> Len(stack) \in Nat OBVIOUS
<1>1. Len(stack) \in Reads BY DEF Reads
<1>2. Cardinality(Reads') = Cardinality(Reads) - 1
  BY <1>1, ReadsFinite, FS_RemoveElement
<1>3. IsFiniteSet(Reads') BY ReadsFinite, FS_RemoveElement
<1>4. Cardinality(Reads') \in Nat BY <1>3, FS_CardinalityType
<1> QED BY <1>2, <1>4 DEF GateInv

LEMMA ReadsAfterPop ==
  ASSUME stack \in Seq(Frame), Popped
  PROVE  Reads' = Reads \ {Len(stack)}
<1> Len(stack) \in Nat OBVIOUS
<1>1. \A i : i \in 1..Len(stack) - 1 <=> i \in 1..Len(stack) /\ i # Len(stack)
  BY DEF Popped
<1> QED BY <1>1 DEF Reads, Popped

LEMMA ReadsAfterRestart ==
  ASSUME NEW f, f.k # "read", Restarted(f) \/ Emptied
  PROVE  Reads' = {}
<1>1. ASSUME NEW i \in 1..Len(stack)', stack'[i].k = "read" PROVE FALSE
  <2>1. CASE Emptied BY <1>1, <2>1 DEF Emptied
  <2>2. CASE Restarted(f) BY <1>1, <2>2 DEF Restarted
  <2> QED BY <2>1, <2>2
<1> QED BY <1>1 DEF Reads

LEMMA GateStep ==
  ASSUME IOTypeOK, LegalInv, SuspendInv, GateInv, IONext
  PROVE  GateInv' /\ awaiting' \in Nat
<1> stack \in Seq(Frame) /\ Len(stack) \in Nat /\ awaiting \in Nat BY DEF IOTypeOK
<1>1. CASE IOStill
  BY <1>1, Effects, ReadsKept DEF Reads, IOStill, HandlerChecks, HandlerSets, SpinnerPrints,
                       SpinnerLooks, SetReprex
<1>2. ASSUME NEW f, f.k # "read", CallBegun(f), awaiting' = awaiting
      PROVE  GateInv' /\ awaiting' \in Nat
  <2>1. Reads' = Reads BY <1>2 DEF Reads, CallBegun
  <2> QED BY <1>2, <2>1, ReadsKept
<1>3. ASSUME stack[Len(stack)].k # "read", Popped, awaiting' = awaiting
      PROVE  GateInv' /\ awaiting' \in Nat
  <2>1. Reads' = Reads BY <1>3, ReadsAfterPop DEF Reads
  <2> QED BY <1>3, <2>1, ReadsKept
<1>4. ASSUME NEW f, f.k # "read", Restarted(f) \/ Emptied, Reads = {}, awaiting' = awaiting
      PROVE  GateInv' /\ awaiting' \in Nat
  BY <1>4, ReadsAfterRestart, ReadsKept
<1>5. ASSUME NEW ask \in BOOLEAN, ReadLine(ask) PROVE GateInv' /\ awaiting' \in Nat
  BY <1>2, <1>5, Effects DEF ReadLine
<1>6. ASSUME NEW err \in BOOLEAN, NEW chunk \in {"text", "newline", "return"}, Write(err, chunk)
      PROVE  GateInv' /\ awaiting' \in Nat
  BY <1>2, <1>6, Effects DEF Write
<1>7. CASE PollEvents \/ EvaluateSilently \/ Complete \/ ShowSource
  BY <1>2, <1>7, Effects DEF PollEvents, EvaluateSilently, Complete, ShowSource
<1>8. ASSUME NEW f, f.k # "read", stack[Len(stack)].k # "read", Swapped(f), awaiting' = awaiting
      PROVE  GateInv' /\ awaiting' \in Nat
  <2>1. Reads' = Reads BY <1>8 DEF Reads, Swapped
  <2> QED BY <1>8, <2>1, ReadsKept
<1>9. CASE ClearInterrupt \/ AskPassword
  <2>1. stack[Len(stack)].k # "read" BY <1>9, Effects, InFacts
  <2> QED BY <1>8, <1>9, <2>1, Effects DEF ClearInterrupt, AskPassword
<1>10. CASE AwaitInput
  <2>1. /\ In("gate") /\ Swapped([k |-> "read"]) /\ awaiting' = awaiting + 1
    BY <1>10, Effects DEF AwaitInput
  <2> QED BY <2>1, InFacts, ReadBegins
<1>11. CASE PasswordRead \/ EventsDone \/ ContainedDone \/ CommandDone \/ WriteOut \/ ExpressionDone
  <2>1. stack[Len(stack)].k # "read" BY <1>11, Effects, InFacts
  <2> QED BY <1>3, <1>11, <2>1, Effects
          DEF PasswordRead, EventsDone, ContainedDone, CommandDone, WriteOut, ExpressionDone
<1>12. ASSUME Len(stack) > 0, stack[Len(stack)].k = "read", awaiting' = awaiting - 1,
              Popped \/ (Len(stack) = 1 /\ (Restarted([k |-> "eval"]) \/ Emptied))
       PROVE  GateInv' /\ awaiting' \in Nat
  <2>1. Reads' = Reads \ {Len(stack)}
    <3>1. CASE Popped BY <3>1, ReadsAfterPop
    <3>2. CASE Len(stack) = 1 /\ (Restarted([k |-> "eval"]) \/ Emptied)
      <4>1. Reads' = {} BY <3>2, ReadsAfterRestart
      <4>2. Reads \subseteq {1} BY <3>2 DEF Reads
      <4> QED BY <3>2, <4>1, <4>2
    <3> QED BY <1>12, <3>1, <3>2
  <2> QED BY <1>12, <2>1, ReadEnds
<1>13. CASE ReturnNothing
  <2>1. In("read") /\ Popped /\ awaiting' = awaiting - 1
    BY <1>13, Effects DEF ReturnNothing, leave_input
  <2> QED BY <1>12, <2>1, InFacts
<1>14. ASSUME NEW long \in BOOLEAN, NEW spin \in BOOLEAN, ReturnLine(long, spin)
       PROVE  GateInv' /\ awaiting' \in Nat
  <2>1. In("read") /\ awaiting' = awaiting - 1 BY <1>14 DEF ReturnLine, leave_input
  <2>2. Popped \/ (Len(stack) = 1 /\ (Restarted([k |-> "eval"]) \/ Emptied)) BY <1>14, Effects
  <2> QED BY <1>12, <2>1, <2>2, InFacts
<1>15. ASSUME In("expr") \/ In("script") \/ (In("eval") /\ Len(stack) = 1) PROVE Reads = {}
  <2>1. CASE In("expr")
    <3>1. Len(stack) = 2 /\ stack[1].k = "script" /\ stack[2].k = "expr"
      BY <2>1, InFacts DEF Legal
    <3>2. \A i \in 1..Len(stack) : i = 1 \/ i = 2 BY <3>1
    <3> QED BY <3>1, <3>2 DEF Reads
  <2>2. CASE In("script") \/ (In("eval") /\ Len(stack) = 1)
    <3>1. Len(stack) = 1 /\ stack[1].k \in {"script", "eval"} BY <2>2, InFacts DEF Legal
    <3> QED BY <3>1 DEF Reads
  <2> QED BY <1>15, <2>1, <2>2
<1>16. CASE ExpressionFails \/ ScriptDone
  <2>1. /\ In("expr") \/ In("script")
        /\ Restarted([k |-> "end"]) /\ awaiting' = awaiting
    BY <1>16, Effects DEF ExpressionFails, ScriptDone
  <2> QED BY <1>4, <1>15, <2>1
<1>17. CASE Interrupt
  <2>1. awaiting' = awaiting BY <1>17 DEF Interrupt
  <2>2. CASE In("eval") /\ Len(stack) = 1 /\ Emptied
    <3>1. [k |-> "end"].k # "read" OBVIOUS
    <3> QED BY <1>4, <1>15, <2>1, <2>2, <3>1
  <2>3. CASE (In("silent") \/ In("complete")) /\ Popped BY <1>3, <2>1, <2>3, InFacts
  <2>4. CASE In("expr") /\ Restarted([k |-> "end"]) BY <1>4, <1>15, <2>1, <2>4
  <2> QED BY <1>17, <2>2, <2>3, <2>4, InterruptEffects
<1> QED
  BY <1>1, <1>5, <1>6, <1>7, <1>9, <1>10, <1>11, <1>13, <1>14, <1>16, <1>17 DEF IONext, IOStill

-----------------------------------------------------------------------------
(* Types.                                                                  *)

LEMMA StackTypeStep ==
  ASSUME IOTypeOK, LegalInv, SuspendInv, IONext
  PROVE  stack' \in Seq(Frame)
<1> stack \in Seq(Frame) BY DEF IOTypeOK
<1> USE DEF CallBegun, Popped, Swapped, Restarted, Emptied
<1>1. CASE IOStill BY <1>1, Effects
<1>2. ASSUME NEW ask \in BOOLEAN, ReadLine(ask) PROVE stack' \in Seq(Frame)
  BY <1>2, Effects
<1>3. ASSUME NEW err \in BOOLEAN, NEW chunk \in {"text", "newline", "return"}, Write(err, chunk)
      PROVE  stack' \in Seq(Frame)
  BY <1>3, Effects
<1>4. ASSUME NEW long \in BOOLEAN, NEW spin \in BOOLEAN, ReturnLine(long, spin)
      PROVE  stack' \in Seq(Frame)
  BY <1>4, Effects
<1>5. CASE Interrupt BY <1>5, InterruptEffects
<1>6. CASE \/ PollEvents \/ EvaluateSilently \/ Complete \/ ShowSource \/ ClearInterrupt
           \/ AskPassword \/ AwaitInput \/ PasswordRead \/ ReturnNothing \/ EventsDone
           \/ ContainedDone \/ CommandDone \/ WriteOut \/ ExpressionDone \/ ExpressionFails
           \/ ScriptDone
  BY <1>6, Effects
<1> QED BY <1>1, <1>2, <1>3, <1>4, <1>5, <1>6 DEF IONext, IOStill

Spinners == [slot : BOOLEAN, stop : BOOLEAN, thread : {"off", "print", "loop"}, shown : BOOLEAN]
Sinks == [suppressed : BOOLEAN, captured : BOOLEAN, reprex : BOOLEAN, line : SUBSET Nat,
          hadOutput : BOOLEAN]
Echoes == [source : Nat, mixed : BOOLEAN]

LEMMA TypeOperators ==
  ASSUME spinner \in Spinners, sink \in Sinks, echo \in Echoes, cmd \in Nat
  PROVE  /\ signal_spinner \in Spinners /\ clear_spinner \in Spinners
         /\ \A on \in BOOLEAN : start_spinner(on) \in Spinners /\ set_reprex_mode(on) \in Sinks
         /\ \A k : Restored(k) \in Sinks
         /\ \A owners : Shown(owners) \in Echoes
         /\ flush_reprex_buffer \in Sinks
<1>1. signal_spinner \in Spinners /\ clear_spinner \in Spinners
  BY DEF signal_spinner, clear_spinner, Spinners
<1>2. \A on \in BOOLEAN : start_spinner(on) \in Spinners /\ set_reprex_mode(on) \in Sinks
  BY DEF start_spinner, set_reprex_mode, Spinners, Sinks
<1>3. \A k : Restored(k) \in Sinks
  BY DEF Restored, Sinks
<1>4. \A owners : Shown(owners) \in Echoes
  BY DEF Shown, Echoes
<1>5. flush_reprex_buffer \in Sinks
  BY DEF flush_reprex_buffer, Sinks
<1> QED BY <1>1, <1>2, <1>3, <1>4, <1>5

LEMMA TypeStep ==
  ASSUME IOTypeOK, LegalInv, SuspendInv, GateInv, IONext
  PROVE  IOTypeOK'
<1>1. /\ stack' \in Seq(Frame) /\ awaiting' \in Nat
  BY StackTypeStep, GateStep
<1>2. /\ spinner \in Spinners /\ sink \in Sinks /\ echo \in Echoes /\ cmd \in Nat
      /\ awaiting \in Nat /\ presses \in Nat /\ writes \in Nat /\ suspended \in BOOLEAN
      /\ pieces \in BOOLEAN /\ flag \in Flags \cup {NoFlag} /\ handler \in Flags \cup {NoFlag}
  BY DEF IOTypeOK, Spinners, Sinks, Echoes
<1> SUFFICES /\ spinner' \in Spinners /\ sink' \in Sinks /\ echo' \in Echoes /\ cmd' \in Nat
             /\ presses' \in Nat /\ writes' \in Nat /\ suspended' \in BOOLEAN
             /\ pieces' \in BOOLEAN
             /\ flag' \in Flags \cup {NoFlag} /\ handler' \in Flags \cup {NoFlag}
  BY <1>1 DEF IOTypeOK, Spinners, Sinks, Echoes
<1>3. CASE HandlerChecks
  <2>1. [cmd |-> cmd, atPrompt |-> Reading, late |-> stack # <<>> /\ stack[1].k = "gate"] \in Flags
    <3>1. Reading \in BOOLEAN BY DEF Reading, OnStack
    <3> QED BY <1>2, <3>1 DEF Flags
  <2> QED BY <1>2, <1>3, <2>1 DEF HandlerChecks
<1>4. CASE HandlerSets \/ SpinnerPrints \/ SpinnerLooks
  BY <1>2, <1>4 DEF HandlerSets, SpinnerPrints, SpinnerLooks, Spinners
<1>5. ASSUME NEW on \in BOOLEAN, SetReprex(on)
      PROVE  sink' \in Sinks /\ UNCHANGED <<spinner, echo, cmd, presses, writes, suspended, pieces,
                                            flag, handler>>
  BY <1>2, <1>5, TypeOperators DEF SetReprex
<1>6. ASSUME NEW ask \in BOOLEAN, ReadLine(ask)
      PROVE  spinner' \in Spinners /\ UNCHANGED <<sink, echo, cmd, presses, writes, suspended,
                                                  pieces, flag, handler>>
  BY <1>2, <1>6, TypeOperators DEF ReadLine
<1>7. CASE ClearInterrupt
  <2>1. handler # NoFlag => [handler EXCEPT !.late = TRUE] \in Flags BY <1>2 DEF Flags
  <2> QED BY <1>2, <1>7, <2>1, TypeOperators DEF ClearInterrupt
<1>8. CASE AskPassword \/ PasswordRead \/ ReturnNothing \/ CommandDone
  BY <1>2, <1>8 DEF AskPassword, PasswordRead, ReturnNothing, CommandDone
<1>9. CASE AwaitInput
  <2>1. [sink EXCEPT !.hadOutput = FALSE] \in Sinks BY <1>2 DEF Sinks
  <2> QED BY <1>2, <1>9, <2>1 DEF AwaitInput
<1>10. ASSUME NEW long \in BOOLEAN, NEW spin \in BOOLEAN, ReturnLine(long, spin)
       PROVE  /\ spinner' \in Spinners /\ pieces' \in BOOLEAN /\ cmd' \in Nat
              /\ UNCHANGED <<sink, echo, presses, writes, suspended, flag, handler>>
  <2>1. Entered \in Nat BY <1>2 DEF Entered
  <2> QED BY <1>2, <1>10, <2>1, TypeOperators DEF ReturnLine
<1>11. CASE PollEvents BY <1>2, <1>11 DEF PollEvents
<1>12. CASE EventsDone
  <2>1. Top \in Frame /\ Top.k = "events" BY <1>12, InFacts DEF EventsDone
  <2>2. drop_suspend \in BOOLEAN BY <2>1, FrameFacts DEF drop_suspend
  <2> QED BY <1>2, <1>12, <2>2 DEF EventsDone
<1>13. CASE EvaluateSilently \/ Complete
  <2>1. [sink EXCEPT !.captured = TRUE] \in Sinks /\ [sink EXCEPT !.suppressed = TRUE] \in Sinks
    BY <1>2 DEF Sinks
  <2> QED BY <1>2, <1>13, <2>1 DEF EvaluateSilently, Complete
<1>14. CASE ContainedDone
  BY <1>2, <1>14, TypeOperators DEF ContainedDone
<1>15. CASE Interrupt
  <2>1. sink' \in Sinks BY <1>2, <1>15, InterruptEffects, TypeOperators
  <2> QED BY <1>2, <1>15, <2>1 DEF Interrupt
<1>16. ASSUME NEW err \in BOOLEAN, NEW chunk \in {"text", "newline", "return"}, Write(err, chunk)
       PROVE  /\ spinner' \in Spinners /\ writes' \in Nat
              /\ UNCHANGED <<sink, echo, cmd, presses, suspended, pieces, flag, handler>>
  BY <1>2, <1>16, TypeOperators DEF Write
<1>17. CASE WriteOut
  <2>1. /\ [sink EXCEPT !.line = @ \cup {cmd}] \in Sinks
        /\ [sink EXCEPT !.line = {}, !.hadOutput = TRUE] \in Sinks
        /\ [sink EXCEPT !.line = {}] \in Sinks
    BY <1>2 DEF Sinks
  <2>2. Top.chunk \in {"text", "newline", "return"}
    BY <1>17, InFacts, FrameFacts DEF WriteOut
  <2>3. sink' \in Sinks BY <1>2, <1>17, <2>1, <2>2 DEF WriteOut
  <2>4. echo' \in Echoes BY <1>2, <1>17, TypeOperators DEF WriteOut
  <2>5. spinner' \in Spinners BY <1>2, <1>17, TypeOperators DEF WriteOut
  <2>6. UNCHANGED <<flag, suspended, handler, pieces, cmd, presses, writes>> BY <1>17 DEF WriteOut
  <2> QED BY <1>2, <2>3, <2>4, <2>5, <2>6
<1>18. CASE ShowSource
  <2>1. [echo EXCEPT !.source = cmd + 1] \in Echoes BY <1>2 DEF Echoes
  <2> QED BY <1>2, <1>18, <2>1 DEF ShowSource
<1>19. CASE ExpressionDone \/ ExpressionFails \/ ScriptDone
  BY <1>2, <1>19, TypeOperators DEF ExpressionDone, ExpressionFails, ScriptDone
<1> QED
  BY <1>2, <1>3, <1>4, <1>5, <1>6, <1>7, <1>8, <1>9, <1>10, <1>11, <1>12, <1>13, <1>14, <1>15,
     <1>16, <1>17, <1>18, <1>19 DEF IONext

-----------------------------------------------------------------------------
(* Nobody shows a prompt, or reads, beside a running spinner.              *)

Idle == ~spinner.slot => spinner.thread = "off" /\ ~spinner.shown

LEMMA SpinnerOperators ==
  ASSUME spinner \in Spinners, Idle
  PROVE  /\ signal_spinner.slot = spinner.slot
         /\ ~signal_spinner.slot => signal_spinner.thread = "off" /\ ~signal_spinner.shown
         /\ Joined => /\ ~clear_spinner.slot
                      /\ clear_spinner.thread = "off" /\ ~clear_spinner.shown
         /\ start_spinner(FALSE) = spinner
         /\ start_spinner(TRUE).slot
BY DEF Idle, Spinners, signal_spinner, clear_spinner, Joined, start_spinner

LEMMA SpinnerStep ==
  ASSUME IOTypeOK, LegalInv, SuspendInv, SpinnerInv, IONext
  PROVE  SpinnerInv'
<1> stack \in Seq(Frame) /\ Len(stack) \in Nat /\ spinner \in Spinners
  BY DEF IOTypeOK, Spinners
<1> DEFINE Quiet == \A i \in 1..Len(stack) : stack[i].k \in Consoles => ~spinner.slot
<1>a. Idle /\ Quiet BY DEF SpinnerInv, Idle
<1> SUFFICES Idle' /\ Quiet' BY DEF SpinnerInv, Idle
<1>b. ASSUME NEW f, f.k \notin Consoles, CallBegun(f), spinner'.slot = spinner.slot PROVE Quiet'
  BY <1>a, <1>b DEF CallBegun
<1>c. ASSUME Popped, spinner'.slot = spinner.slot \/ ~spinner'.slot PROVE Quiet'
  BY <1>a, <1>c DEF Popped
<1>d. ASSUME NEW f, Swapped(f), stack[Len(stack)].k \in Consoles \/ ~spinner'.slot,
             spinner'.slot = spinner.slot \/ ~spinner'.slot
      PROVE  Quiet'
  BY <1>a, <1>d DEF Swapped
<1>e. ASSUME NEW f, f.k \notin Consoles, Restarted(f) \/ Emptied PROVE Quiet'
  <2>1. ASSUME NEW i \in 1..Len(stack)', stack'[i].k \in Consoles PROVE FALSE
    <3>1. CASE Emptied BY <2>1, <3>1 DEF Emptied
    <3>2. CASE Restarted(f) BY <1>e, <2>1, <3>2 DEF Restarted
    <3> QED BY <1>e, <3>1, <3>2
  <2> QED BY <2>1
<1>f. Quiet /\ stack' = stack /\ spinner'.slot = spinner.slot => Quiet' OBVIOUS
<1> HIDE DEF Quiet
<1>1. CASE HandlerChecks \/ HandlerSets \/ \E on \in BOOLEAN : SetReprex(on)
  BY <1>1, <1>a, <1>f DEF HandlerChecks, HandlerSets, SetReprex, Idle
<1>2. CASE SpinnerPrints \/ SpinnerLooks
  <2>1. stack' = stack /\ spinner.slot BY <1>a, <1>2 DEF SpinnerPrints, SpinnerLooks, Idle
  <2>2. spinner'.slot = spinner.slot BY <1>2 DEF SpinnerPrints, SpinnerLooks, Spinners
  <2> QED BY <1>a, <1>f, <2>1, <2>2 DEF Idle
<1>3. ASSUME NEW ask \in BOOLEAN, ReadLine(ask) PROVE Idle' /\ Quiet'
  <2>1. CallBegun([k |-> "stop", ask |-> ask]) /\ spinner' = signal_spinner
    BY <1>3, Effects DEF ReadLine
  <2>2. [k |-> "stop", ask |-> ask].k \notin Consoles BY DEF Consoles
  <2> QED BY <1>a, <1>b, <2>1, <2>2, SpinnerOperators DEF Idle
<1>4. ASSUME NEW err \in BOOLEAN, NEW chunk \in {"text", "newline", "return"}, Write(err, chunk)
      PROVE  Idle' /\ Quiet'
  <2>1. CallBegun([k |-> "write", err |-> err, chunk |-> chunk]) /\ spinner' = signal_spinner
    BY <1>4, Effects DEF Write
  <2>2. [k |-> "write", err |-> err, chunk |-> chunk].k \notin Consoles BY DEF Consoles
  <2> QED BY <1>a, <1>b, <2>1, <2>2, SpinnerOperators DEF Idle
<1>5. CASE PollEvents \/ EvaluateSilently \/ Complete \/ ShowSource
  <2>1. PICK f : f.k \notin Consoles /\ CallBegun(f) BY <1>5, Effects DEF Consoles
  <2>2. spinner' = spinner BY <1>5 DEF PollEvents, EvaluateSilently, Complete, ShowSource
  <2> QED BY <1>a, <1>b, <2>1, <2>2 DEF Idle
<1>6. CASE ClearInterrupt
  <2>1. Swapped([k |-> "gate", ask |-> Top.ask]) /\ Joined /\ spinner' = clear_spinner
    BY <1>6, Effects DEF ClearInterrupt
  <2> QED BY <1>a, <1>d, <2>1, SpinnerOperators DEF Idle
<1>7. CASE AskPassword \/ AwaitInput
  <2>1. stack[Len(stack)].k \in Consoles BY <1>7, Effects, InFacts DEF Consoles
  <2>2. spinner' = spinner BY <1>7 DEF AskPassword, AwaitInput
  <2>3. PICK f : Swapped(f) BY <1>7, Effects
  <2> QED BY <1>a, <1>d, <2>1, <2>2, <2>3 DEF Idle
<1>8. CASE PasswordRead \/ ReturnNothing \/ EventsDone \/ ContainedDone \/ CommandDone \/ ExpressionDone
  <2>1. Popped BY <1>8, Effects
  <2>2. spinner' = spinner
    BY <1>8 DEF PasswordRead, ReturnNothing, EventsDone, ContainedDone, CommandDone, ExpressionDone
  <2> QED BY <1>a, <1>c, <2>1, <2>2 DEF Idle
<1>9. CASE WriteOut
  <2>1. Popped /\ Joined /\ spinner' = clear_spinner BY <1>9, Effects DEF WriteOut
  <2> QED BY <1>a, <1>c, <2>1, SpinnerOperators DEF Idle
<1>10. CASE ExpressionFails \/ ScriptDone
  <2>1. Restarted([k |-> "end"]) /\ spinner' = spinner
    BY <1>10, Effects DEF ExpressionFails, ScriptDone
  <2>2. [k |-> "end"].k \notin Consoles BY DEF Consoles
  <2> QED BY <1>a, <1>e, <2>1, <2>2 DEF Idle
<1>11. ASSUME NEW long \in BOOLEAN, ReturnLine(long, FALSE) PROVE Idle' /\ Quiet'
  <2>1. spinner' = spinner BY <1>11, <1>a, SpinnerOperators DEF ReturnLine
  <2>2. Restarted([k |-> "eval"]) \/ Emptied \/ Popped BY <1>11, Effects
  <2>3. [k |-> "eval"].k \notin Consoles BY DEF Consoles
  <2> QED BY <1>a, <1>c, <1>e, <2>1, <2>2, <2>3 DEF Idle
<1>12. ASSUME NEW long \in BOOLEAN, ReturnLine(long, TRUE) PROVE Idle' /\ Quiet'
  <2>1. spinner'.slot BY <1>12, <1>a, SpinnerOperators DEF ReturnLine
  <2>2. Restarted([k |-> "eval"]) \/ Emptied
    <3>1. /\ Len(stack) = 1
          /\ Len(stack) > 1 \/ Restarted([k |-> "eval"]) \/ Emptied
      BY <1>12, Effects
    <3> QED BY <3>1
  <2>3. [k |-> "eval"].k \notin Consoles BY DEF Consoles
  <2> QED BY <1>e, <2>1, <2>2, <2>3 DEF Idle
<1>13. CASE Interrupt
  <2>1. Emptied \/ Popped \/ Restarted([k |-> "end"]) BY <1>13, InterruptEffects
  <2>2. spinner' = spinner BY <1>13 DEF Interrupt
  <2>3. [k |-> "end"].k \notin Consoles BY DEF Consoles
  <2> QED BY <1>a, <1>c, <1>e, <2>1, <2>2, <2>3 DEF Idle
<1>14. \A long, spin \in BOOLEAN : ReturnLine(long, spin) => Idle' /\ Quiet'
  BY <1>11, <1>12
<1> QED
  BY <1>1, <1>2, <1>3, <1>4, <1>5, <1>6, <1>7, <1>8, <1>9, <1>10, <1>13, <1>14 DEF IONext

(* Interrupts jump out of R code only.                                     *)
LEMMA JumpStep ==
  ASSUME IOTypeOK, LegalInv, SuspendInv, NoJumpThroughRust, IONext
  PROVE  NoJumpThroughRust'
<1>1. CASE Interrupt BY <1>1, InterruptEffects DEF NoJumpThroughRust
<1>2. CASE ~Interrupt
  <2>1. unwound' = unwound
    BY <1>2 DEF IONext, HandlerChecks, HandlerSets, SpinnerPrints, SpinnerLooks, ReadLine,
                ClearInterrupt, AskPassword, PasswordRead, AwaitInput, ReturnLine, ReturnNothing,
                PollEvents, EventsDone, EvaluateSilently, Complete, ContainedDone, CommandDone,
                Write, WriteOut, SetReprex, ShowSource, ExpressionDone, ExpressionFails, ScriptDone
  <2> QED BY <2>1 DEF NoJumpThroughRust
<1> QED BY <1>1, <1>2

-----------------------------------------------------------------------------
(* The lines of a script stand under their source.                         *)

\* In a script only expressions are called from the outermost call.
LEMMA SecondInScript ==
  ASSUME IOTypeOK, LegalInv, Script, Len(stack) = 2
  PROVE  stack[2].k = "expr"
<1>a. 2 \in 1..Len(stack) BY Len(stack) = 2
<1>1. stack[1].k = "script" /\ stack[2] \in Frame
  <2>1. stack \in Seq(Frame) BY DEF IOTypeOK
  <2>2. \A i \in 1..Len(stack) : stack[i] \in Frame BY <2>1
  <2> QED BY <1>a, <2>2 DEF Script
<1>2. Legal(2) BY <1>a DEF LegalInv
<1>3. stack[2].k \in {"script", "end", "pass", "read", "eval", "silent", "complete", "expr",
                      "stop", "gate", "events", "write"}
  BY <1>1 DEF Frame
<1>4. 2 > 1 /\ 2 - 1 = 1 OBVIOUS
<1> QED BY <1>1, <1>2, <1>3, <1>4 DEF Legal, RKinds

LEMMA ScriptFacts ==
  ASSUME IOTypeOK, LegalInv
  PROVE  /\ Script => InScript /\ Len(stack) > 0
         /\ InScript /\ ~Script => In("end") /\ Len(stack) = 1
<1> stack \in Seq(Frame) BY DEF IOTypeOK
<1>1. stack # <<>> => Len(stack) > 0 /\ Legal(1) BY TopFacts
<1>2. InScript /\ ~Script => stack[1].k = "end" /\ Len(stack) = 1
  BY <1>1 DEF InScript, Script, Legal
<1> QED BY <1>1, <1>2 DEF InScript, Script, In, Top

\* The outermost call goes with an answer, an interrupt or the end of the script only.
LEMMA OutermostKept ==
  ASSUME stack \in Seq(Frame), NEW f, CallBegun(f) \/ Popped \/ Swapped(f),
         stack # <<>>, stack' # <<>>, Swapped(f) => Len(stack) > 1
  PROVE  stack'[1] = stack[1]
<1> Len(stack) \in Nat /\ Len(stack) > 0 OBVIOUS
<1>1. CASE CallBegun(f) BY <1>1 DEF CallBegun
<1>2. CASE Popped
  <2>1. Len(stack') # 0 BY <1>2 DEF Popped
  <2>2. 1 \in 1..Len(stack) - 1 BY <1>2, <2>1 DEF Popped
  <2> QED BY <1>2, <2>2 DEF Popped
<1>3. CASE Swapped(f) BY <1>3 DEF Swapped
<1> QED BY <1>1, <1>2, <1>3

\* Calls come and go above the outermost one.
Beneath == {"script", "end"}

LEMMA ScriptPush ==
  ASSUME IOTypeOK, NEW f, CallBegun(f), f.k \notin Beneath
  PROVE  /\ InScript' <=> InScript
         /\ Script' <=> Script
         /\ Script' => Len(stack') # 1
<1> stack \in Seq(Frame) /\ Len(stack) \in Nat BY DEF IOTypeOK
<1>1. CASE stack = <<>>
  <2>1. stack' # <<>> /\ stack'[1] = f BY <1>1 DEF CallBegun
  <2> QED BY <1>1, <2>1 DEF InScript, Script, Beneath
<1>2. CASE stack # <<>>
  <2>1. Len(stack) > 0 BY <1>2
  <2>2. stack' # <<>> /\ stack'[1] = stack[1] BY <2>1 DEF CallBegun
  <2>3. Len(stack') # 1
    <3>1. \A n \in Nat : n > 0 => n + 1 # 1 OBVIOUS
    <3> QED BY <2>1, <3>1 DEF CallBegun
  <2> QED BY <1>2, <2>2, <2>3 DEF InScript, Script
<1> QED BY <1>1, <1>2

LEMMA ScriptPop ==
  ASSUME IOTypeOK, LegalInv, Popped, stack[Len(stack)].k \notin Beneath
  PROVE  /\ InScript' <=> InScript
         /\ Script' <=> Script
         /\ Script' /\ Len(stack') = 1 => stack[Len(stack)].k = "expr"
<1> stack \in Seq(Frame) /\ Len(stack) \in Nat /\ Len(stack) > 0 /\ stack # <<>>
  BY DEF IOTypeOK, Popped
<1>1. CASE Len(stack) = 1
  <2>1. Len(stack') = 0 BY <1>1 DEF Popped
  <2>2. stack' = <<>> BY <2>1 DEF Popped
  <2> QED BY <1>1, <2>1, <2>2 DEF InScript, Script, Beneath
<1>2. CASE Len(stack) # 1
  <2>1. \A n \in Nat : n > 0 /\ n # 1 => 1 \in 1..n - 1 /\ n - 1 # 0 OBVIOUS
  <2>2. 1 \in 1..Len(stack) - 1 /\ Len(stack') # 0 BY <1>2, <2>1 DEF Popped
  <2>3. stack' # <<>> /\ stack'[1] = stack[1] BY <2>2 DEF Popped
  <2>4. Len(stack') = 1 => Len(stack) = 2
    <3>1. \A n \in Nat : n - 1 = 1 => n = 2 OBVIOUS
    <3> QED BY <3>1 DEF Popped
  <2>5. Script /\ Len(stack) = 2 => stack[2].k = "expr" BY SecondInScript
  <2> QED BY <2>3, <2>4, <2>5 DEF InScript, Script
<1> QED BY <1>1, <1>2

LEMMA ScriptSwap ==
  ASSUME IOTypeOK, NEW f, Swapped(f), f.k \notin Beneath, stack[Len(stack)].k \notin Beneath
  PROVE  /\ InScript' <=> InScript
         /\ Script' <=> Script
         /\ Script' => Len(stack') # 1
<1> stack \in Seq(Frame) /\ Len(stack) \in Nat /\ Len(stack) > 0 /\ stack # <<>> /\ stack' # <<>>
  BY DEF IOTypeOK, Swapped
<1>1. CASE Len(stack) = 1
  <2>1. stack'[1] = f BY <1>1 DEF Swapped
  <2> QED BY <1>1, <2>1 DEF InScript, Script, Beneath
<1>2. CASE Len(stack) # 1
  <2>1. \A n \in Nat : n > 0 /\ n # 1 => 1 \in 1..n - 1 OBVIOUS
  <2>2. stack'[1] = stack[1] BY <1>2, <2>1 DEF Swapped
  <2> QED BY <1>2, <2>2 DEF InScript, Script, Swapped
<1> QED BY <1>1, <1>2

LEMMA ScriptRestart ==
  ASSUME NEW f, Restarted(f) \/ Emptied, f.k # "script"
  PROVE  ~Script' /\ (InScript' <=> Restarted(f) /\ f.k = "end")
<1>1. CASE Emptied
  <2>1. stack' = <<>> /\ ~Restarted(f) BY <1>1 DEF Emptied, Restarted
  <2> QED BY <2>1 DEF Script, InScript
<1>2. CASE Restarted(f)
  <2>1. stack' # <<>> /\ stack'[1] = f BY <1>2 DEF Restarted
  <2> QED BY <1>2, <2>1 DEF Script, InScript
<1> QED BY <1>1, <1>2

\* A step that leaves the echo, the line buffer and the number of the expression alone.
LEMMA EchoKept ==
  ASSUME EchoInv, echo' = echo, InScript => InScript',
         Script' => /\ Script /\ cmd' = cmd /\ sink.line' = sink.line
                    /\ Len(stack') = 1 => Len(stack) = 1
  PROVE  EchoInv'
BY DEF EchoInv

LEMMA EchoPush ==
  ASSUME IOTypeOK, EchoInv, NEW f, CallBegun(f), f.k \notin Beneath,
         UNCHANGED <<echo, cmd, sink.line>>
  PROVE  EchoInv'
BY ScriptPush, EchoKept

LEMMA EchoPop ==
  ASSUME IOTypeOK, LegalInv, EchoInv, Popped, stack[Len(stack)].k \notin Beneath \cup {"expr"},
         UNCHANGED <<echo, cmd, sink.line>>
  PROVE  EchoInv'
BY ScriptPop, EchoKept

LEMMA EchoSwap ==
  ASSUME IOTypeOK, EchoInv, NEW f, Swapped(f), f.k \notin Beneath,
         stack[Len(stack)].k \notin Beneath, UNCHANGED <<echo, cmd, sink.line>>
  PROVE  EchoInv'
BY ScriptSwap, EchoKept

LEMMA EchoRestart ==
  ASSUME EchoInv, NEW f, Restarted(f) \/ Emptied, f.k # "script", echo' = echo,
         InScript => Restarted(f) /\ f.k = "end"
  PROVE  EchoInv'
BY ScriptRestart, EchoKept

LEMMA SinkFields ==
  ASSUME sink \in Sinks
  PROVE  /\ \A k : Restored(k).line = sink.line
         /\ \A on : set_reprex_mode(on).line = {}
         /\ flush_reprex_buffer.line = {}
         /\ [sink EXCEPT !.captured = TRUE].line = sink.line
         /\ [sink EXCEPT !.suppressed = TRUE].line = sink.line
         /\ [sink EXCEPT !.hadOutput = FALSE].line = sink.line
         /\ [sink EXCEPT !.line = @ \cup {cmd}].line = sink.line \cup {cmd}
         /\ [sink EXCEPT !.line = {}, !.hadOutput = TRUE].line = {}
         /\ [sink EXCEPT !.line = {}].line = {}
BY DEF Sinks, Restored, set_reprex_mode, flush_reprex_buffer

LEMMA EchoFields ==
  ASSUME echo \in Echoes, ~echo.mixed
  PROVE  /\ \A owners : Shown(owners).source = echo.source
         /\ \A owners : echo.source = 0 \/ owners = {echo.source} => ~Shown(owners).mixed
         /\ [echo EXCEPT !.source = cmd + 1].source = cmd + 1
         /\ ~[echo EXCEPT !.source = cmd + 1].mixed
BY DEF Echoes, Shown

LEMMA EchoStep ==
  ASSUME IOTypeOK, LegalInv, SuspendInv, EchoInv, IONext
  PROVE  EchoInv'
<1> stack \in Seq(Frame) /\ Len(stack) \in Nat /\ sink \in Sinks /\ echo \in Echoes /\ cmd \in Nat
  BY DEF IOTypeOK, Sinks, Echoes
<1>1. CASE HandlerChecks \/ HandlerSets \/ SpinnerPrints \/ SpinnerLooks
  BY <1>1 DEF HandlerChecks, HandlerSets, SpinnerPrints, SpinnerLooks, EchoInv, InScript, Script
<1>2. ASSUME NEW on \in BOOLEAN, SetReprex(on) PROVE EchoInv'
  <2>1. AtEditor /\ stack' = stack /\ echo' = echo BY <1>2 DEF SetReprex
  <2>2. ~Script /\ ~Script' /\ (InScript' <=> InScript)
    BY <2>1, AtEditorFacts DEF Script, InScript
  <2> QED BY <2>1, <2>2 DEF EchoInv
<1>3. ASSUME NEW ask \in BOOLEAN, ReadLine(ask) PROVE EchoInv'
  <2>1. CallBegun([k |-> "stop", ask |-> ask]) /\ UNCHANGED <<echo, cmd, sink.line>>
    BY <1>3, Effects DEF ReadLine
  <2>2. [k |-> "stop", ask |-> ask].k \notin Beneath BY DEF Beneath
  <2> QED BY <2>1, <2>2, EchoPush
<1>4. ASSUME NEW err \in BOOLEAN, NEW chunk \in {"text", "newline", "return"}, Write(err, chunk)
      PROVE  EchoInv'
  <2>1. /\ CallBegun([k |-> "write", err |-> err, chunk |-> chunk])
        /\ UNCHANGED <<echo, cmd, sink.line>>
    BY <1>4, Effects DEF Write
  <2>2. [k |-> "write", err |-> err, chunk |-> chunk].k \notin Beneath BY DEF Beneath
  <2> QED BY <2>1, <2>2, EchoPush
<1>5. CASE PollEvents \/ EvaluateSilently \/ Complete
  <2>1. PICK f : f.k \notin Beneath /\ CallBegun(f) BY <1>5, Effects DEF Beneath
  <2>2. UNCHANGED <<echo, cmd, sink.line>>
    BY <1>5, SinkFields DEF PollEvents, EvaluateSilently, Complete
  <2> QED BY <2>1, <2>2, EchoPush
<1>6. CASE ClearInterrupt \/ AskPassword \/ AwaitInput
  <2>1. stack[Len(stack)].k \notin Beneath BY <1>6, Effects, InFacts DEF Beneath
  <2>2. PICK f : f.k \notin Beneath /\ Swapped(f) BY <1>6, Effects DEF Beneath
  <2>3. UNCHANGED <<echo, cmd, sink.line>>
    BY <1>6, SinkFields DEF ClearInterrupt, AskPassword, AwaitInput
  <2> QED BY <2>1, <2>2, <2>3, EchoSwap
<1>7. CASE PasswordRead \/ ReturnNothing \/ EventsDone \/ ContainedDone \/ CommandDone
  <2>1. Popped BY <1>7, Effects
  <2>2. stack[Len(stack)].k \notin Beneath \cup {"expr"} BY <1>7, Effects, InFacts DEF Beneath
  <2>3. UNCHANGED <<echo, cmd, sink.line>>
    BY <1>7, SinkFields DEF PasswordRead, ReturnNothing, EventsDone, ContainedDone, CommandDone
  <2> QED BY <2>1, <2>2, <2>3, EchoPop
<1>8. ASSUME NEW long \in BOOLEAN, NEW spin \in BOOLEAN, ReturnLine(long, spin)
      PROVE  EchoInv'
  <2>1. In("read") /\ UNCHANGED <<echo, sink>> /\ cmd' = Entered BY <1>8 DEF ReturnLine
  <2>2. stack[Len(stack)].k = "read" BY <2>1, InFacts
  <2>3. CASE Len(stack) = 1 /\ (Restarted([k |-> "eval"]) \/ Emptied)
    <3>1. ~InScript BY <2>2, <2>3 DEF InScript
    <3> QED BY <2>1, <2>3, <3>1, EchoRestart
  <2>4. CASE Len(stack) > 1 /\ Popped
    <3>1. cmd' = cmd
      <4>1. \A n \in Nat : n > 1 => n # 1 OBVIOUS
      <4> QED BY <2>1, <2>4, <4>1 DEF Entered
    <3> QED BY <2>1, <2>2, <2>4, <3>1, EchoPop DEF Beneath
  <2>5. \/ Len(stack) = 1 /\ (Restarted([k |-> "eval"]) \/ Emptied)
        \/ Len(stack) > 1 /\ Popped
    BY <1>8, Effects
  <2> QED BY <2>3, <2>4, <2>5
<1>9. CASE ShowSource
  <2>1. In("script") /\ CallBegun([k |-> "expr"]) BY <1>9, Effects
  <2>2. Len(stack) = 1 /\ Script
    BY <2>1, InFacts DEF Script, Legal, In
  <2>3. cmd' = cmd + 1 /\ sink' = sink /\ echo' = [echo EXCEPT !.source = cmd + 1]
    BY <1>9 DEF ShowSource
  <2>4. (InScript' <=> InScript) /\ (Script' <=> Script) /\ (Script' => Len(stack') # 1)
    BY <2>1, ScriptPush DEF Beneath
  <2>5. sink.line = {} /\ ~echo.mixed /\ InScript BY <2>2 DEF EchoInv, Script, InScript
  <2> QED BY <2>3, <2>4, <2>5, EchoFields DEF EchoInv
<1>10. ASSUME Popped, stack[Len(stack)].k \in {"write", "expr"}, cmd' = cmd,
              \/ echo' = echo
              \/ \E owners : owners # {} /\ echo' = Shown(owners) /\ owners \subseteq sink.line \cup {cmd},
              Script => sink.line' \subseteq sink.line \cup {cmd},
              stack[Len(stack)].k = "expr" => sink.line' = {}
       PROVE  EchoInv'
  <2>1. /\ (InScript' <=> InScript) /\ (Script' <=> Script)
        /\ Script' /\ Len(stack') = 1 => stack[Len(stack)].k = "expr"
    BY <1>10, ScriptPop DEF Beneath
  <2>2. InScript => Script
    <3>1. stack[Len(stack)].k # "end" BY <1>10
    <3> QED BY <3>1, InFacts, ScriptFacts
  <2>3. ~echo'.mixed /\ echo'.source = echo.source
    <3>1. CASE echo' = echo BY <3>1 DEF EchoInv
    <3>2. CASE \E owners : owners # {} /\ echo' = Shown(owners) /\ owners \subseteq sink.line \cup {cmd}
      <4>1. PICK owners : /\ owners # {} /\ echo' = Shown(owners)
                          /\ owners \subseteq sink.line \cup {cmd}
        BY <3>2
      <4>2. ~echo.mixed /\ echo.source \in Nat BY DEF EchoInv, Echoes
      <4>3. CASE echo.source = 0 BY <4>1, <4>2, <4>3, EchoFields
      <4>4. CASE echo.source > 0
        <5>1. Script BY <2>2, <4>4 DEF EchoInv
        <5>2. echo.source = cmd /\ sink.line \subseteq {cmd} BY <5>1 DEF EchoInv
        <5>3. owners = {cmd} BY <4>1, <5>2
        <5> QED BY <4>1, <4>2, <5>2, <5>3, EchoFields
      <4> QED BY <4>2, <4>3, <4>4
    <3> QED BY <1>10, <3>1, <3>2
  <2> QED BY <1>10, <2>1, <2>3 DEF EchoInv
<1>11. CASE WriteOut
  <2>1. Popped /\ stack[Len(stack)].k = "write" /\ cmd' = cmd /\ Top = stack[Len(stack)]
    BY <1>11, Effects, InFacts DEF WriteOut
  <2>2. Top.chunk \in {"text", "newline", "return"}
    BY <1>11, InFacts, FrameFacts DEF WriteOut
  <2>3. sink.line' \subseteq sink.line \cup {cmd}
    BY <1>11, <2>2, SinkFields DEF WriteOut
  <2>4. echo' = echo \/ echo' = Shown(sink.line \cup {cmd}) BY <1>11 DEF WriteOut
  <2>5. sink.line \cup {cmd} # {} OBVIOUS
  <2> QED BY <1>10, <2>1, <2>3, <2>4, <2>5
<1>12. CASE ExpressionDone
  <2>1. Popped /\ stack[Len(stack)].k = "expr" /\ cmd' = cmd
    BY <1>12, Effects, InFacts DEF ExpressionDone
  <2>2. sink.line' = {} BY <1>12, SinkFields DEF ExpressionDone
  <2>3. echo' = echo \/ (sink.line # {} /\ echo' = Shown(sink.line)) BY <1>12 DEF ExpressionDone
  <2> QED BY <1>10, <2>1, <2>2, <2>3
<1>13. CASE ExpressionFails \/ ScriptDone
  <2>1. Restarted([k |-> "end"]) /\ echo' = echo
    BY <1>13, Effects DEF ExpressionFails, ScriptDone
  <2> QED BY <2>1, EchoRestart
<1>14. CASE Interrupt
  <2>1. UNCHANGED <<echo, cmd>> BY <1>14 DEF Interrupt
  <2>2. CASE In("eval") /\ Len(stack) = 1 /\ Emptied
    <3>1. ~InScript BY <2>2, InFacts DEF InScript
    <3>2. [k |-> "eval"].k # "script" OBVIOUS
    <3> QED BY <2>1, <2>2, <3>1, <3>2, EchoRestart
  <2>3. CASE (In("silent") \/ In("complete")) /\ Popped /\ sink' = Restored(Top.k)
    BY <2>1, <2>3, InFacts, SinkFields, EchoPop DEF Beneath
  <2>4. CASE Restarted([k |-> "end"]) BY <2>1, <2>4, EchoRestart
  <2> QED BY <1>14, <2>2, <2>3, <2>4, InterruptEffects
<1> QED
  BY <1>1, <1>2, <1>3, <1>4, <1>5, <1>6, <1>7, <1>8, <1>9, <1>11, <1>12, <1>13, <1>14 DEF IONext

-----------------------------------------------------------------------------
(* A press of Ctrl+C hits the command it was meant for.                    *)

\* The outermost read is about to begin, or in progress.
First == stack # <<>> /\ stack[1].k \in {"gate", "read"}

LEMMA FirstAfterPush ==
  ASSUME stack \in Seq(Frame), NEW f, CallBegun(f), f.k \notin {"gate", "read"}
  PROVE  First' => First
<1> Len(stack) \in Nat OBVIOUS
<1>1. CASE stack = <<>>
  <2>1. stack'[1] = f BY <1>1 DEF CallBegun
  <2> QED BY <2>1 DEF First
<1>2. CASE stack # <<>>
  <2>1. stack'[1] = stack[1] BY <1>2 DEF CallBegun
  <2> QED BY <1>2, <2>1 DEF First
<1> QED BY <1>1, <1>2

LEMMA FirstAfterPop ==
  ASSUME stack \in Seq(Frame), Popped
  PROVE  First' => First
<1> SUFFICES ASSUME First' PROVE First OBVIOUS
<1>1. stack # <<>> /\ stack' # <<>> BY DEF First, Popped
<1>2. stack'[1] = stack[1]
  <2>1. Len(stack') # 0 BY <1>1 DEF Popped
  <2>2. 1 \in 1..Len(stack) - 1 BY <2>1 DEF Popped
  <2> QED BY <2>2 DEF Popped
<1> QED BY <1>1, <1>2 DEF First

LEMMA FirstAfterSwap ==
  ASSUME stack \in Seq(Frame), NEW f, Swapped(f), Len(stack) > 1
  PROVE  First' => First
<1>1. stack'[1] = stack[1] /\ stack # <<>> BY DEF Swapped
<1> QED BY <1>1 DEF First

LEMMA FirstAfterRestart ==
  ASSUME NEW f, Restarted(f) \/ Emptied, f.k \notin {"gate", "read"}
  PROVE  ~First'
<1>1. CASE Emptied
  <2>1. stack' = <<>> BY <1>1 DEF Emptied
  <2> QED BY <2>1 DEF First
<1>2. CASE Restarted(f)
  <2>1. stack'[1] = f BY <1>2 DEF Restarted
  <2> QED BY <2>1 DEF First
<1> QED BY <1>1, <1>2

\* A step that sets no flag and enters no command.
LEMMA FlagsKept ==
  ASSUME FlagInv, InScript => InScript', First' => First, cmd' = cmd,
         flag' \in {flag, NoFlag}, handler' \in {handler, NoFlag}
  PROVE  FlagInv'
<1>1. CASE InScript BY <1>1 DEF FlagInv
<1>2. CASE ~InScript
  <2>1. Own(flag) /\ Own(handler) BY <1>2 DEF FlagInv
  <2>2. Own(flag)'
    <3>1. CASE flag' = flag BY <2>1, <3>1 DEF Own, First
    <3>2. CASE flag' = NoFlag BY <3>2 DEF Own
    <3> QED BY <3>1, <3>2
  <2>3. Own(handler)'
    <3>1. CASE handler' = handler BY <2>1, <3>1 DEF Own, First
    <3>2. CASE handler' = NoFlag BY <3>2 DEF Own
    <3> QED BY <3>1, <3>2
  <2> QED BY <2>2, <2>3 DEF FlagInv
<1> QED BY <1>1, <1>2

LEMMA FlagsPush ==
  ASSUME IOTypeOK, FlagInv, NEW f, CallBegun(f), f.k \notin Beneath \cup {"gate", "read"},
         cmd' = cmd, flag' \in {flag, NoFlag}, handler' = handler
  PROVE  FlagInv'
BY ScriptPush, FirstAfterPush, FlagsKept DEF IOTypeOK

LEMMA FlagsPop ==
  ASSUME IOTypeOK, LegalInv, FlagInv, Popped, stack[Len(stack)].k \notin Beneath,
         cmd' = cmd, flag' \in {flag, NoFlag}, handler' = handler
  PROVE  FlagInv'
BY ScriptPop, FirstAfterPop, FlagsKept DEF IOTypeOK

\* While the outermost call is a read, the gate is closed.
LEMMA GateClosed ==
  ASSUME IOTypeOK, GateInv, awaiting = 0
  PROVE  ~Reading /\ (stack # <<>> => stack[1].k # "read")
<1> stack \in Seq(Frame) BY DEF IOTypeOK
<1>1. Reads = {} BY ReadsFinite, FS_EmptySet DEF GateInv
<1>2. ~Reading BY <1>1 DEF Reading, OnStack, Reads
<1>3. stack # <<>> => 1 \in 1..Len(stack) OBVIOUS
<1> QED BY <1>1, <1>2, <1>3 DEF Reads

LEMMA FlagStep ==
  ASSUME IOTypeOK, LegalInv, SuspendInv, GateInv, FlagInv, IONext
  PROVE  FlagInv'
<1> stack \in Seq(Frame) /\ Len(stack) \in Nat /\ cmd \in Nat /\ awaiting \in Nat
    /\ handler \in Flags \cup {NoFlag}
  BY DEF IOTypeOK
<1>1. CASE HandlerChecks
  <2>1. UNCHANGED <<stack, flag, cmd>> /\ (InScript => InScript') /\ (First' => First)
    BY <1>1 DEF HandlerChecks, InScript, First
  <2>2. CASE awaiting > 0
    <3>1. handler' = NoFlag BY <1>1, <2>2 DEF HandlerChecks
    <3> QED BY <2>1, <3>1, FlagsKept
  <2>3. CASE ~(awaiting > 0)
    <3>1. awaiting = 0 BY <2>3
    <3>2. ~Reading /\ (stack # <<>> => stack[1].k # "read") BY <3>1, GateClosed
    <3>3. handler' = [cmd |-> cmd, atPrompt |-> FALSE,
                      late |-> stack # <<>> /\ stack[1].k = "gate"]
      <4>1. Reading = FALSE BY <3>2 DEF Reading, OnStack
      <4> QED BY <1>1, <2>3, <4>1 DEF HandlerChecks
    <3>4. Own(handler)' BY <2>1, <3>2, <3>3 DEF Own
    <3>5. Own(flag) => Own(flag)' BY <2>1 DEF Own
    <3> QED BY <2>1, <3>4, <3>5 DEF FlagInv
  <2> QED BY <2>2, <2>3
<1>2. CASE HandlerSets
  <2>1. UNCHANGED <<stack, cmd>> /\ flag' = handler /\ handler' = NoFlag
        /\ (InScript => InScript')
    BY <1>2 DEF HandlerSets, InScript
  <2>2. (Own(handler) => Own(flag)') /\ Own(handler)' BY <2>1 DEF Own
  <2> QED BY <2>1, <2>2 DEF FlagInv
<1>3. CASE SpinnerPrints \/ SpinnerLooks \/ \E on \in BOOLEAN : SetReprex(on)
  <2>1. UNCHANGED <<stack, cmd, flag, handler>> BY <1>3 DEF SpinnerPrints, SpinnerLooks, SetReprex
  <2>2. (InScript => InScript') /\ (First' => First) BY <2>1 DEF InScript, First
  <2> QED BY <2>1, <2>2, FlagsKept
<1>4. ASSUME NEW ask \in BOOLEAN, ReadLine(ask) PROVE FlagInv'
  <2>1. CallBegun([k |-> "stop", ask |-> ask]) /\ UNCHANGED <<cmd, flag, handler>>
    BY <1>4, Effects DEF ReadLine
  <2>2. [k |-> "stop", ask |-> ask].k \notin Beneath \cup {"gate", "read"} BY DEF Beneath
  <2> QED BY <2>1, <2>2, FlagsPush
<1>5. ASSUME NEW err \in BOOLEAN, NEW chunk \in {"text", "newline", "return"}, Write(err, chunk)
      PROVE  FlagInv'
  <2>1. /\ CallBegun([k |-> "write", err |-> err, chunk |-> chunk])
        /\ UNCHANGED <<cmd, flag, handler>>
    BY <1>5, Effects DEF Write
  <2>2. [k |-> "write", err |-> err, chunk |-> chunk].k \notin Beneath \cup {"gate", "read"}
    BY DEF Beneath
  <2> QED BY <2>1, <2>2, FlagsPush
<1>6. CASE PollEvents \/ EvaluateSilently \/ Complete
  <2>1. PICK f : f.k \notin Beneath \cup {"gate", "read"} /\ CallBegun(f) BY <1>6, Effects DEF Beneath
  <2>2. cmd' = cmd /\ flag' \in {flag, NoFlag} /\ handler' = handler
    BY <1>6 DEF PollEvents, EvaluateSilently, Complete
  <2> QED BY <2>1, <2>2, FlagsPush
<1>7. CASE ClearInterrupt
  <2>1. /\ In("stop") /\ Swapped([k |-> "gate", ask |-> Top.ask]) /\ cmd' = cmd /\ flag' = NoFlag
        /\ handler' = IF handler # NoFlag /\ Len(stack) = 1 THEN [handler EXCEPT !.late = TRUE]
                      ELSE handler
    BY <1>7, Effects DEF ClearInterrupt
  <2>2. stack[Len(stack)].k = "stop" /\ Len(stack) > 0 BY <2>1, InFacts
  <2>3. InScript' <=> InScript BY <2>1, <2>2, ScriptSwap DEF Beneath
  <2>4. CASE Len(stack) = 1
    <3>1. ~InScript BY <2>2, <2>4 DEF InScript
    <3>2. Own(handler) BY <3>1 DEF FlagInv
    <3>3. Own(flag)' BY <2>1 DEF Own
    <3>4. CASE handler = NoFlag
      <4>1. handler' = NoFlag BY <2>1, <3>4
      <4> QED BY <3>3, <4>1 DEF FlagInv, Own
    <3>5. CASE handler # NoFlag
      <4>1. handler' = [handler EXCEPT !.late = TRUE] /\ handler \in Flags BY <2>1, <2>4, <3>5
      <4>2. handler'.late /\ handler'.atPrompt = handler.atPrompt BY <4>1 DEF Flags
      <4>3. ~handler'.atPrompt BY <3>2, <3>5, <4>2 DEF Own
      <4>4. Own(handler)' BY <4>2, <4>3 DEF Own
      <4> QED BY <3>3, <4>4 DEF FlagInv
    <3> QED BY <3>4, <3>5
  <2>5. CASE Len(stack) # 1
    <3>1. \A n \in Nat : n > 0 /\ n # 1 => n > 1 OBVIOUS
    <3>2. Len(stack) > 1 BY <2>2, <2>5, <3>1
    <3>3. First' => First BY <2>1, <3>2, FirstAfterSwap
    <3>4. handler' = handler BY <2>1, <2>5
    <3> QED BY <2>1, <2>3, <3>3, <3>4, FlagsKept
  <2> QED BY <2>4, <2>5
<1>8. CASE AskPassword
  <2>1. In("gate") /\ Top.ask /\ Swapped([k |-> "pass"]) BY <1>8, Effects
  <2>2. UNCHANGED <<cmd, flag, handler>> BY <1>8 DEF AskPassword
  <2>3. Len(stack) > 1 /\ stack[Len(stack)].k \notin Beneath BY <2>1, InFacts DEF Legal, Beneath
  <2>4. InScript' <=> InScript BY <2>1, <2>3, ScriptSwap DEF Beneath
  <2>5. First' => First BY <2>1, <2>3, FirstAfterSwap
  <2> QED BY <2>2, <2>4, <2>5, FlagsKept
<1>9. CASE AwaitInput
  <2>1. In("gate") /\ Swapped([k |-> "read"]) BY <1>9, Effects
  <2>2. UNCHANGED <<cmd, flag, handler>> BY <1>9 DEF AwaitInput
  <2>3. stack[Len(stack)].k = "gate" /\ Len(stack) > 0 /\ stack # <<>> BY <2>1, InFacts DEF In
  <2>4. InScript' <=> InScript BY <2>1, <2>3, ScriptSwap DEF Beneath
  <2>5. First' => First
    <3>1. CASE Len(stack) = 1 BY <2>3, <3>1 DEF First
    <3>2. CASE Len(stack) # 1
      <4>1. \A n \in Nat : n > 0 /\ n # 1 => n > 1 OBVIOUS
      <4>2. Len(stack) > 1 BY <2>3, <3>2, <4>1
      <4> QED BY <2>1, <4>2, FirstAfterSwap
    <3> QED BY <3>1, <3>2
  <2> QED BY <2>2, <2>4, <2>5, FlagsKept
<1>10. CASE \/ PasswordRead \/ ReturnNothing \/ EventsDone \/ ContainedDone \/ CommandDone
            \/ WriteOut \/ ExpressionDone
  <2>1. Popped BY <1>10, Effects
  <2>2. stack[Len(stack)].k \notin Beneath BY <1>10, Effects, InFacts DEF Beneath
  <2>3. cmd' = cmd /\ flag' \in {flag, NoFlag} /\ handler' = handler
    BY <1>10 DEF PasswordRead, ReturnNothing, EventsDone, ContainedDone, CommandDone,
                 WriteOut, ExpressionDone
  <2> QED BY <2>1, <2>2, <2>3, FlagsPop
<1>11. ASSUME NEW long \in BOOLEAN, NEW spin \in BOOLEAN, ReturnLine(long, spin)
       PROVE  FlagInv'
  <2>1. In("read") /\ UNCHANGED <<flag, handler>> /\ cmd' = Entered BY <1>11 DEF ReturnLine
  <2>2. stack[Len(stack)].k = "read" /\ stack # <<>> BY <2>1, InFacts DEF In
  <2>3. CASE Len(stack) = 1 /\ (Restarted([k |-> "eval"]) \/ Emptied)
    <3>1. ~InScript /\ First BY <2>2, <2>3 DEF InScript, First
    <3>2. Own(flag) /\ Own(handler) BY <3>1 DEF FlagInv
    <3>3. ~First'
      <4>1. [k |-> "eval"].k \notin {"gate", "read"} OBVIOUS
      <4> QED BY <2>3, <4>1, FirstAfterRestart
    <3>4. Own(flag)' /\ Own(handler)' BY <2>1, <3>1, <3>2, <3>3 DEF Own, First
    <3> QED BY <3>4 DEF FlagInv
  <2>4. CASE Len(stack) > 1 /\ Popped
    <3>1. cmd' = cmd
      <4>1. \A n \in Nat : n > 1 => n # 1 OBVIOUS
      <4> QED BY <2>1, <2>4, <4>1 DEF Entered
    <3> QED BY <2>1, <2>2, <2>4, <3>1, FlagsPop DEF Beneath
  <2>5. \/ Len(stack) = 1 /\ (Restarted([k |-> "eval"]) \/ Emptied)
        \/ Len(stack) > 1 /\ Popped
    BY <1>11, Effects
  <2> QED BY <2>3, <2>4, <2>5
<1>12. CASE ShowSource
  <2>1. In("script") /\ CallBegun([k |-> "expr"]) BY <1>12, Effects
  <2>2. InScript' <=> InScript BY <2>1, ScriptPush DEF Beneath
  <2>3. Len(stack) = 1 /\ InScript BY <2>1, InFacts DEF InScript, Legal, In
  <2> QED BY <2>2, <2>3 DEF FlagInv
<1>13. CASE ExpressionFails \/ ScriptDone
  <2>1. Restarted([k |-> "end"]) BY <1>13, Effects
  <2>2. InScript' BY <2>1 DEF InScript, Restarted
  <2> QED BY <2>2 DEF FlagInv
<1>14. CASE Interrupt
  <2>1. cmd' = cmd /\ flag' = NoFlag /\ handler' = handler BY <1>14 DEF Interrupt
  <2>2. CASE In("eval") /\ Len(stack) = 1 /\ Emptied
    <3>1. ~InScript BY <2>2, InFacts DEF InScript
    <3>2. ~First'
      <4>1. [k |-> "eval"].k \notin {"gate", "read"} OBVIOUS
      <4> QED BY <2>2, <4>1, FirstAfterRestart
    <3> QED BY <2>1, <3>1, <3>2, FlagsKept
  <2>3. CASE (In("silent") \/ In("complete")) /\ Popped
    BY <2>1, <2>3, InFacts, FlagsPop DEF Beneath
  <2>4. CASE Restarted([k |-> "end"])
    <3>1. InScript' BY <2>4 DEF InScript, Restarted
    <3> QED BY <3>1 DEF FlagInv
  <2> QED BY <1>14, <2>2, <2>3, <2>4, InterruptEffects
<1> QED
  BY <1>1, <1>2, <1>3, <1>4, <1>5, <1>6, <1>7, <1>8, <1>9, <1>10, <1>11, <1>12, <1>13, <1>14
     DEF IONext

-----------------------------------------------------------------------------
(* The invariant, and what follows from it.                                *)

LEMMA InvariantInit == IOInit => IOInv
<1> SUFFICES ASSUME IOInit PROVE IOInv OBVIOUS
<1>1. /\ awaiting = 0 /\ flag = NoFlag /\ handler = NoFlag /\ suspended = FALSE /\ pieces = FALSE
      /\ spinner = NoSpinner /\ echo = [source |-> 0, mixed |-> FALSE]
      /\ cmd = 0 /\ presses = 0 /\ writes = 0 /\ unwound = {}
  BY DEF IOInit
<1>2. stack = <<>> \/ stack = <<[k |-> "script"]>> BY DEF IOInit
<1>3. sink.line = {} /\ sink \in Sinks BY DEF IOInit, Plain, Sinks
<1>4. stack \in Seq(Frame)
  <2>1. [k |-> "script"] \in Frame BY FrameFacts
  <2>2. <<[k |-> "script"]>> \in Seq(Frame) /\ <<>> \in Seq(Frame) BY <2>1
  <2> QED BY <1>2, <2>2
<1>5. IOTypeOK BY <1>1, <1>3, <1>4 DEF IOTypeOK, NoSpinner, Sinks
<1>6. \A i \in 1..Len(stack) : i = 1 /\ Len(stack) = 1 /\ stack[i].k = "script"
  <2>1. CASE stack = <<>> BY <2>1
  <2>2. CASE stack = <<[k |-> "script"]>>
    <3>1. Len(stack) = 1 /\ stack[1].k = "script" BY <2>2
    <3> QED BY <3>1
  <2> QED BY <1>2, <2>1, <2>2
<1>7. LegalInv BY <1>6 DEF LegalInv, Legal
<1>8. SuspendInv BY <1>1, <1>6 DEF SuspendInv
<1>9. GateInv
  <2>1. Reads = {} BY <1>6 DEF Reads
  <2> QED BY <1>1, <2>1, FS_EmptySet DEF GateInv
<1>10. SpinnerInv BY <1>1, <1>6 DEF SpinnerInv, NoSpinner, Consoles
<1>11. EchoInv BY <1>1, <1>3 DEF EchoInv
<1>12. FlagInv BY <1>1 DEF FlagInv, Own
<1>13. NoJumpThroughRust BY <1>1 DEF NoJumpThroughRust
<1> QED BY <1>5, <1>7, <1>8, <1>9, <1>10, <1>11, <1>12, <1>13 DEF IOInv

LEMMA InvariantStep == IOInv /\ [IONext]_ioVars => IOInv'
<1> SUFFICES ASSUME IOInv, [IONext]_ioVars PROVE IOInv' OBVIOUS
<1>1. CASE IONext
  <2>1. IOTypeOK' /\ LegalInv' /\ SuspendInv' /\ GateInv'
    BY <1>1, TypeStep, LegalStep, SuspendStep, GateStep DEF IOInv
  <2>2. SpinnerInv' /\ EchoInv' /\ FlagInv' /\ NoJumpThroughRust'
    BY <1>1, SpinnerStep, EchoStep, FlagStep, JumpStep DEF IOInv
  <2> QED BY <2>1, <2>2 DEF IOInv
<1>2. CASE UNCHANGED ioVars
  BY <1>2 DEF ioVars, IOInv, IOTypeOK, LegalInv, Legal, SuspendInv, GateInv, Reads, SpinnerInv,
              EchoInv, InScript, Script, FlagInv, Own, NoJumpThroughRust
<1> QED BY <1>1, <1>2

\* The inductive invariant holds of every behaviour of R's thread, the signal handler and
\* the spinner's thread.
THEOREM ConsoleInvariant == IOSpec => []IOInv
<1> QED BY InvariantInit, InvariantStep, PTL DEF IOSpec

\* The stack of calls on R's thread, the gate, the flag, the spinner and the sinks have
\* their types, whatever the bounds.
THEOREM ConsoleTypeCorrect == IOSpec => []IOTypeOK
<1>1. IOInv => IOTypeOK BY DEF IOInv
<1> QED BY <1>1, ConsoleInvariant, PTL

\* The jump of an interrupt leaves calls of R's evaluator only: never r_read_console, the
\* editor below it or process_r_events, whose guards would not be dropped.
THEOREM JumpsOutOfRCodeOnly == IOSpec => []NoJumpThroughRust
<1>1. IOInv => NoJumpThroughRust BY DEF IOInv
<1> QED BY <1>1, ConsoleInvariant, PTL

\* Where a prompt is shown or a password read, the spinner has been joined and its line
\* cleared; and a spinner that was stopped does not come back.
THEOREM SpinnerIsGone == IOSpec => []SpinnerOutOfTheWay
<1>1. ASSUME IOInv PROVE SpinnerOutOfTheWay
  <2>1. IOTypeOK /\ LegalInv /\ SpinnerInv BY <1>1 DEF IOInv
  <2>2. AtPrompt => ~spinner.slot
    BY <2>1, InFacts DEF AtPrompt, SpinnerInv, Consoles
  <2> QED BY <2>1, <2>2 DEF SpinnerOutOfTheWay, SpinnerInv
<1> QED BY <1>1, ConsoleInvariant, PTL

\* In the output of a script every line is of the expression whose source stands above it,
\* in however many chunks R sends it.
THEOREM LinesStandUnderTheirSource == IOSpec => []LinesUnderTheirSource
<1>1. IOInv => LinesUnderTheirSource BY DEF IOInv, EchoInv, LinesUnderTheirSource
<1> QED BY <1>1, ConsoleInvariant, PTL

\* An interrupt hits the command during which Ctrl+C was pressed, or one whose line was
\* about to be read when the press got through; never because of a press at the prompt.
THEOREM InterruptsHitTheirCommand == IOSpec => InterruptsItsOwn
<1>1. ASSUME IOInv, Interrupt PROVE Script \/ (~flag.atPrompt /\ (flag.cmd = cmd \/ flag.late))
  <2>1. IOTypeOK /\ LegalInv /\ FlagInv BY <1>1 DEF IOInv
  <2>2. Running /\ flag # NoFlag BY <1>1 DEF Interrupt
  <2>3. ~In("end") BY <2>2 DEF Running, In, RKinds
  <2>4. Script \/ Own(flag) BY <2>1, <2>3, ScriptFacts DEF FlagInv
  <2> QED BY <2>2, <2>4 DEF Own
<1>2. IOInv =>
        [Interrupt => Script \/ (~flag.atPrompt /\ (flag.cmd = cmd \/ flag.late))]_ioVars
  BY <1>1
<1> QED BY <1>2, ConsoleInvariant, PTL DEF InterruptsItsOwn
=============================================================================
