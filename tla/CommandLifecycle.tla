-------------------------- MODULE CommandLifecycle --------------------------
(***************************************************************************)
(* What becomes of a command in arf's histories: reedline saves the line,  *)
(* the ReadConsole callback (repl/read_console.rs) remembers whose outcome *)
(* is awaited while R evaluates, records it at the next command prompt,    *)
(* and the sponge queue (repl/state/sponge.rs) forgets failed commands     *)
(* some commands later, or when the session ends.                          *)
(*                                                                         *)
(* R, the user and the clients are the environment.  A client's code is    *)
(* accepted at the command prompt (IpcRepl!RunsOnlyAtCommandPrompt).       *)
(***************************************************************************)
EXTENDS Naturals, Sequences, FiniteSets

CONSTANTS
  ForgetConfigs,    \* values of history_forget in the configuration
  NoId, NoContext,  \* Option::None, PendingHistoryContext::None
  MaxEntered,         \* bound: lines entered, in both editors
  MaxMishaps,       \* bound: calls of the stores that fail, errors outside commands
  MaxChunks         \* bound: pieces of a line that exceed R's buffer

Stores == {"r", "shell"}

ASSUME LifecycleAssumption ==
  /\ ForgetConfigs \subseteq [enabled : BOOLEAN, on_exit_only : BOOLEAN, delay : Nat]
  /\ MaxEntered \in Nat /\ MaxMishaps \in Nat /\ MaxChunks \in Nat
  /\ NoId \notin Nat /\ NoContext \notin Nat /\ NoContext # NoId

VARIABLES
  forget,       \* forget_config: one of ForgetConfigs
  pc,           \* where the main thread is, see Locations
  prompt,       \* PromptKind of the ReadConsole call being served
  shell,        \* prompt_config.is_shell_enabled()
  evaluating,   \* R has been given code and has not asked for a command since
  pendingInput, \* PENDING_INPUT: pieces of the last line R has not read yet
  history,      \* the rows of both SQLite stores, by id
  nextId,       \* their AUTOINCREMENT counters
  context,      \* pending_history_context: NoContext, or the row's id or NoId
  hadError,     \* what command_had_error() would say
  lastFailed,   \* prompt_config.last_command_failed
  sponge,       \* SpongeQueue, newest first: the id of a failed command, or NoId
  erred,        \* history: the code R was given last has raised an error
  completed,    \* history: the commands whose outcome was recorded, oldest first
  erased,       \* history: rows of the R store the user removed
  faults, stray \* how much of the bounds is used up

consoleVars == <<pc, prompt, shell>>
rVars       == <<evaluating, pendingInput, hadError, erred>>
rowVars     == <<history, nextId, erased>>
outcomeVars == <<context, lastFailed, sponge, completed>>
lifecycleVars == <<forget, consoleVars, rVars, rowVars, outcomeVars, faults, stray>>

\* In R, reading a line, at end of file once should_exit is set; over after the
\* cleanup, exited by R at end of file, killed by q() or :restart.
Locations   == {"R", "reading", "eof", "over", "exited", "killed"}
PromptKinds == {"command", "continuation", "other"}
Authors     == {"user", "client"}

\* A row with the columns that matter, and what was entered, where, by whom: a
\* "comment" is a line of which nothing is left to run, "shell" a line of the shell
\* editor; "nested" are the prompts that R shows before a command has ended.
HistoryRow == [line   : {"code", "comment", "meta", "shell"},
               place  : {"command", "nested"},
               author : Authors,
               status : {"null", "ok", "failed"},
               meta   : {"unknown", "yes", "no"}]

Completed == [id : Nat \cup {NoId}, failed : BOOLEAN, erred : BOOLEAN, author : Authors]

TypeOK ==
  /\ forget \in ForgetConfigs
  /\ pc \in Locations
  /\ prompt \in PromptKinds
  /\ shell \in BOOLEAN /\ evaluating \in BOOLEAN /\ hadError \in BOOLEAN
  /\ lastFailed \in BOOLEAN /\ erred \in BOOLEAN
  /\ pendingInput \in Nat /\ faults \in Nat /\ stray \in Nat
  /\ nextId \in [Stores -> Nat]
  /\ DOMAIN history = Stores
  /\ \A s \in Stores : \A i \in DOMAIN history[s] :
       i \in Nat /\ i < nextId[s] /\ history[s][i] \in HistoryRow
  /\ context \in Nat \cup {NoId, NoContext}
  /\ sponge \in Seq(Nat \cup {NoId})
  /\ completed \in Seq(Completed)
  /\ erased \subseteq Nat

LifecycleInit ==
  /\ forget \in ForgetConfigs
  /\ pc = "R" /\ prompt = "command" /\ shell = FALSE
  /\ evaluating = FALSE /\ pendingInput = 0 /\ hadError = FALSE /\ erred = FALSE
  /\ history = [s \in Stores |-> <<>>] /\ nextId = [s \in Stores |-> 1] /\ erased = {}
  /\ context = NoContext /\ lastFailed = FALSE /\ sponge = <<>> /\ completed = <<>>
  /\ faults = 0 /\ stray = 0

-----------------------------------------------------------------------------
(* The stores.  Any one call a handler makes may fail: the other process   *)
(* that has the database open holds its lock, or the disk is full.         *)

\* The call that fails, if any, of those in calls.
Breaks(calls, broken) ==
  /\ broken \in calls \cup {"none"}
  /\ faults' = IF broken = "none" THEN faults ELSE faults + 1
  /\ faults' + stray <= MaxMishaps

\* save_unknown and save_known: a new row, unless the call fails.
SavedId(s, broken) == IF broken = "save" THEN NoId ELSE nextId[s]

Saved(s, row, broken) ==
  IF broken = "save" THEN history[s]
  ELSE [i \in DOMAIN history[s] \cup {nextId[s]} |->
          IF i = nextId[s] THEN row ELSE history[s][i]]

\* finalize_history: the flag of the row the save reported, if it reported one.
Finalized(rows, id, flag, broken) ==
  IF broken = "finalize" \/ id \notin DOMAIN rows THEN rows
  ELSE [rows EXCEPT ![id].meta = flag]

\* The editor's save followed by finalize_history on the same runtime.
Routed(s, line, author, flag, broken) ==
  LET row == [line |-> line, place |-> IF prompt = "command" THEN prompt ELSE "nested",
              author |-> author, status |-> "null", meta |-> "unknown"]
  IN Finalized(Saved(s, row, broken), SavedId(s, broken), flag, broken)

CountsId(s, broken) ==
  nextId' = [nextId EXCEPT ![s] = IF broken = "save" THEN @ ELSE @ + 1]

HasRoom == nextId["r"] + nextId["shell"] < MaxEntered + 2

-----------------------------------------------------------------------------
(* The sponge queue.                                                       *)

\* record_command pushes in front and takes the oldest entry off a queue that has
\* outgrown the delay; a delay of usize::MAX stands for on_exit_only.
Pushed(queue, id, failed) == <<IF failed THEN id ELSE NoId>> \o queue

\* Mutant: one command too late.
OutgrownLate(queue) == ~forget.on_exit_only /\ Len(queue) > forget.delay + 1

Outgrown(queue) == ~forget.on_exit_only /\ Len(queue) > forget.delay

Sponged(queue, id, failed) ==
  LET q == Pushed(queue, id, failed)
  IN IF Outgrown(q) THEN SubSeq(q, 1, Len(q) - 1) ELSE q

\* The row record_command returns for deletion, if any.
Forgotten(queue, id, failed) ==
  LET q == Pushed(queue, id, failed)
  IN IF Outgrown(q) THEN {q[Len(q)]} \ {NoId} ELSE {}

\* record_command_outcome on the rows of the R store.
WithOutcome(rows, id, failed, broken) ==
  LET marked == IF broken = "status" \/ id \notin DOMAIN rows THEN rows
                ELSE [rows EXCEPT ![id].status = IF failed THEN "failed" ELSE "ok"]
      gone   == IF forget.enabled /\ broken # "delete" THEN Forgotten(sponge, id, failed)
                ELSE {}
  IN [i \in DOMAIN marked \ gone |-> marked[i]]

AuthorOf(rows, id) == IF id \in DOMAIN rows THEN rows[id].author ELSE "user"

RecordOutcome(rows, id, failed, inError, broken) ==
  /\ history' = [history EXCEPT !["r"] = WithOutcome(rows, id, failed, broken)]
  /\ sponge' = IF forget.enabled THEN Sponged(sponge, id, failed) ELSE sponge
  /\ completed' = Append(completed, [id |-> id, failed |-> failed, erred |-> inError,
                                     author |-> AuthorOf(rows, id)])

OutcomeCalls == {"status", "delete"}

-----------------------------------------------------------------------------
(* R.                                                                      *)

\* The running code raises an error; R unwinds to top level, or to a debugger.
RErrs ==
  /\ pc = "R" /\ evaluating
  /\ hadError' = TRUE /\ erred' = TRUE
  /\ UNCHANGED <<forget, consoleVars, evaluating, pendingInput, rowVars, outcomeVars,
                 faults, stray>>

\* Mutant: the buffer is not looked at.
NextChunkBlindly ==
  /\ pc = "R"
  /\ pendingInput' = pendingInput - 1
  /\ UNCHANGED <<forget, consoleVars, evaluating, hadError, erred, rowVars, outcomeVars,
                 faults, stray>>

\* r_read_console serves the rest of a long line without the callback, whatever R
\* prompts for.
NextChunk ==
  /\ pc = "R" /\ pendingInput > 0
  /\ pendingInput' = pendingInput - 1
  /\ UNCHANGED <<forget, consoleVars, evaluating, hadError, erred, rowVars, outcomeVars,
                 faults, stray>>

\* Mutant: the error state is not reset.
SettleKeepingErrors ==
  /\ context' = NoContext /\ UNCHANGED hadError
  /\ \/ /\ context = NoContext
        /\ lastFailed' = FALSE
        /\ UNCHANGED <<history, sponge, completed, faults>>
     \/ /\ context # NoContext
        /\ lastFailed' = hadError
        /\ \E broken \in OutcomeCalls \cup {"none"} :
             /\ Breaks(OutcomeCalls, broken)
             /\ RecordOutcome(history["r"], context, hadError, erred, broken)

\* The context is taken and its outcome recorded; then the error state is reset.
SettleContext ==
  /\ context' = NoContext /\ hadError' = FALSE
  /\ \/ /\ context = NoContext
        /\ lastFailed' = FALSE
        /\ UNCHANGED <<history, sponge, completed, faults>>
     \/ /\ context # NoContext
        /\ lastFailed' = hadError
        /\ \E broken \in OutcomeCalls \cup {"none"} :
             /\ Breaks(OutcomeCalls, broken)
             /\ RecordOutcome(history["r"], context, hadError, erred, broken)

\* read_console_callback up to its input loop.  A command prompt ends the
\* evaluation; the others are asked for from inside it.
ReadConsole(k) ==
  /\ pc = "R" /\ pendingInput = 0
  /\ k = "command" \/ evaluating
  /\ pc' = "reading" /\ prompt' = k
  /\ evaluating' = (evaluating /\ k # "command")
  /\ \/ k = "command" /\ ~shell /\ SettleContext
     \/ /\ k # "command" \/ shell
        /\ UNCHANGED <<hadError, outcomeVars, history, faults>>
  /\ UNCHANGED <<forget, shell, pendingInput, erred, nextId, erased, stray>>

\* R code that belongs to no command fails while a line is being read: an event
\* handler run by process_r_events, the printing of a silent evaluate's value.
StrayError ==
  /\ pc = "reading" /\ faults + stray < MaxMishaps
  /\ stray' = stray + 1 /\ hadError' = TRUE
  /\ UNCHANGED <<forget, consoleVars, evaluating, pendingInput, erred, rowVars, outcomeVars,
                 faults>>

\* q() in the running code ends the process on the spot.
Quit ==
  /\ pc = "R" /\ evaluating
  /\ pc' = "killed"
  /\ UNCHANGED <<forget, prompt, shell, rVars, rowVars, outcomeVars, faults, stray>>

-----------------------------------------------------------------------------
(* read_line returns Success(line) in the R editor.                        *)

InR == pc = "reading" /\ ~shell /\ HasRoom

\* Code goes to R, in as many pieces as its buffer needs.
GiveToR ==
  /\ pc' = "R" /\ evaluating' = TRUE
  /\ pendingInput' \in 0..MaxChunks

\* An answer to readline(), menu() or a debugger is saved and passed on; the outer
\* command still owns the outcome.
EnterAnswer ==
  /\ InR /\ prompt = "other"
  /\ \E broken \in {"none", "save", "finalize"} :
       /\ Breaks({"save", "finalize"}, broken)
       /\ CountsId("r", broken)
       /\ history' = [history EXCEPT !["r"] = Routed("r", "code", "user", "no", broken)]
  /\ GiveToR
  /\ UNCHANGED <<forget, prompt, shell, hadError, erred, erased, outcomeVars, stray>>

\* A command, or more of an incomplete one.  Only the former is awaited.
EnterCode ==
  /\ InR /\ prompt # "other"
  /\ \E broken \in {"none", "save", "finalize"} :
       /\ Breaks({"save", "finalize"}, broken)
       /\ CountsId("r", broken)
       /\ history' = [history EXCEPT !["r"] = Routed("r", "code", "user", "no", broken)]
       /\ context' = IF prompt = "command" THEN SavedId("r", broken) ELSE context
  /\ GiveToR
  /\ erred' = (erred /\ prompt # "command")
  /\ UNCHANGED <<forget, prompt, shell, hadError, erased, lastFailed, sponge, completed,
                 stray>>

\* Code the formatter rejects never reaches R: a command counts as failed at once.
EnterRejected ==
  /\ InR /\ prompt # "other"
  /\ \E broken \in {"none", "save", "finalize"} \cup OutcomeCalls :
       LET rows == Routed("r", "code", "user", "no", broken)
           id   == SavedId("r", broken)
       IN /\ Breaks({"save", "finalize"} \cup OutcomeCalls, broken)
          /\ CountsId("r", broken)
          /\ \/ /\ prompt = "command"
                /\ RecordOutcome(rows, id, TRUE, TRUE, broken)
                /\ lastFailed' = TRUE
             \/ /\ prompt # "command"
                /\ history' = [history EXCEPT !["r"] = rows]
                /\ UNCHANGED <<sponge, completed, lastFailed>>
  /\ UNCHANGED <<forget, consoleVars, rVars, erased, context, stray>>

\* A line with nothing to run: white space, or reprex output pasted back.
EnterComment ==
  /\ InR /\ prompt # "other"
  /\ \E broken \in {"none", "save", "finalize"} :
       /\ Breaks({"save", "finalize"}, broken)
       /\ CountsId("r", broken)
       /\ history' = [history EXCEPT !["r"] = Routed("r", "comment", "user", "no", broken)]
  /\ pc' = "R"
  /\ UNCHANGED <<forget, prompt, shell, rVars, erased, outcomeVars, stray>>

\* Ctrl+C, or an empty line, which reedline does not save.
EnterNothing ==
  /\ pc = "reading" /\ ~shell
  /\ pc' = "R"
  /\ UNCHANGED <<forget, prompt, shell, rVars, rowVars, outcomeVars, faults, stray>>

\* A client's code (read_console.rs, at both places): save_ipc_history, and the
\* context.
ClientCode ==
  /\ InR /\ prompt = "command"
  /\ \E broken \in {"none", "save"} :
       /\ Breaks({"save"}, broken)
       /\ CountsId("r", broken)
       /\ history' = [history EXCEPT !["r"] = Routed("r", "code", "client", "no", broken)]
       /\ context' = SavedId("r", broken)
  /\ GiveToR
  /\ erred' = FALSE
  /\ UNCHANGED <<forget, prompt, shell, hadError, erased, lastFailed, sponge, completed,
                 stray>>

-----------------------------------------------------------------------------
(* Meta commands and the shell editor.                                     *)

Editor == IF shell THEN "shell" ELSE "r"

\* A line that is dispatched as a meta command, in either editor.
Meta(broken) ==
  /\ pc = "reading" /\ (shell \/ prompt # "other") /\ HasRoom
  /\ Breaks({"save", "finalize"}, broken)
  /\ CountsId(Editor, broken)

MetaRows(broken) ==
  [history EXCEPT ![Editor] = Routed(Editor, "meta", "user", "yes", broken)]

\* Mutant: the line is finalized in the store of the editor that comes next.
MetaSwitchFinalizesLate ==
  /\ \E broken \in {"none", "save", "finalize"} :
       /\ Meta(broken)
       /\ shell' \in BOOLEAN
       /\ LET unfinished == [MetaRows("finalize") EXCEPT ![Editor] =
                               IF broken = "save" THEN history[Editor] ELSE @]
              next       == IF shell' THEN "shell" ELSE "r"
          IN history' = [unfinished EXCEPT ![next] =
                          Finalized(@, SavedId(Editor, broken), "yes", broken)]
  /\ UNCHANGED <<forget, pc, prompt, rVars, erased, outcomeVars, stray>>

\* :shell, :r, and all that leave this state alone.
MetaSwitch ==
  /\ \E broken \in {"none", "save", "finalize"} :
       Meta(broken) /\ history' = MetaRows(broken)
  /\ shell' \in BOOLEAN
  /\ UNCHANGED <<forget, pc, prompt, rVars, erased, outcomeVars, stray>>

\* :history clear empties one store or both after its own line has been finalized,
\* :history browse deletes rows of one; nothing looks at the sponge queue.
MetaErase ==
  /\ \E broken \in {"none", "save", "finalize"} :
       LET rows == MetaRows(broken)
       IN /\ Meta(broken)
          /\ \E r \in SUBSET DOMAIN rows["r"], sh \in SUBSET DOMAIN rows["shell"] :
               /\ \/ r = {} \/ sh = {}
                  \/ r = DOMAIN rows["r"] /\ sh = DOMAIN rows["shell"]
               /\ history' = [s \in Stores |->
                    [i \in DOMAIN rows[s] \ (IF s = "r" THEN r ELSE sh) |-> rows[s][i]]]
               /\ erased' = erased \cup r
  /\ UNCHANGED <<forget, consoleVars, rVars, outcomeVars, stray>>

\* :quit, which sets should_exit, and :restart, which replaces the process.
MetaQuit ==
  /\ \E broken \in {"none", "save", "finalize"} :
       Meta(broken) /\ history' = MetaRows(broken)
  /\ pc' \in {"eof", "killed"}
  /\ UNCHANGED <<forget, prompt, shell, rVars, erased, outcomeVars, stray>>

ShellLine ==
  /\ pc = "reading" /\ shell /\ HasRoom
  /\ \E broken \in {"none", "save", "finalize"} :
       /\ Breaks({"save", "finalize"}, broken)
       /\ CountsId("shell", broken)
       /\ history' = [history EXCEPT !["shell"] =
                                          Routed("shell", "shell", "user", "no", broken)]
  /\ shell' \in BOOLEAN
  /\ UNCHANGED <<forget, pc, prompt, rVars, erased, outcomeVars, stray>>

\* Ctrl+C and Ctrl+D in shell mode.
LeaveShell ==
  /\ pc = "reading" /\ shell
  /\ shell' = FALSE
  /\ UNCHANGED <<forget, pc, prompt, rVars, rowVars, outcomeVars, faults, stray>>

-----------------------------------------------------------------------------
(* The end of the session.                                                 *)

\* Ctrl+D, or an error of the editor.  From now on the callback returns end of
\* file at once, also to the commands around this prompt.
CtrlD ==
  /\ pc = "reading" /\ ~shell
  /\ pc' = "eof"
  /\ UNCHANGED <<forget, prompt, shell, rVars, rowVars, outcomeVars, faults, stray>>

\* The failed commands drain_failed_ids returns.
Drained == {sponge[i] : i \in DOMAIN sponge} \ {NoId}

\* If R's main loop returns (repl/mod.rs: "this doesn't return until EOF"), the rows
\* still in the queue are deleted; each deletion may fail.
Cleanup ==
  /\ pc = "eof" /\ pc' = "over"
  /\ \E kept \in SUBSET Drained :
       /\ faults' = faults + Cardinality(kept) /\ faults' + stray <= MaxMishaps
       /\ history' = [history EXCEPT !["r"] = [i \in DOMAIN @ \ (Drained \ kept) |-> @[i]]]
  /\ sponge' = <<>>
  /\ UNCHANGED <<forget, prompt, shell, rVars, nextId, erased, context, lastFailed, completed,
                 stray>>

\* If it does not (init.rs: "never returns normally"; pid_file.rs: R calls exit() at
\* end of file), the process ends inside R.
ExitInR ==
  /\ pc = "eof" /\ pc' = "exited"
  /\ UNCHANGED <<forget, prompt, shell, rVars, rowVars, outcomeVars, faults, stray>>

Terminated == pc \in {"over", "exited", "killed"} /\ UNCHANGED lifecycleVars

-----------------------------------------------------------------------------
RSteps    == RErrs \/ NextChunk \/ (\E k \in PromptKinds : ReadConsole(k)) \/ StrayError \/ Quit
UserLines == EnterAnswer \/ EnterCode \/ EnterRejected \/ EnterComment \/ EnterNothing
MetaLines == MetaSwitch \/ MetaErase \/ MetaQuit \/ ShellLine \/ LeaveShell
Ends      == CtrlD \/ Cleanup \/ ExitInR

Step == RSteps \/ UserLines \/ ClientCode \/ MetaLines \/ Ends

LifecycleNext == Step \/ Terminated

LifecycleSpec == LifecycleInit /\ [][LifecycleNext]_lifecycleVars

-----------------------------------------------------------------------------
(* Safety.                                                                 *)

IsOwnCommand(row) == row.place = "command" /\ row.line = "code"

Rows == history["r"]

\* Where in completed the outcome of row i was recorded.
OutcomesOf(i) == {k \in DOMAIN completed : completed[k].id = i}

\* A recorded exit status is the outcome of the very command on that row: nested
\* prompts, pieces of long lines, commands of clients and rows that vanish in
\* between do not shift it to another (the context is taken and the error state
\* reset at command prompts only).  A success is never a command that failed; a
\* failure is one, unless code outside every command failed meanwhile.
OwnOutcome ==
  \A i \in DOMAIN Rows :
    /\ Rows[i].status = "ok" => \E k \in OutcomesOf(i) : ~completed[k].erred
    /\ Rows[i].status = "failed" /\ stray = 0 => \E k \in OutcomesOf(i) : completed[k].erred

\* At a command prompt every command has its status, also one that was accepted
\* from a client or rejected by the formatter, and nothing else has one: no answer
\* to a menu, continuation, meta command or empty line (read_console.rs: claiming the
\* context there "would strand the outer entry without an exit status").
AllSettled ==
  pc = "reading" /\ prompt = "command" /\ faults = 0 =>
    \A i \in DOMAIN Rows : Rows[i].status # "null" <=> IsOwnCommand(Rows[i])

\* Every command ends up with its outcome, and with its own.
OutcomesRight == OwnOutcome /\ AllSettled

\* The commands whose rows the sponge has to have removed by now.
Due(k) == /\ forget.enabled /\ ~forget.on_exit_only
          /\ completed[k].failed /\ Len(completed) - k >= forget.delay

\* A failed command is gone once `delay` more commands have finished, whatever was
\* entered in between that is no command (sponge.rs); after the cleanup none is left
\* (repl/mod.rs: "purge all remaining failed commands in the queue"), and every success.
ForgottenInTime ==
  faults = 0 =>
    /\ \A k \in DOMAIN completed : Due(k) => completed[k].id \notin DOMAIN Rows
    /\ pc = "over" /\ forget.enabled =>
         \A k \in DOMAIN completed :
           LET id == completed[k].id
           IN id \in DOMAIN Rows <=> ~completed[k].failed /\ id \notin erased

\* No other row of the R history is ever removed but by the user: not a success,
\* not one whose delay is not over, not the row of another line, even after
\* :history clear has left stale ids in the queue.
NothingElseForgotten ==
  pc # "over" =>
    \A i \in 1..(nextId["r"] - 1) :
      \/ i \in DOMAIN Rows \cup erased
      \/ \E k \in OutcomesOf(i) : Due(k)

\* What the sponge removes are the failed commands, each in time, and nothing else.
ForgetsFailuresOnly == ForgottenInTime /\ NothingElseForgotten

\* The meta-command flag is on the rows of meta commands and on no other, in both
\* stores, although ids of the two coincide and :shell and :r change the editor
\* between the save of their line and its finalization.
MetaFlagOnOwnRow ==
  \A s \in Stores : \A i \in DOMAIN history[s] :
    LET row == history[s][i]
    IN /\ row.meta = "yes" => row.line = "meta"
       /\ row.meta = "no"  => row.line # "meta"
       /\ row.meta = "unknown" => faults > 0

-----------------------------------------------------------------------------
(* What the documentation says, and the code does not do.                  *)

\* docs/configuration.md: history forget "does not apply to ... commands sent via
\* IPC".  Both places that inject a client's code set the same context as a typed
\* command, so its row goes through the same queue.
ClientCommandsKept ==
  \A k \in DOMAIN completed :
    completed[k].author = "client" => completed[k].id \in DOMAIN Rows \cup erased
=============================================================================
