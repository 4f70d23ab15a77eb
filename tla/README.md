# Verification of arf

arf is an R console: one process embeds R, runs a line editor inside R's `ReadConsole`
callback, keeps a history of commands in SQLite, and may serve JSON-RPC requests of other programs
(`arf ipc eval`, `send`, `session`, `history`, `shutdown`) on a socket. The modules here model how
a request reaches R and how its client is answered, what becomes of a command in the history,
what R, the editor, signals and threads do to each other around the prompt, which R is started
and restarted, and the tools around the history and the prompt. They are checked with TLC on
small instances; the theorems in the modules that end in `Proofs` are checked by TLAPS for every
value of the constants.

Paths below are relative to `src/crates/arf-console/src/`, unless they name another crate.

## The system

| Component | State | Operations | Hard behaviours | Modules |
|---|---|---|---|---|
| IPC server thread (`ipc/server.rs`) | `SERVER_HANDLE`, one task per connection, a oneshot channel per request | accept, read, parse, answer at once or queue, wait with a timeout; start, stop | its timeouts race the main thread; requests arrive in pieces | `IpcTransport`, `IpcSessions`, `IpcClient` |
| IPC operations (`ipc/mod.rs`, `approval.rs`, `capture.rs`) | `IPC_RECEIVER`, `PENDING_IPC_OPERATION`, `R_IS_AT_PROMPT`, `BREAK_SIGNAL`, `PENDING_VISIBLE_EVAL`, the capture | poll, accept or refuse, run silently, inject visibly, approve, stop | re-entrant polling, deferred replies, one capture for two users | `IpcRepl`, `IpcPromise` |
| ReadConsole callback (`repl/read_console.rs`) | `ReplState`, `should_exit`, `pending_history_context` | one call per prompt; line, Ctrl+C, Ctrl+D, ExternalBreak | R calls it from inside running code | `IpcRepl`, `CommandLifecycle`, `ReplLoop` |
| Headless loop (`app/headless.rs`) | the shutdown flag, the headless history | drain the queue, evaluate, record, stop | a shutdown overtakes queued requests | `IpcHeadless` |
| Session files, sockets, PID file (`ipc/session.rs`, `pid_file.rs`) | `<pid>.json`, the socket, the PID file | write, list, clean up, probe | several processes, crashes, PID reuse, exec | `IpcSessions` |
| IPC client (`ipc/client.rs`) | one connection | resolve, send, receive, report | two timeouts for one request, cut answers | `IpcClient`, `IpcSessions` |
| Evaluation policy (`ipc/policy.rs`) | `POLICY` | validate code | calls hide in many kinds of nodes | `EvalPolicy` |
| Command lifecycle (`repl/read_console.rs`, `repl/state/sponge.rs`) | history context, receipts, `SpongeQueue`, error state | record the outcome of a command, forget failed ones | nested prompts, clients' commands among the user's | `CommandLifecycle` |
| History stores (`history/store.rs`), import, export | SQLite tables | save, update, delete, search; import, export | several writers, failures halfway | `CommandLifecycle`, `HistoryShared`, `HistorySearch`, `HistoryImport`, `RadianHistory` |
| Prompt and meta commands (`repl/state.rs`, `repl/meta_command.rs`, `completion/meta.rs`, `repl/mod.rs`) | last status and duration, shell mode, directory stack, reprex and format | dispatch of lines, prompts, `:cd`, `:pushd`, `:popd`, ... | the prompt speaks of an earlier moment; two tables of commands | `ReplLoop` |
| Output, interrupts, spinner, reprex, passwords (`arf-libr`, `arf-harp`) | interrupt flag and gate, console buffers, spinner thread | callbacks, output routing | signals, threads, jumps | `ConsoleIO` |
| Editor (`editor/`) | shadow of reedline's buffer | auto-match, word motion, deletion | the shadow is derived, not read | `LineEditor` |
| Completion (`completion/`) | four caches | complete R names, namespaces, packages, paths, programs | answers older than the session | `Completer` |
| Start-up and selection of R (`main.rs`, `app/setup/`, `app/resolve.rs`, `external/rig.rs`, `repl/shell.rs`, `arf-libr/src/sys`) | environment, terminal mode | resolve, exec, load R, restart, switch | an image inherits what the last one exported | `RSource`, `StartUp` |
| Pagers, history browser, markdown (`pager/`) | indices into lists; stacks of the renderer | scroll, filter, select, delete, resize, render | lists change under the indices | `HistoryBrowser`, `Pager`, `Pages` |
| Configuration, formatter, highlighting, vignettes, argument parsing | settings | text in, text out | mostly pure | not modelled, or their effect only |

What makes them correct:

- *server and operations*: every request is answered; its code runs at most once; the answer is
  true; nothing runs over typed text, inside another evaluation or behind a shell or pager;
  output goes to the client whose code printed it;
- *headless*: the same promise, an ordered record, a shutdown that ends;
- *session files*: a live session is listed, a dead one is not, no process takes another's place;
- *client*: the exit code and the message tell what has become of the request;
- *command lifecycle*: each command's outcome is recorded once, on its own entry, and only
  failures are forgotten;
- *history*: no entry is lost, repeated or overwritten by an import; an export is whole or not
  there; a search misses nothing that was there all the time;
- *interrupts*: an interrupt ends the command it was meant for and jumps through no Rust frame;
- *start*: the R that runs is the one that the documented precedence names, after any number of
  images;
- *screens*: what is marked, deleted, offered or shown is what it says.

`PROJECT.json` lists every component with its state of modelling, and the hazards at the lines
where they bite.

## The modules

Of the IPC:

- `IpcTransport`: the server thread, the mpsc queue and the oneshot channels, with time as an
  action (`Elapse`) that may come at any moment after a request was sent. It has no next-state
  relation of its own.
- `IpcRepl`: the interactive main thread composed with `IpcTransport`. R, the terminal user
  and the editor are the environment.
- `IpcHeadless`: the headless loop composed with `IpcTransport`.
- `IpcPromise`: what a client may rely on, with three variables (what was sent, what each
  answer means, how often each code ran). Both main threads are shown to implement it.
- `IpcSessions`: processes on one file system that start, stop, exit, crash and exec, and a
  client that lists and connects.
- `IpcClient`: one command of `arf ipc` from its arguments to its exit code, and the server's
  side of its connection, read by read.
- `EvalPolicy`: the walk over the syntax tree against what R calls when it evaluates the code.

Of the history:

- `CommandLifecycle`: the life of a line in the two history stores. The line editor saves it
  and leaves a receipt, the callback finalizes the row, awaits its outcome, records it, and may
  forget it. It models the same callback as `IpcRepl` with other state: a client's code arrives at
  the command prompt only, which is what `IpcRepl!RunsOnlyAtCommandPrompt` shows.
- `HistoryImport`, `RadianHistory`: imports and exports on shared databases; the line reader of
  radian's format.
- `HistoryShared`: a store that others write between two calls; `HistorySearch` (a client's
  query, page by page) and `HistoryBrowser` (the browser) extend it.

Of the console:

- `ConsoleIO`: R's thread, the Ctrl+C handler's and the spinner's.
- `LineEditor`: keys, the events returned for them, the shadow and reedline's buffer.
- `RSource` (pure: which R is selected in a world) and `StartUp` (the chain of images).
- `Completer`: Tab, its caches and what the session has meanwhile.
- `ReplLoop`: what a line does at the prompt, and what the prompt tells.
- `Pager`, `Pages`: the screens, and the rendering of documents.

Parts that share no state are checked in one run each: `Console` and `HistoryTools` have a
variable for the part, chosen in the initial state, and a next-state relation whose disjuncts are
those of the parts; the variables of all other parts keep a dummy value. Each part has its own
`...Spec` and can be checked alone. `Console` holds io, editor, start, lifecycle, completer, loop,
pager and pages; `HistoryTools` import, radian, browser, search, client and policy. The modules
that end in `MC` give constants their values; those that end in `Proofs` have the theorems about the
module they are named after (`ConsoleProofs` is
about five parts of `Console`: `ReplLoop`, `StartUp`, `Completer`, `Pager` and `LineEditor`;
`CommandProofs` about two more, `CommandLifecycle` and `ConsoleIO`; `PagesProofs` about the last one;
`HistoryToolsProofs` about the six of `HistoryTools`). `Inductions` has what these need of
induction, with sets of numbers in the place of predicates: a fold over a sequence runs through
its elements one by one, and a function is well defined by a rule that looks at lower values only.

### How the state corresponds to the code

Of the IPC:

| Model | Code |
|---|---|
| `conn[r]` | the connection task of a request: not yet there, parsed, in `timeout(.., reply_rx).await`, finished |
| `slot[r]` | its oneshot channel: `open`, holding a response, or `dropped` with its sender |
| `due` | requests whose timeout has elapsed; for a visible evaluate, also the deadline of `setup_visible_eval`, which starts later |
| `queue`, `receiver` | the mpsc channel and `IPC_RECEIVER` |
| `pendingOp`, `visible`, `atPrompt`, `inAlternateMode`, `breakSignal`, `sendAllow` | the statics of the same meaning |
| `current` | the operation a handler has taken and holds on its stack |
| `capture`, `captured` | the IPC capture is on; whose output it has collected |
| `pc`, `prompt`, `running` | where the main thread is, the `PromptKind` of the call, whose code R evaluates |
| `ran` | history variable: how often the code of a request was handed to R |

Of `CommandLifecycle`:

| Model | Code |
|---|---|
| `history`, `nextId` | the rows of the R and the shell database by id; a row has its exit status, its `meta_command` flag, and what was entered, at which prompt, by whom |
| `context` | `pending_history_context` |
| `hadError`, `lastFailed` | what `command_had_error` says; the `{status}` of the prompt |
| `sponge`, `forget` | `SpongeQueue`, newest first; the `history_forget` section of the configuration |
| `pendingInput` | `PENDING_INPUT` of `arf-libr`: pieces of a long line that R has still to read |
| `pc`, `prompt`, `shell`, `evaluating` | in R, in the input loop, past `should_exit`, ended; the `PromptKind`; the editor; whether R is inside a command |
| `erred`, `completed`, `erased` | history variables: whether the running code has raised an error, the outcomes in the order they were recorded, the rows the user deleted |
| `faults`, `stray` | how many store calls failed, how many errors came from code outside commands |

A call of the callback up to its input loop is one step, a line the editor returns another; no
other thread writes this state. In a handler at most one call of a store fails: save, finalize,
status or deletion (at the final cleanup, any of the deletions).

A request is its kind: a silent evaluate, one the policy denies (`denied`), a visible one, a
user input, session, history, shutdown, one with invalid parameters, or bytes that are no
request. Replies are their variants; where the code uses one error code for different events
(the deadline of a visible evaluate has the code of `R_BUSY`) the model keeps the events apart,
as the messages do.

Steps are as large as what no other thread can see inside. The main thread's `Drain` handles one
request; `approve_user_input` is three locations, because the server's timeout may fall between
its check of the reply channel and the execution (`approving`, `approved`, then `Inject`).
`stop_server` is two: what it settles itself, and the join of the server thread. A silent
evaluate is two steps as well; R's console asks nothing of the terminal meanwhile, since
a nested `ReadConsole` finds `REPL_STATE` borrowed and returns end of file. (The comment on
`run_silent_eval` says that it would block; the callback's early return says otherwise.)

`EnterBeatsBreak` stands for something the sources do not decide: whether reedline, once its
idle callback has raised the break signal, may still return a line from a key it has already
read. Every property of `repl_safety` holds either way. The two of `repl_promise` are checked
for an editor that looks at the signal first.

Of the other modules, at the head of each of which `VARIABLES` says what every variable is in the
code:

| Module | Main state | Grain of a step |
|---|---|---|
| `IpcSessions` | `proc[p]` (where a process is in start, stop, exit or exec), `handle`, `listening`, `atexit`, the files `sock`, `file`, `pidFile` with who wrote them, `halfWritten` (nobody could), `client` | one system call that another process can see |
| `IpcClient` | `kStage`, `kUnsent`/`kWire`/`kRead` (a request in pieces on its way), `kServer`, `kAnswer`, `kBack`/`kGot`, the clocks `kWaited`, `kIdle`, `kLate`, `kExit` | one read, write or tick |
| `EvalPolicy` | `evalPolicy`, `evalCode`, `evalVerdict` | one validation |
| `HistoryImport` | `source`, `history`, `job[j]` (a process with what it has read), `output`, `temp` | one transaction or file operation |
| `RadianHistory` | the lines read, the pending entry, `entries` | one line |
| `HistorySearch`, `HistoryBrowser` | `rows` of the store, pages read; `bEntries`, `bFiltered`, `bCursor`, `bScroll`, `bChosen` | one hold of the store's lock; one key |
| `ConsoleIO` | `stack` (calls in progress on R's thread), `awaiting`, `flag`, `handler`, `spinner`, `sink`, `echo` | what another thread cannot see inside |
| `LineEditor` | `eShadow`, the real buffer, the keys read and not yet handled | one key parsed, one event handled, one redraw |
| `StartUp` | `env`, `snapshot`, `echoes`, `image`, `world` | one stage of an image |
| `Completer` | `session` (what exists), the four caches with their ages, `offered` | one Tab, one change, one tick |
| `ReplLoop` | the prompt's record, `raised` (the error flag that R's option sets), `shellMode`, the directory and its stack, reprex and format; history: `account` of what was entered last, `overheard` | one line, one error |
| `Pager`, `Pages` | indices, offsets and sizes; the renderer's stacks and lines; history: `mAhead`, what a table went ahead of | one key or resize; one parser event |

What they abstract:

- `IpcClient`: a request is a header, a blank line and a body in pieces of one size, and a body
  is whole JSON or none. Time limits are small numbers in the order of the code's; `Lateness <
  Spare` says that the server's thread lags by less than the buffer that `arf ipc eval` adds.
  Other programs on the socket may send no length, raw JSON, a notification or no JSON.
- `EvalPolicy`: programs are trees two levels deep over two names. That an identifier may
  force a promise is accepted, as the code's comment says.
- `HistoryImport`: the update of one row and its `more_info` is atomic; a file's entries, their
  time, mode and metadata are values that matching and repair tell apart.
- `ConsoleIO`: a chunk is whether it ends a line; a frame of the spinner is whether it is on
  the screen.
- `LineEditor`: characters are graphemes, what a menu takes of Left and Right and where words end
  are left open; reedline is external and modelled from the events arf returns to it.
- `RSource`, `StartUp`: seven version variables are one; a version specification is the set of
  versions it matches; the world changes only while R runs.
- `Completer`: names are sequences of marks; scores and order, highlighting and quoting are
  left out; ages are capped.
- `ReplLoop`: a duration below the threshold is not distinguished from none; offers of Tab are
  followed to depth three. An error counts if it reaches the handler that arf puts into R's option
  `error`; that the user replaces this handler is not modelled. The handler cannot tell whose error it
  is (`CodeFails`, `OtherCodeFails`).
- `IpcSessions`: creating the PID file may fail, and so may writing it once it is created
  (`PidFileFails`); registering the atexit handler and removing a file that is there succeed.
- `Pager`, `Pages`: a text is a number in reading order; colours, the clipboard and the order
  of fuzzy scores are left out; wrapping and table widths are operators: an input is chosen in the
  initial state, and what they make of it is part of `PagesKept`. A row of a table is one line with each cell
  once: the lines of a cell that is wrapped or has breaks, which stand beside those of its neighbours, are
  not modelled.

## The runs

| Run | Instance | What it shows |
|---|---|---|
| `repl_safety` | 2 requests of 4 kinds, `EnterBeatsBreak = TRUE`, symmetric | `CaptureExclusive`, `BusyWhileInHand`: one owner of the capture, nothing accepted while an operation is in hand; `ReplyHasOneHolder`: no reply channel is lost, overwritten or left behind by a stop; `UserUndisturbed`: client code never runs over typed text nor behind a shell or a pager |
| `repl_promise` | 2 requests of 6 kinds, `EnterBeatsBreak = FALSE`, symmetric | `KeepsPromise`: the refinement of `IpcPromise`; `RunsOnlyAtCommandPrompt`: requests see R idle only at its top-level prompt, and run only there |
| `repl_live` | 2 user inputs, fair | `EveryRequestAnswered` although R and the user may do nothing for ever; `PendingOpTaken`: the break signal does its work |
| `headless` | 2 requests of all 9 kinds, fair | `KeepsPromise`, `RecordedBeforeNext`, `ShutdownCompletes`, `EveryRequestAnswered` without any timeout |
| `sessions` | 3 processes (an interactive and a headless one share a socket path and a PID file, another headless one has a reused PID), 2 images each, 1 client | `ListingTellsTruth`: what serves is listed, what is listed serves, or is being stopped; `RightSession`; `NothingLeftBehind`, but a PID file that could not be written; `PidFileRemovedByItsWriter` |
| `console` | eight parts, below | `NoJumpThroughRust`, `InterruptsItsOwn`, `SpinnerOutOfTheWay`, `LinesUnderTheirSource`; `ShadowExact`; `RightR`, `SwitchStartsClean`; `OutcomesRight`, `ForgetsFailuresOnly`, `MetaFlagOnOwnRow`; `CatchesUp`; `PromptTells`, `OfferedIsAccepted`; `ScreensHold`; `PagesKept` |
| `history_tools` | six parts, below | `CountsTellTruth`, `OnlyFillsGaps`, `OutputWhole`; `EntriesAreBlocks`; `ScreenTellsTruth`; `AnswerComplete`; `ClientTellsTruth`; `OnlyListedRuns` |
| `busy_evaluate` | 1 evaluate, fair; violated | `BusyEvaluateRejected`: the documentation's "rejected immediately, not queued" |
| `timed_out_send` | 1 user input, fair; violated | `TimedOutNeverExecuted`: the comment on the approval's sender check |
| `client_commands_kept` | 2 lines, delay 1; violated | `ClientCommandsKept`: the documentation's "does not apply to commands sent via IPC" |
| `restart_pid_file` | as `sessions`; violated | `RestartComesBack`: `:restart` restarts arf |
| `echo_after_restart` | as the start part of `console`; violated | `EchoRestored`: the guard's "restore the original mode on exit" |

`console`:

- *io*: 2 commands, 2 presses of Ctrl+C, 4 calls deep, 2 writes. An interrupt ends the command
  during which Ctrl+C was pressed, except for the documented late handler, and never jumps out
  of arf's own frames; the spinner never draws over a prompt; each line of a script's output stands
  under the expression that wrote it. Two presses give one that is late and one that is not, and the
  second command is the one that a late press may hit.
- *editor*: `:`, a quote and `;` typed in batches of 2 after texts of 2 characters, with 1
  event that reedline handles its own way. As long as nothing has made the shadow uncertain, it is
  the buffer. The rules look one character to either side of the cursor.
- *start*: 3 versions of R (and one that rig does not know), 27 worlds, 10 launches, 3 arguments
  of `:switch`, 1 change of the world. `RightR` compares the R that runs, through both images of a start,
  with the documented tiers (`TierR`, `TierName`), written down apart from the code's functions, and with
  the descriptor of `arf r resolve`; `SwitchStartsClean` that `:switch` leaves nothing of the old R.
- *lifecycle*: 3 lines, 1 mishap, 1 piece more; forgetting on exit and with delay 1
  (switched off, it is what it is on exit before the exit; `delay` 0 is left to the proof). A
  recorded status is that of the command on its own row, every command has one, nothing else has;
  the sponge forgets what is due, each in time, and nothing else; finalization hits the row it was meant
  for in its own store. Three lines are enough: a delay of 1 needs a failed command and one that
  follows it, and a nested answer, a continuation, a meta command, a clear or a line of the other
  editor can come before, between or inside them. No handler looks at an earlier mishap.
- *completer*: sessions and lines of `CompleterMC` (`:::` is left to
  `::`, which the code treats alike, under a key of its own), a lifetime of 2 ticks. After the caches have
  aged, an answer is what R would say now (`CatchesUp`); its guard names the exceptions: answers cut
  by the time limit, program names, and a cache filled for another scope or before the last change.
- *loop*: 1 directory, a stack of 1, one width and an unreadable one, three starts, every meta command. The
  prompt tells of the last command and no other, a failure always, a success unless code of no command
  has failed since the prompt before; whatever Tab offers is accepted. Directories and widths are in the
  model because meta commands that fail half way must leave the prompt's record alone; no property
  tells two directories apart.
- *pager*: 4 terminal sizes, queries of 2 letters, at most 4 of 5 topics. The selected row is on
  the screen and inside the list, offsets are in range, code styles are those of the line's block.
- *pages*: documents of 2 texts, 5 starts of parts, breaks or rules, 5 open parts; every text is there once,
  in reading order but for those that a table in a list item goes ahead of, and under its own marker. Five
  are what it takes to put a text into a cell of a table in an item: list, item, table, head, cell. Wrapping and table widths are checked over the inputs of `PagesMC`:
  lines of 4 characters on pages of no to 3 columns, tables of 3 columns that are too wide.

`history_tools`:

- *import*: 2 jobs, each an import or an export, 1 write of a session, 1 failing call.
  An import only fills gaps in rows of its entry, an import repeated inserts nothing, a dry run
  tells what the import does, and one that ended well has lost nothing; an export is whole or
  not there. Two jobs and a writer are all that can be between a read and the write that rests on it.
- *radian*: files of 5 lines of every kind. Entries are blocks, and nothing carries over.
- *browser*: lists of up to 3 of 4 rows, 3 heights (too small, 2 and 3 rows), 1 deletion by another session. The rows that are deleted are those
  that were chosen, the count in the dialog is theirs, the cursor stays in view.
- *search*: pages of 2, limits 0 to 3, 1 deletion and the insertions that 4 rows allow. The
  answer is the newest matching rows, and lacks none that was there all the time.
- *client*: limits shorter and longer than the server's bound, 1 session that dies or appears.
  `ClientTellsTruth` is three claims: exit codes tell who failed; a request is not
  taken for a broken one because of how it was cut; where the client adds its buffer, it never
  gives up before the server does.
- *policy*: the programs, allowlists and policies of `HistoryToolsMC`. Under a restricted policy
  only listed calls run; plain code that calls nothing else is let through.

In `repl_*` and `headless`, two requests are enough for the interactions that exist: the main
thread holds one operation at a time and looks at a second only to refuse it, to queue it or to
drop it, and the properties about several requests relate two. The user's actions are unbounded;
the only bound is the number of requests, each of which is sent once. A retry is a second
request. Symmetry is used only where the run checks no liveness. Deadlock is not checked where
the system really ends: in `sessions` all processes may have left, in `console`, `history_tools` and
`echo_after_restart` the session, screen or command may be over.

### The findings

*Evaluates that arrive while R is busy are queued.* `docs/ipc.md` says they are rejected with
`R_BUSY` and not queued. `dispatch_request` queues them without looking; the queue is read only
from the editor's idle callback, that is when R is idle again, and then the request is accepted.
`R_BUSY` is in fact sent only while an approval is in progress, at a continuation prompt, or at a
prompt of the running code.

*A send can run after its client was told that it timed out.* `approve_user_input` checks the
channel, the caller runs the code a few steps later. The code comment claims more than the
check can give. `KeepsPromise` accepts it, because a timeout leaves the outcome open.

*Failed commands of clients are forgotten.* Both places that inject a client's code set the
history context of a typed command, and the sponge queue does not ask who a row belongs to.

*A session with `--ipc-pid-file` does not survive `:restart`.* exec runs neither `stop_server` nor
the atexit handler, the new image finds the file of the old one, and gives up.

*The echo stays off after `:restart` and the end of the session.* The new image reads the mode the
old one left and takes it for the original.

Divergences that a single line of the code shows have no run:

- `on_exit_only` purges only if `run_r_mainloop` returns, which other comments say it never does
  (`docs/configuration.md:813`); a running command is in the results of `arf ipc history`
  (`docs/ipc.md:496`); the delay of the sponge counts all commands, not the failed ones
  (`docs/configuration.md:803`).
- `arf ipc send` waits as long as the server, so that it gives up first and exits with 2, not 4
  (`docs/ipc.md:139`); 2 is also the code when a read times out or a connection is reset after
  the request was sent, and perhaps run; the answer to a request that is too large is lost to a reset.
- A selected R without a shared library is silently passed over for the one on `PATH`, while
  `arf r resolve` names the selected one; `:restart` starts another version when rig's default or
  the directory's files have changed, with `R_DOC_DIR` and `R_LIBS_USER` of the old one.
- The cache of the R completer that answers longer tokens has no time limit and no scope;
  package names cached when R timed out answer every longer token. In shell mode `:restart!` and
  `:switch!` are offered although `:restart` and `:switch` are not.
- After `:help` is recalled with Up, `;` submits `:help:shell`, as the shadow is not marked uncertain.
- Text that is typed ahead during a visible evaluate is captured for the client (`ipc/mod.rs:276`).
- `:cd` whose `getcwd` fails after `chdir` reports an error although the directory has changed.
- In rendered pages, the URL of a link in a table cell is pushed outside the table, and in a tight
  list item a code block or quote that follows is written on the item's own line. A table that follows such
  an item's text, without a blank line, is written ahead of that text: `Tag::Table` does not flush the
  current line, and `render_table` writes its rows past it.
- When the PID file is created but cannot be written (`pid_file.rs:15-24`), the server is stopped and the call
  fails (`main.rs:475-478`), but the file stays, so that every later start with that path fails.

What `OwnOutcome` cannot say is that a recorded failure always was one: an error in an event
handler, or in the printing of a silent evaluate's value, while a line is being read sets the
same flag and is counted against the next command. The property claims it as long as there was
no such error (`stray = 0`). Likewise `PromptTells`: the prompt never hides a failure, and shows a success
as a failure only if there was such an error since the prompt the command was typed at (`overheard`).

## Fairness

`IpcRepl!FairSpec`: weak fairness of each request's server steps (`Server(r)`: a task of the tokio
runtime), of its clock (`Clock(r)`: time passes), and of `MainRuns`, the steps the main thread
takes by itself once control is in arf. `SilentDone` is not among them, nor is anything R, the
user or a client does: R may evaluate for ever. The idle callback is not assumed either.
`IpcHeadless!FairSpec` has no clock: no timeout need ever elapse. It assumes that evaluations
end (`Evaluated` is a main-thread step), without which a headless shutdown cannot complete, as
only the head of the loop looks at the flag. Requests are finitely many: an endless stream of
them would keep `headless_poll_and_process` in its inner loop and postpone a shutdown for ever.
All other modules claim safety only and assume no fairness. The assumption on time in
`IpcClient`, that the server's thread lags less than the client's buffer, is a bound of `Lateness`.

## What is proved

Every theorem is about the module's own specification, with all constants left open: any number of
requests, processes, clients, lines, commands, presses of Ctrl+C and chunks of output. What it rests
on are the module's own named assumptions about its constants, which the runs evaluate, and
nothing else. The bounds (`MaxMishaps`, `MaxImages`, ...) are constants too, so a theorem holds for every
value of them. Each invariant below was checked with TLC on the bounds of the module's run before it
was proved; each proof has been seen to fail, in the lemma where it should, when a guard or an
assignment it is about is taken out of the model.

**`IpcReplProofs`** (any set of requests, finite or not, any kinds, either value of `EnterBeatsBreak`;
from `TransportAssumption` and `ReplAssumption`):

- `TypeCorrect`: `TypeOK`.
- `CaptureIsExclusive`, `BusyInHand`: `CaptureExclusive` and `BusyWhileInHand`. `CaptureExclusive` alone
  is not inductive: that nothing is pending while a visible evaluate runs follows from `atPrompt`
  being false as long as an operation is in hand or a client's code runs, and from the order of
  the two halves of a poll. `BusyWhileInHand` says so. The step of acceptance is the heart of it
  (lemma `AcceptedAtPrompt`).
- `ReplyOwned`: `ReplyHasOneHolder`, with the former two as its strengthening (`HolderInv`). Each step
  either keeps the holders of all channels, moves one, or releases it and answers it; the lemmas
  `HolderQuiet`, `HolderMoved`, `HolderReleased` and `HolderDropped` are these four ways, and
  `QueueAppend`, `QueueTail` say what the queue does.

And on top of these, about a request as its client and the terminal's user see it:

- `SessionKeepsPromise`: `Spec => Promise!Spec`, the refinement of `IpcPromise`. The mapping needs to know
  how often the code of each request has run: `CountsInv` relates the count to where the request is
  (not at all while its connection is being parsed or it waits in a queue, once when R has been given
  it), `AnswersInv` relates what lies in a reply channel, or has been answered, to the count. Each effect a
  step can have is one lemma (`PromiseKept`, `PromiseRun`, `PromiseLost`, `PromiseAnswer`,
  `PromiseAccept`); each step of the code is one of them or a stutter.
- `UserIsUndisturbed`: `UserUndisturbed`. `UserInv` carries what was looked at when the request was
  accepted to the point where its code is given to R, the three steps of an approval between them.
- `OnlyAtCommandPrompt`: `RunsOnlyAtCommandPrompt` **for `EnterBeatsBreak = FALSE` only**: with the other value it
  is false, as `R_IS_AT_PROMPT` outlives the prompt; the run that checks it has that value too.

**`IpcHeadlessProofs`** (from `TransportAssumption`, `HeadlessAssumption`): `RecordedInOrder`
(`RecordedBeforeNext`) and `HeadlessKeepsPromise`, the same refinement for the other main thread. Here
`HandInv` says which request the loop has in hand at each place and that none is in the queue twice;
counts and answers are as above, with the entry that is still to be written.

**`CommandProofs`**, about `CommandLifecycle` (any configuration of `history forget`, any number of
failing calls of a store; from `LifecycleAssumption`): `LifecycleTypeCorrect`, `OutcomesAreRight` (`OutcomesRight`),
`ForgetsOnlyFailures` (`ForgetsFailuresOnly`) and `MetaFlagOwned` (`MetaFlagOnOwnRow`). The invariant has
these parts:

- `FlowInv` ties the context and the error flag to the place in the loop;
- `IdsInv`: an id is given once, and is in the store, erased or forgotten, and one outcome at most is
  recorded for it;
- `SettledInv`: every command but the awaited one has its status, unless a call has failed;
- `QueueInv`: entry `j` of the sponge queue is the id of the command completed `j`-th last, if that one
  failed; it is as long as the delay, or as the list of all completed commands. Without it nothing
  can be said of what falls out of the queue.

What a line, an outcome, a rejection and the cleanup do to the stores is said once each
(`LineEntered`, `OutcomeRecorded`, `CleanedUp`), the preservation of each part is proved from these.

About `ConsoleIO` (from `ConsoleIOAssumption`): `ConsoleTypeCorrect`, `JumpsOutOfRCodeOnly`
(`NoJumpThroughRust`), `SpinnerIsGone` (`SpinnerOutOfTheWay`), `LinesStandUnderTheirSource`
(`LinesUnderTheirSource`), `InterruptsHitTheirCommand` (`InterruptsItsOwn`). The state is a stack of calls of any
depth, so the invariant says which frame may stand on which (`LegalInv`), that the gate counts
exactly the calls of `r_read_console` on it (`GateInv`, a cardinality), that signals are suspended where
Rust frames would be jumped over (`SuspendInv`), what the spinner's thread is doing (`SpinnerInv`), what a
script's sink holds (`EchoInv`), and that a press that is pending belongs to the command running or
about to be read (`FlagInv`). Every action pushes, pops, replaces, restarts or empties the stack, and one lemma
for each of these (`LegalPush`, `ScriptPop`, ...) is all the actions need.

**`IpcSessionsProofs`** (any number of processes and clients, any reuse of PIDs, any sharing of the custom
path and the PID file; from `SessionsAssumption`): `SessionsTypeCorrect`, `TheListIsTrue`
(`ListingTellsTruth`), `LeavesNothing` (`NothingLeftBehind`), `ReachesItsSession` (`RightSession`),
`PidFileIsItsWriters` (`PidFileRemovedByItsWriter`). `SessionsAssumption` has a conjunct these proofs
need: no process called with `--ipc-bind` or `--ipc-pid-file` is plain, as `main.rs:139` refuses
those options without `--with-ipc`. The parts of the invariant:

- `OneOfEachPid`: of two processes with one PID one is not running, so that the session file of
  a PID has one writer at a time (`OthersFiles`);
- `PastInv`: whatever lies on the disk was written by an image that has been started: an image that starts
  finds nothing of its own;
- `PathInv`, `SocketInv`: a process that serves has its own socket file, or has been robbed of it in one of
  the two races, and a socket file is its binder's up to the unlink;
- `FileInv`: the same for the session file, from its truncation to the end of the stop;
- `PidFileInv`: the atexit handler is armed only while the PID file is the process's own, a process
  that wants one has it whenever it gets as far as the cleanup, which removes it by its path, and a process
  that leaves has none unless the file is half written;
- `ClientInv`: what a client is about to remove is a dead process's.

That the system does not give out a PID between a client's `kill(pid, 0)` and its `remove_file` is a
guard of `Launch`, and `ClientStep` cannot be proved without it.

**`ConsoleProofs`**, about `ReplLoop` (any starts, directories, terminal widths and any meta commands a
user may type; from `ReplLoopAssumption`): `LoopTypeCorrect`, `PromptIsRight` (`PromptTells`) and `TabIsAccepted`
(`OfferedIsAccepted`). `PromptInv` says, for each place in the loop, how the clock, the context and R's
error flag go with what was entered last: it has to hold in R and at nested prompts, where nothing
is shown, for the next command prompt to be right. Its part `NotedInv` says that the flag is up exactly if
the running command, or code that no command called, has failed since the last command prompt. `TabIsAccepted` needs no invariant: it compares
the tables of `completion/meta.rs` with the dispatch of `repl/meta_command.rs` for lines of one,
two and two and three words (`OneWord`, `TwoWords`, `ThreeWords`), in every state, reachable or not.

About `StartUp` (any worlds, versions, launches and `:switch` arguments; from `StartUpAssumption`):
`SwitchIsClean` (`SwitchStartsClean`), `ReexecsOnce` (`ReexecOnce`, a conjunct of `RightR`) and
`RightRStarts` (`RightR`; from `SourceAssumption`, too). An image has nothing of the one before it but the environment, so the invariant says what the environment holds
at each stage of a start:

- `OriginalKept`: the variables as they were before the first image are in the snapshot while an image
  is past `capture_startup_env`, and between two images in the carrier or still in the environment
  itself;
- `SwitchInv`: in an image that `:switch` started, no `R_HOME` is taken from the command line, and from the
  selection on `R_HOME` is the version asked for and the library path that version's library or empty;
- `OnceInv`: an image that has replaced another one finds the same library, and finds it on the path.

- `SelectedInv`: what `setup_r` has selected is what a selection now would be, and `R_HOME` is the home
  selected, or for `path` as the image found it. The selection itself is a fold over the providers of
  overrides (`OverridesAre`: what comes out is the first usable one, or an R that is not there, and
  the ones before it leave nothing behind); `SelectionRight` compares it with the documented tiers,
  and `RightRIs` adds the dynamic loader's search and `arf r resolve`.

`StartUpAssumption` has a conjunct for the first of these: a carrier that is absent or unreadable is
none of the values that a carrier can bring.

About `Completer` (any session, names, lines, settings and lifetimes; from `CompleterAssumption`):
`CompleterTypeCorrect` and `CompleterCatchesUp` (`CatchesUp`). Its invariant measures the age of what is
kept against the time for which the session has been the same:

- `PackagesInv`, `ExportsInv`: what was read fewer ticks ago than the session last changed tells of the
  session as it is;
- `FuzzyInv`: suggestions were made from exports that may have been as old as they get, so they are right
  only a whole `Lifetime` later (this is why `CatchesUp` waits for the sum of the two);
- `CacheInv`: R's answer is what R would say to the token now, if it was read from packages that were
  right and the session has not changed since;
- `OfferInv`: `CatchesUp` with the offer as one expression of settings, line and session.

`CachedAnswer` is the lemma about typing on: what R said to a token, filtered by a longer one, is what R
says to the longer one, if what was added are characters of identifiers (`ExtensionChain`). It takes
a conjunct of `CompleterAssumption`, that no name of a package contains `$` or `::`.

About `Pager` (any topics, queries, texts and sizes of the terminal; from `PagerAssumption`):
`PagerTypeCorrect` and `ScreensAlwaysHold` (`ScreensHold`). The invariant keeps the browser's half true while
the pager is open inside it, and the pager's offset within its text:

- `ListInv`: `ListHolds` wherever the screen is, as neither a page nor a change of size touches the
  list; what the filter finds are topics that match, and never more than are kept (`ShownMatches`);
- `PageInv`: the offset is that of a line of the text, at the width the text was last wrapped for;
- the lemma `StyleGoesOn`: the style after some lines and then some more is that after all of them. It
  is why `prepare_render`, which reads the schema from its start, and the lines of the frame, each of
  which moves the style on, together give every line the style of its own block (`DrawHolds`).

Both have the hypothesis `Readable`: the terminal has three rows at least, and a text has a line. With
two rows there is no room between header and footer, End scrolls to the line after the last, and a
resize that wraps nothing anew keeps that offset: the page then stays empty on a larger terminal until
it is scrolled up. TLC shows it if a size of two rows is added to `MCTerminals`.

About `LineEditor` (any text, keys, histories and batches; from `EditorAssumption`): `ShadowIsExact`
(`ShadowExact`) and `NothingUnderflows`, that the shadow's cursor is not behind its end while keys are
parsed, without which `update_from_edit_command` takes a larger number from a smaller one (`mode.rs:351`).
arf follows an event when a key is parsed, reedline handles it later, so the invariant is about what is
still to come:

- `Exact`: handling the keys that have been parsed, one after the other (`Course`), leads from the
  buffer to the shadow, and none of them leaves open what it does. The lemmas `FollowedExactly` and
  `EventFollowed` say that the shadow follows an event as reedline handles it, for every event the rules
  return, and `CourseGrows` and `CourseGoesOn` that parsing one adds it at the end and handling one
  takes it from the front;
- `FollowsKeys`: a shadow that calls itself certain is exact, unless the line has just ended and the
  new one has not been drawn; then no key is parsed;
- `PendingTold`: keys whose effect the shadow does not follow have made it uncertain, or are the
  exceptions that `ShadowExact` names (`eBlind`); Enter is the last key of its batch;
- `InBounds`: the cursor is behind the end only between the end of a line and its drawing.

`EditorAssumption` says that what is typed and recalled are texts of the characters that the rules
tell apart.

**`PagesProofs`**, about `Pages` (documents of any length, parts nested to any depth, any lines and tables;
from `PagesAssumption`): `PageIsKept` (`PagesKept`). The writer's half has one invariant, `DocumentInv`:

- `OpenInv`: what is open is nested as the parser nests it (`Nested`), and each flag, each counter
  and the stack of styles say what of it is open. The end of a part needs it to know that what is taken off
  is what the part put on;
- `TextInv`: the texts on the lines, then those that a table holds back, then those of a code block,
  are each there once up to the texts read, and in order but for the pairs in `mAhead` (`Tells`); `Held` says
  that rows, cells and code are held back only where their part is open, and that while a table is open
  there are texts on the current line only in a list item. A text that is read therefore comes last of all,
  code goes to the lines as it is when it ends (`CodeFlushed`), and a table swaps places with the texts of the
  line it interrupts (`TableTells`, `TableRendered`), which `mAhead` then has.

That the marks the writer adds of its own, blank lines, flushes and flags say nothing is one lemma
each, about lines in general (`SaysAs`), so that the proof for an action only says which of them it
is made of. The lemmas `FlattenConcat` and `OnlyConcat` are what all of it rests on: flattening a sequence
of sequences, and picking elements, go through a concatenation.

The other half is about operators. `WrapsFit`: `wrap_spans` recurs from a position to a later one, so the
lines from a position are right if those from all later ones are (`FromKeeps`): what comes before the
next position is, but for blanks, on the first line (`FirstCuts`), and that line keeps within the width
or is a single character. `TablesFit`: whatever has been locked, each column that is not has a
column's width of room left (`Roomy`). Each pass keeps that (`LockKeepsRoom`), so in the end the shares are
not zero, and with the remainder spread over the first columns they add up to no more than what is left
(`Spreading`, `SharedFits`). With the width 0, `wrap_spans` gives its input back unwrapped, so of that width
only what is said is claimed.

**`HistoryToolsProofs`**, about `HistoryImport` (any number of imports and exports, any source files,
options and databases; from `ImportAssumption`): `ImportTypeCorrect`, `ExportIsWhole` (`OutputWhole`),
`ImportFillsGaps` (`OnlyFillsGaps`), `SourceIsImported` (`SourceComplete`) and `ReimportIsSafe`
(`ReimportInsertsNothing`), `DryRunIsTrue` (`DryRunTells`) and `CountsAreTrue`, of the three
together, which is `CountsTellTruth`. An import reads both databases
once, at its start, and works on its copy while others write. So the invariant relates copy and
database:

- `KnownBy`: whatever the copy knows is in the database, with at least the values the copy has
  (`Within`), as long as nothing was deleted. What an import takes for a duplicate, or for
  repaired already, therefore is one;
- `TodoBy`: what is left to do is the end of the source file, host name included;
- `DoneBy`: every entry before it has its row, with all it tells, or several rows that match it;
- `SeenBy`: an import begun after another has ended well has found all the entries it looks for, and
  finding is not undone by the rows it writes itself (`mark_repaired`);
- `ForeseenInv`: as long as nobody else has written, what is left to do is the rest of what the dry
  run has gone through, from the tables it had then and with its counts (`Follows`). The dry run is a
  fold over the source file; `DryRunIs` turns it into the sequence of its steps, and each step of
  an import is the next of them (`FollowsOn`);
- `ExportInv`: an export that runs has a temporary file of its own with a table in it.

`ImportAssumption` says what the types of the code say: a database maps both targets to rows, and a
missing text is no text.

About `IpcClient` (any sessions, requests, sizes, cuts and limits; from `ClientAssumption`):
`ClientCodesRight` (two of the three conjuncts of `ClientTellsTruth`) and `ClientTellsTruthAlways`
(all of it). Its invariant:

- `Connected`: what the server has read, what is on the wire and what is unsent are, put together, the
  request, in whatever pieces it travels;
- `Answered`: what the server parses is a whole request, or one whose writer has gone
  (lemmas `BodyIsExtracted` and `BareBodyIsExtracted`: the blank line of a request is where
  `find_http_header_end` finds it); an answer is only there once it has been built;
- `Exited`: what an exit code tells is so, and stays so, as the server's end has come to rest by then;
- `InGoodTime`: the client has waited for no longer than the main thread has been given and the server
  thread was late.

The last needs the hypotheses `Lateness < Spare` and `Lateness < DefaultLimit`: a server thread that
lags by more than the five seconds of `cmd_eval`, or by the five minutes that `shutdown` is given, is
given up on, and TLC shows it for `Lateness = Spare`. Nothing in the code bounds how late a thread
may be, so this is a hypothesis of the theorem and not an assumption of the module.

About `RadianHistory` (files of any length and any lines; from `RadianAssumption`): `RadianEntriesRight`
(`EntriesAreBlocks`). `EntriesAreBlocks` speaks of the file as a whole, the reader sees a line at a
time. `RadianInv` says what it holds in between: the commands, time and mode of the block it is in
(`Holds`), and the entries of the blocks before it, in their order (`Lists`).

About `EvalPolicy` (any trees, allowlists and policies; from `PolicyAssumption`): `ListedRunsOnly`
(`OnlyListedRuns`). The walks of the policy and what R calls are functions that recur over trees;
`ExpressionRule`, `TopLevelRule` and `CallsRule` say that each is well defined, as the trees below a
tree are lower. Then `ValidCallsListed` and `ListedCallsValid` go by the height of a lowest tree that
would refute them. `PolicyAssumption` says which nodes the grammar of tree-sitter-r makes, as far as
the walk relies on it: a call has a function, commas and arguments are only where arguments are, an
assignment is a binary operator.

About `HistorySearch` (any database, limits and page size; from `SharedAssumption` and
`SearchAssumption`): `AnswersComplete` (`AnswerComplete`). `Searching` says that what has been matched is
all that matches down to the last row of the page before, but for rows that were deleted or came after
the request; `PageAdds` that a page goes on from there, and that below a page that is not full there
is nothing.

About `HistoryBrowser` (any rows, filters, scores and heights; from `SharedAssumption` and
`BrowserAssumption`): `BrowserTellsTruth` (`ScreenTellsTruth`). `Selection` ties the cached count and
what the user has chosen to the flags of the entries, whatever filter they were set under, and `Listing`
keeps cursor and filter inside the list. What the database and the filter sort is a set put in an order;
`Ranks` says that this is each of its elements once, the first first.

Model-checked only:

- `EveryRequestAnswered`, `PendingOpTaken`, `ShutdownCompletes`: liveness under fairness, out of
  the prover's reach.
- `ScreensHold` on terminals of one or two rows is not claimed: it does not hold there.

## Not modelled

- Text: of requests, code and replies, of prompts and messages, of configuration files and of
  rig's output; the R parser; argument parsing; the checks of table names and of a self-import,
  which compare strings.
- External programs: R itself, reedline, SQLite, the formatter, the shell; each is an
  environment that may do what the code must expect of it.
- Windows: named pipes, its initialisation of R, its profiles.
- Highlighting, the vignette converter, the clipboard, vi's normal mode, scores of fuzzy matches:
  presentation without state that a property could be about.
- `clear_session_history_id`, which has nothing to clear where it is called; the restoring of the
  terminal's attributes around a password; the count that `:history clear` shows before it
  clears; a read error in the middle of an imported file.
- In `CommandLifecycle`: a history without a database (lines are then recalled from memory, and
  nothing is recorded or forgotten) and rows of other sessions in the same database.
- Errors that R raises inside event handlers outside `R_ToplevelExec`, and in `Rf_PrintValue` of a script's
  value (`object.rs:526`), which jump past arf's frames.
- A script's expression that cannot be deparsed, whose source is then left out (`object.rs:515`): what it
  prints would stand under the source before it. R failing to list a namespace (`r_completer.rs:676`), which
  is cached as an empty list until it has aged.
- In `IpcClient`: invalid parameters of a history request, and the internal errors of a main thread that is
  not there or drops a reply (`server.rs:855`, `901-938`), are one error answer.

## Plan

1. Models: the opening of the databases, and the formatter as a process that fails half way.
