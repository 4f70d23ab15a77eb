------------------------------ MODULE ConsoleIO ------------------------------
(***************************************************************************)
(* The three threads behind the console: R's, which calls r_read_console   *)
(* and r_write_console_ex (arf-libr/sys.rs, sys/output.rs) and is nested   *)
(* in the event polling, evaluations and completions that the line editor  *)
(* makes while it reads (sys/interrupt.rs); the one that runs the Ctrl+C   *)
(* handler (repl/mod.rs); and the spinner's (sys/spinner.rs).              *)
(***************************************************************************)
EXTENDS Naturals, Sequences

CONSTANTS
  NoFlag,      \* R's interrupt flag is 0, and no handler runs
  MaxCommands, \* bound: commands entered, or expressions of the script
  MaxPresses,  \* bound: presses of Ctrl+C
  MaxDepth,    \* bound: calls nested on R's thread
  MaxWrites    \* bound: chunks written

ASSUME ConsoleIOAssumption ==
  /\ MaxCommands \in Nat /\ MaxPresses \in Nat /\ MaxDepth \in Nat /\ MaxWrites \in Nat

VARIABLES
  stack,     \* the calls in progress on R's thread, outermost first
  awaiting,  \* R_AWAITING_CONSOLE_INPUT
  flag,      \* R_interrupts_pending: where the press that set it came from
  suspended, \* R_interrupts_suspended
  handler,   \* a Ctrl+C handler that has seen the gate open
  pieces,    \* PENDING_INPUT holds the rest of a long line
  spinner,   \* SPINNER_THREAD: "none", or its state; and what is on the screen
  sink,      \* where output goes: stderr suppression, capture, reprex settings
  echo,      \* what the terminal shows of a script: its last source, a mixed line
  cmd,       \* the number of the command, or expression, entered last
  presses, writes, \* counters
  unwound    \* history: the calls that an interrupt jumped out of

ioVars == <<stack, awaiting, flag, suspended, handler, pieces, spinner, sink, echo, cmd,
          presses, writes, unwound>>

Top == stack[Len(stack)]
Pop == SubSeq(stack, 1, Len(stack) - 1)
Put(frame) == Append(Pop, frame)
In(k) == stack # <<>> /\ Top.k = k
OnStack(kinds) == \E i \in 1..Len(stack) : stack[i].k \in kinds

\* R code runs: a command, handlers of R's events, a client's silent evaluate, the
\* completer, or an expression of a script.
RKinds == {"eval", "events", "silent", "complete", "expr"}
Running == stack # <<>> /\ Top.k \in RKinds

\* Evaluations made from Rust are inside R_ToplevelExec, where R's jumps end.
Contained == {"silent", "complete", "expr"}

NoSpinner == [slot |-> FALSE, stop |-> FALSE, thread |-> "off", shown |-> FALSE]
Plain == [suppressed |-> FALSE, captured |-> FALSE, reprex |-> FALSE, line |-> {},
          hadOutput |-> FALSE]

\* A session, with or without `reprex` in its configuration, or `arf --reprex FILE`.
IOInit ==
  /\ \/ /\ stack = <<>>
        /\ \E on \in BOOLEAN : sink = [Plain EXCEPT !.reprex = on]
     \/ stack = <<[k |-> "script"]>> /\ sink = [Plain EXCEPT !.reprex = TRUE]
  /\ awaiting = 0 /\ flag = NoFlag /\ suspended = FALSE /\ handler = NoFlag
  /\ pieces = FALSE /\ spinner = NoSpinner
  /\ echo = [source |-> 0, mixed |-> FALSE]
  /\ cmd = 0 /\ presses = 0 /\ writes = 0 /\ unwound = {}

------------------------------------------------------------------------------
(* The Ctrl+C handler, two steps on whichever thread the signal is delivered to. *)

Reading == OnStack({"read"})

\* It looks at the gate, and drops the signal when R awaits input ...
HandlerChecks ==
  /\ presses < MaxPresses /\ handler = NoFlag
  /\ presses' = presses + 1
  /\ handler' = IF awaiting > 0 THEN NoFlag
                ELSE [cmd |-> cmd, atPrompt |-> Reading,
                      late |-> stack # <<>> /\ stack[1].k = "gate"]
  /\ UNCHANGED <<stack, awaiting, flag, suspended, pieces, spinner, sink, echo, cmd,
                 writes, unwound>>

\* ... and sets the flag otherwise. "late" (history): by then R's thread has cleared the
\* flag for the line it reads next.
HandlerSets ==
  /\ handler # NoFlag
  /\ flag' = handler
  /\ handler' = NoFlag
  /\ UNCHANGED <<stack, awaiting, suspended, pieces, spinner, sink, echo, cmd, presses,
                 writes, unwound>>

------------------------------------------------------------------------------
(* The spinner's thread *)

SpinnerPrints ==
  /\ spinner.thread = "print"
  /\ spinner' = [spinner EXCEPT !.thread = "loop", !.shown = TRUE]
  /\ UNCHANGED <<stack, awaiting, flag, suspended, handler, pieces, sink, echo, cmd,
                 presses, writes, unwound>>

SpinnerLooks ==
  /\ spinner.thread = "loop"
  /\ spinner' = [spinner EXCEPT !.thread = IF spinner.stop THEN "off" ELSE "print"]
  /\ UNCHANGED <<stack, awaiting, flag, suspended, handler, pieces, sink, echo, cmd,
                 presses, writes, unwound>>

\* Bug: the signal is raised and nobody waits for the thread.
JoinedUnawaited == TRUE

start_spinner(on) ==
  IF on /\ ~spinner.slot
  THEN [slot |-> TRUE, stop |-> FALSE, thread |-> "print", shown |-> spinner.shown]
  ELSE spinner

\* stop_spinner raises the signal, waits for the thread and clears the line.
signal_spinner == IF spinner.slot THEN [spinner EXCEPT !.stop = TRUE] ELSE spinner
Joined == spinner.slot => spinner.thread = "off"
clear_spinner ==
  IF spinner.slot THEN [spinner EXCEPT !.slot = FALSE, !.shown = FALSE] ELSE spinner

------------------------------------------------------------------------------
(* r_read_console *)

\* R wants a line: its main loop, readline() in code that runs, or askpass, whose prompt
\* has the magic prefix. First the spinner is told to stop ...
ReadLine(ask) ==
  /\ \/ stack = <<>> /\ ~ask /\ cmd < MaxCommands
     \/ Running /\ ~In("complete") /\ Len(stack) < MaxDepth
  /\ stack' = Append(stack, [k |-> "stop", ask |-> ask])
  /\ spinner' = signal_spinner
  /\ UNCHANGED <<awaiting, flag, suspended, handler, pieces, sink, echo, cmd, presses,
                 writes, unwound>>

\* Bug: the flag of a press during the last command survives to the next one.
ClearInterruptKept ==
  /\ In("stop") /\ Joined
  /\ spinner' = clear_spinner
  /\ stack' = Put([k |-> "gate", ask |-> Top.ask])
  /\ UNCHANGED <<awaiting, flag, suspended, handler, pieces, sink, echo, cmd, presses,
                 writes, unwound>>

\* ... and when it has, clear_r_interrupt_pending.
ClearInterrupt ==
  /\ In("stop") /\ Joined
  /\ spinner' = clear_spinner
  /\ flag' = NoFlag
  /\ handler' = IF handler # NoFlag /\ Len(stack) = 1 THEN [handler EXCEPT !.late = TRUE]
                ELSE handler
  /\ stack' = Put([k |-> "gate", ask |-> Top.ask])
  /\ UNCHANGED <<awaiting, suspended, pieces, sink, echo, cmd, presses, writes,
                 unwound>>

\* A password is read without closing the gate: Ctrl+C is to reach the code that asks.
AskPassword ==
  /\ In("gate") /\ Top.ask
  /\ stack' = Put([k |-> "pass"])
  /\ UNCHANGED <<awaiting, flag, suspended, handler, pieces, spinner, sink, echo, cmd,
                 presses, writes, unwound>>

PasswordRead ==
  /\ In("pass")
  /\ stack' = Pop
  /\ UNCHANGED <<awaiting, flag, suspended, handler, pieces, spinner, sink, echo, cmd,
                 presses, writes, unwound>>

\* AwaitConsoleInputGuard::new, and the blank line of reprex before a main prompt.
AwaitInput ==
  /\ In("gate") /\ ~Top.ask
  /\ awaiting' = awaiting + 1
  /\ sink' = IF sink.reprex /\ Len(stack) = 1 THEN [sink EXCEPT !.hadOutput = FALSE]
             ELSE sink
  /\ stack' = Put([k |-> "read"])
  /\ UNCHANGED <<flag, suspended, handler, pieces, spinner, echo, cmd, presses, writes,
                 unwound>>

\* Drop of AwaitConsoleInputGuard
leave_input == awaiting - 1

\* Where R goes on after a line: it evaluates a command, or the caller of readline().
Resumed == IF Len(stack) = 1 THEN <<[k |-> "eval"]>> ELSE Pop
Entered == IF Len(stack) = 1 THEN cmd + 1 ELSE cmd

\* The callback holds the session's state while it runs: called again from R code that
\* runs on its behalf it returns None. A script has no callback.
Script == stack # <<>> /\ stack[1].k = "script"
NoCallback == Script \/ \E i \in 1..Len(stack) - 1 : stack[i].k = "read"

\* The callback returns a line, or the rest of one is there already. A line longer than
\* R's buffer is stored; what has been read of it may hold whole expressions.
ReturnLine(long, spin) ==
  /\ In("read") /\ (pieces \/ ~NoCallback)
  /\ (spin \/ long => ~pieces /\ Len(stack) = 1)
  /\ pieces' = long
  /\ spinner' = start_spinner(spin)
  /\ awaiting' = leave_input
  /\ \/ stack' = Resumed
     \/ long /\ stack' = <<>>
  /\ cmd' = Entered
  /\ UNCHANGED <<flag, suspended, handler, sink, echo, presses, writes, unwound>>

\* End of file for the caller of readline()
ReturnNothing ==
  /\ In("read") /\ ~pieces /\ NoCallback
  /\ awaiting' = leave_input
  /\ stack' = Pop
  /\ UNCHANGED <<flag, suspended, handler, pieces, spinner, sink, echo, cmd, presses,
                 writes, unwound>>

------------------------------------------------------------------------------
(* R code run while a line is read *)

AtEditor == In("read") /\ ~pieces /\ ~NoCallback

\* Bug: handlers run with interrupts as they are.
PollEventsOpen ==
  /\ AtEditor /\ Len(stack) < MaxDepth
  /\ flag' = NoFlag
  /\ stack' = Append(stack, [k |-> "events", old |-> suspended])
  /\ UNCHANGED <<awaiting, suspended, handler, pieces, spinner, sink, echo, cmd, presses,
                 writes, unwound>>

\* process_r_events: the flag is cleared, interrupts are suspended, handlers run ...
PollEvents ==
  /\ AtEditor /\ Len(stack) < MaxDepth
  /\ flag' = NoFlag
  /\ stack' = Append(stack, [k |-> "events", old |-> suspended])
  /\ suspended' = TRUE
  /\ UNCHANGED <<awaiting, handler, pieces, spinner, sink, echo, cmd, presses, writes,
                 unwound>>

\* Drop of SuspendRInterruptsGuard: the flag first, then the suspension.
drop_suspend == Top.old

EventsDone ==
  /\ In("events")
  /\ flag' = NoFlag
  /\ suspended' = drop_suspend
  /\ stack' = Pop
  /\ UNCHANGED <<awaiting, handler, pieces, spinner, sink, echo, cmd, presses, writes,
                 unwound>>

\* A silent evaluate of a client, its output captured; or the completer, its errors mute.
EvaluateSilently ==
  /\ AtEditor /\ Len(stack) < MaxDepth
  /\ stack' = Append(stack, [k |-> "silent"])
  /\ sink' = [sink EXCEPT !.captured = TRUE]
  /\ UNCHANGED <<awaiting, flag, suspended, handler, pieces, spinner, echo, cmd, presses,
                 writes, unwound>>

Complete ==
  /\ AtEditor /\ Len(stack) < MaxDepth
  /\ stack' = Append(stack, [k |-> "complete"])
  /\ sink' = [sink EXCEPT !.suppressed = TRUE]
  /\ UNCHANGED <<awaiting, flag, suspended, handler, pieces, spinner, echo, cmd, presses,
                 writes, unwound>>

\* finish_ipc_capture and the drop of SuppressStderrGuard
Restored(k) == [sink EXCEPT !.captured = @ /\ k # "silent",
                            !.suppressed = @ /\ k # "complete"]

ContainedDone ==
  /\ In("silent") \/ In("complete")
  /\ stack' = Pop
  /\ sink' = Restored(Top.k)
  /\ UNCHANGED <<awaiting, flag, suspended, handler, pieces, spinner, echo, cmd, presses,
                 writes, unwound>>

CommandDone ==
  /\ In("eval")
  /\ stack' = Pop
  /\ UNCHANGED <<awaiting, flag, suspended, handler, pieces, spinner, sink, echo, cmd,
                 presses, writes, unwound>>

\* R looks at its flag. While suspended it leaves it; otherwise it jumps to the innermost
\* R_ToplevelExec, whose caller goes on with an error, or to its own top level.
Target == IF OnStack(Contained)
          THEN CHOOSE i \in 1..Len(stack) :
                 /\ stack[i].k \in Contained
                 /\ \A j \in i + 1..Len(stack) : stack[j].k \notin Contained
          ELSE 0

Interrupt ==
  /\ Running /\ flag # NoFlag /\ ~suspended
  /\ flag' = NoFlag
  /\ unwound' = unwound \cup {stack[i].k : i \in Target + 1..Len(stack)}
  /\ IF Target = 0
     THEN stack' = <<>> /\ UNCHANGED sink
     ELSE /\ stack' = IF stack[Target].k = "expr" THEN <<[k |-> "end"]>>
                      ELSE SubSeq(stack, 1, Target - 1)
          /\ sink' = Restored(stack[Target].k)
  /\ UNCHANGED <<awaiting, suspended, handler, pieces, spinner, echo, cmd, presses, writes>>

------------------------------------------------------------------------------
(* Output *)

\* r_write_console_ex: stop_spinner, then the chunk.
Write(err, chunk) ==
  /\ Running /\ writes < MaxWrites
  /\ stack' = Append(stack, [k |-> "write", err |-> err, chunk |-> chunk])
  /\ spinner' = signal_spinner
  /\ writes' = writes + 1
  /\ UNCHANGED <<awaiting, flag, suspended, handler, pieces, sink, echo, cmd, presses,
                 unwound>>

\* A line goes out; in a script it may come from the expression shown last, or not.
Shown(owners) == [echo EXCEPT !.mixed = @ \/ (echo.source > 0 /\ owners # {echo.source})]

\* The sinks in their order: errors that are muted, the capture, reprex with its line
\* buffer ("text", "newline" or "return"), the terminal.
WriteOut ==
  /\ In("write") /\ Joined
  /\ spinner' = clear_spinner
  /\ stack' = Pop
  /\ LET c == Top.chunk
         mute == (Top.err /\ sink.suppressed) \/ sink.captured \/ ~sink.reprex IN
     /\ sink' = CASE mute -> sink
                  [] ~mute /\ c = "text" -> [sink EXCEPT !.line = @ \cup {cmd}]
                  [] ~mute /\ c = "newline" -> [sink EXCEPT !.line = {}, !.hadOutput = TRUE]
                  [] ~mute /\ c = "return" -> [sink EXCEPT !.line = {}]
     /\ echo' = IF ~mute /\ c = "newline" THEN Shown(sink.line \cup {cmd}) ELSE echo
  /\ UNCHANGED <<awaiting, flag, suspended, handler, pieces, cmd, presses, writes, unwound>>

\* :reprex at the prompt. What is in the line buffer is printed when the mode goes off,
\* and thrown away when it is set again.
set_reprex_mode(on) == [sink EXCEPT !.reprex = on, !.line = {}, !.hadOutput = FALSE]

SetReprex(on) ==
  /\ AtEditor /\ Len(stack) = 1
  /\ sink' = set_reprex_mode(on)
  /\ UNCHANGED <<stack, awaiting, flag, suspended, handler, pieces, spinner, echo, cmd,
                 presses, writes, unwound>>

------------------------------------------------------------------------------
(* eval_string_reprex: a script, one expression after the other *)

ShowSource ==
  /\ In("script") /\ cmd < MaxCommands
  /\ cmd' = cmd + 1
  /\ echo' = [echo EXCEPT !.source = cmd + 1]
  /\ stack' = Append(stack, [k |-> "expr"])
  /\ UNCHANGED <<awaiting, flag, suspended, handler, pieces, spinner, sink, presses,
                 writes, unwound>>

\* Bug: what is in the line buffer after an expression stays there for the next one.
ExpressionDoneUnflushed ==
  /\ In("expr")
  /\ stack' = Pop
  /\ UNCHANGED <<awaiting, flag, suspended, handler, pieces, spinner, sink, echo, cmd,
                 presses, writes, unwound>>

flush_reprex_buffer == [sink EXCEPT !.line = {}, !.hadOutput = @ \/ sink.line # {}]

ExpressionDone ==
  /\ In("expr")
  /\ sink' = flush_reprex_buffer
  /\ echo' = IF sink.line # {} THEN Shown(sink.line) ELSE echo
  /\ stack' = Pop
  /\ UNCHANGED <<awaiting, flag, suspended, handler, pieces, spinner, cmd, presses, writes,
                 unwound>>

\* An error ends the script at once, the mode still on and the line buffer as it is.
ExpressionFails ==
  /\ In("expr")
  /\ stack' = <<[k |-> "end"]>>
  /\ UNCHANGED <<awaiting, flag, suspended, handler, pieces, spinner, sink, echo, cmd,
                 presses, writes, unwound>>

ScriptDone ==
  /\ In("script")
  /\ sink' = set_reprex_mode(FALSE)
  /\ stack' = <<[k |-> "end"]>>
  /\ UNCHANGED <<awaiting, flag, suspended, handler, pieces, spinner, echo, cmd, presses,
                 writes, unwound>>

------------------------------------------------------------------------------
IONext ==
  \/ HandlerChecks \/ HandlerSets \/ SpinnerPrints \/ SpinnerLooks
  \/ \E ask \in BOOLEAN : ReadLine(ask)
  \/ ClearInterrupt \/ AskPassword \/ PasswordRead \/ AwaitInput
  \/ \E long \in BOOLEAN, spin \in BOOLEAN : ReturnLine(long, spin)
  \/ ReturnNothing \/ PollEvents \/ EventsDone \/ EvaluateSilently \/ Complete \/ ContainedDone
  \/ CommandDone \/ Interrupt
  \/ \E err \in BOOLEAN, chunk \in {"text", "newline", "return"} : Write(err, chunk)
  \/ WriteOut
  \/ \E on \in BOOLEAN : SetReprex(on)
  \/ ShowSource \/ ExpressionDone \/ ExpressionFails \/ ScriptDone

IOSpec == IOInit /\ [][IONext]_ioVars

------------------------------------------------------------------------------
(* What the threads may not do to each other *)

\* An interrupt ends R code only: it never jumps out of r_read_console, of the editor
\* below it, or of process_r_events and its guards (sys/interrupt.rs), whenever the
\* handler that set the flag looked at the gate.
NoJumpThroughRust == unwound \subseteq {"eval"}

\* An interrupt hits the command during which Ctrl+C was pressed. The one exception is
\* the documented one: the handler sets the flag after R's thread has cleared it for the
\* next line. A press at the prompt never interrupts the command entered there.
InterruptsItsOwn ==
  [][Interrupt => Script \/ (~flag.atPrompt /\ (flag.cmd = cmd \/ flag.late))]_ioVars

\* When the prompt is shown, a password is read, or a chunk of output has been written,
\* the spinner is neither on the screen nor able to come back (stop_spinner joins it).
AtPrompt == In("gate") \/ In("read") \/ In("pass")
SpinnerOutOfTheWay ==
  /\ AtPrompt => spinner.thread = "off" /\ ~spinner.shown
  /\ ~spinner.slot => spinner.thread = "off" /\ ~spinner.shown

\* In the output of a script every line stands under the source of the expression that
\* wrote all of it, also when R sends lines in chunks (eval_string_reprex).
LinesUnderTheirSource == ~echo.mixed
=============================================================================
