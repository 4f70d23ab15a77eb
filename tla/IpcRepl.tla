------------------------------- MODULE IpcRepl -------------------------------
(***************************************************************************)
(* The interactive main thread of arf with IPC: R calls ReadConsole, the   *)
(* callback (repl/read_console.rs) runs the line editor, the editor's idle *)
(* callback polls the IPC queue (ipc/mod.rs), and an accepted request      *)
(* reaches R only through PENDING_IPC_OPERATION, the break signal and, for *)
(* visible code, the approval prompt (ipc/approval.rs).                    *)
(*                                                                         *)
(* R, the terminal user and the line editor are the environment.  What the *)
(* editor shows of itself is a line, Ctrl+C, Ctrl+D or ExternalBreak.      *)
(***************************************************************************)
EXTENDS IpcTransport

CONSTANTS
  EnterBeatsBreak, \* a key event already read may end read_line before the
                   \* editor looks at the break signal its callback raised
  NoReq,           \* no request
  User             \* the terminal user, as the author of code R runs

ASSUME ReplAssumption ==
  /\ EnterBeatsBreak \in BOOLEAN
  /\ NoReq \notin Requests /\ User \notin Requests /\ User # NoReq
  /\ ~Headless

VARIABLES
  pc,          \* where the main thread is
  prompt,      \* PromptKind of the ReadConsole call being served
  shell,       \* prompt_config.is_shell_enabled()
  buffer,      \* the editor buffer: "blank" or "text"
  sendAllow,   \* SEND_POLICY_ALLOW
  savedMode,   \* IpcAlternateGuard::was_alternate, while a pager is open
  running,     \* whose code R evaluates at top level, NoReq for none
  atPrompt,    \* R_IS_AT_PROMPT
  breakSignal, \* BREAK_SIGNAL
  pendingOp,   \* PENDING_IPC_OPERATION
  current,     \* the operation taken from it that is being handled
  visible,     \* PENDING_VISIBLE_EVAL
  capture,     \* WriteConsoleEx output goes to the IPC capture buffers
  captured,    \* whose output those buffers hold
  ran          \* history: how often a request's code was handed to R

terminalVars == <<prompt, shell, buffer, sendAllow, savedMode>>
opVars       == <<pendingOp, current>>
captureVars  == <<visible, capture, captured>>
mainVars     == <<pc, terminalVars, running, atPrompt, breakSignal, opVars, captureVars>>
vars         == <<transportVars, mainVars, ran>>

Locations == {"R", "reading", "draining", "approving", "approved", "silent",
              "pager", "stopping", "exiting", "done"}
PromptKinds == {"command", "continuation", "other"}
Authors   == Requests \cup {User}

MainTypeOK ==
  /\ pc \in Locations
  /\ prompt \in PromptKinds
  /\ buffer \in {"blank", "text"}
  /\ shell \in BOOLEAN /\ sendAllow \in BOOLEAN /\ savedMode \in BOOLEAN
  /\ atPrompt \in BOOLEAN /\ breakSignal \in BOOLEAN /\ capture \in BOOLEAN
  /\ running \in Authors \cup {NoReq}
  /\ pendingOp \in Requests \cup {NoReq}
  /\ current \in Requests \cup {NoReq}
  /\ visible \in Requests \cup {NoReq}
  /\ captured \in SUBSET Authors
  /\ ran \in [Requests -> Nat]

TypeOK == TransportTypeOK /\ MainTypeOK

Init ==
  /\ TransportInit
  /\ pc = "R" /\ prompt = "command" /\ running = NoReq /\ buffer = "blank"
  /\ shell = FALSE /\ sendAllow = FALSE /\ savedMode = FALSE
  /\ atPrompt = FALSE /\ breakSignal = FALSE
  /\ pendingOp = NoReq /\ current = NoReq
  /\ visible = NoReq /\ capture = FALSE /\ captured = {}
  /\ ran = [r \in Requests |-> 0]

-----------------------------------------------------------------------------
(* Taking the pending operation.                                           *)

\* run_silent_eval: a fresh capture, and R evaluates the code; the reply and the
\* return of the prompt flag come when that ends (SilentDone).
StartSilent(op) ==
  /\ pc' = "silent"
  /\ capture' = TRUE /\ captured' = {}
  /\ ran' = [ran EXCEPT ![op] = @ + 1]

\* Mutant: R keeps its prompt flag while the operation is in hand.
TakeOperationAtPrompt ==
  /\ current' = pendingOp
  /\ pendingOp' = NoReq
  /\ UNCHANGED atPrompt
  /\ \/ kind[pendingOp] = "silent" /\ StartSilent(pendingOp)
     \/ /\ kind[pendingOp] # "silent"
        /\ pc' = "approving"
        /\ UNCHANGED <<capture, captured, ran>>

\* Silent code runs at once; the rest goes to the approval prompt.  Both store
\* FALSE in R_IS_AT_PROMPT first.
TakeOperation ==
  /\ current' = pendingOp
  /\ pendingOp' = NoReq
  /\ atPrompt' = FALSE
  /\ \/ kind[pendingOp] = "silent" /\ StartSilent(pendingOp)
     \/ /\ kind[pendingOp] # "silent"
        /\ pc' = "approving"
        /\ UNCHANGED <<capture, captured, ran>>

-----------------------------------------------------------------------------
(* R and the ReadConsole callback.                                         *)

\* R asks for a command when the running code is finished, and for anything
\* else from inside it or within an incomplete expression.
AsksFor(k) == k = "command" \/ running # NoReq

\* What R printed since the last call is in the capture buffers, if it printed.
OutputArrives ==
  \/ UNCHANGED captured
  \/ capture /\ running # NoReq /\ captured' = captured \cup {running}

\* read_console_callback up to the input loop.  A pending operation is taken
\* here, before the editor starts, at a command prompt.
ReadConsole(k) ==
  /\ pc = "R" /\ AsksFor(k)
  /\ prompt' = k
  /\ running' = IF k = "command" THEN NoReq ELSE running
  /\ \/ k = "command" /\ ~shell /\ pendingOp # NoReq /\ TakeOperation
     \/ /\ k # "command" \/ shell \/ pendingOp = NoReq
        /\ pc' = "reading"
        /\ atPrompt' = (k = "command")
        /\ OutputArrives
        /\ UNCHANGED <<opVars, capture, ran>>
  /\ UNCHANGED <<transportVars, shell, buffer, sendAllow, savedMode, breakSignal, visible>>

\* evaluate_with_capture returns: a ReadConsole call the code made meanwhile got
\* end of file, so it always does.  R_IS_AT_PROMPT is set whatever the prompt.
SilentDone ==
  /\ pc = "silent"
  /\ capture' = FALSE /\ captured' = {}
  /\ atPrompt' = TRUE
  /\ Reply(current, "Evaluate")
  /\ current' = NoReq /\ pc' = "reading"
  /\ UNCHANGED <<connVars, channelVars, modeVars, terminalVars, running, breakSignal,
                 pendingOp, visible, ran>>

-----------------------------------------------------------------------------
(* The approval prompt.                                                    *)

\* The send policy allows it, or the user pressed y, and the server still waits.
Approve ==
  /\ pc = "approving" /\ ~IsClosed(current)
  /\ pc' = "approved"
  /\ UNCHANGED <<transportVars, terminalVars, running, atPrompt, breakSignal, opVars,
                 captureVars, ran>>

\* The request went away; or, without the policy, another key or a terminal error.
Decline ==
  /\ pc = "approving" /\ (IsClosed(current) \/ ~sendAllow)
  /\ atPrompt' = TRUE
  /\ Reply(current, "INPUT_NOT_APPROVED")
  /\ current' = NoReq /\ pc' = "reading"
  /\ UNCHANGED <<connVars, channelVars, modeVars, terminalVars, running, breakSignal,
                 pendingOp, captureVars, ran>>

\* setup_visible_eval or accept_user_input, then the code is returned to R.
Inject ==
  /\ pc = "approved"
  /\ ran' = [ran EXCEPT ![current] = @ + 1]
  /\ atPrompt' = FALSE
  /\ running' = IF prompt = "command" THEN current ELSE running
  /\ \/ /\ kind[current] = "visible"
        /\ visible' = current /\ capture' = TRUE /\ captured' = {}
        /\ UNCHANGED slot
     \/ /\ kind[current] # "visible"
        /\ Reply(current, "UserInput")
        /\ UNCHANGED captureVars
  /\ current' = NoReq /\ pc' = "R"
  /\ UNCHANGED <<connVars, channelVars, modeVars, terminalVars, breakSignal, pendingOp>>

-----------------------------------------------------------------------------
(* poll_ipc_requests, from the editor's idle callback and from the approval *)
(* prompt: first check_visible_eval_completion, then the drain loop.        *)

\* The visible evaluate's deadline is set after the server's own timeout began,
\* so it cannot have passed while that has not.
DeadlinePassed == visible \in due

\* Mutant: the capture outlives the evaluation.
FinishVisibleOnly(v) ==
  /\ visible # NoReq
  /\ visible' = NoReq /\ UNCHANGED <<capture, captured>>
  /\ Reply(visible, v)

FinishVisible(v) ==
  /\ visible # NoReq
  /\ visible' = NoReq /\ capture' = FALSE /\ captured' = {}
  /\ Reply(visible, v)

CheckVisibleEval ==
  \/ DeadlinePassed /\ FinishVisible("EVAL_TIMED_OUT")
  \/ atPrompt /\ FinishVisible("Evaluate")
  \/ (visible = NoReq \/ ~atPrompt) /\ UNCHANGED <<slot, captureVars>>

Poll ==
  /\ CheckVisibleEval
  /\ pc' = IF receiver THEN "draining" ELSE pc
  /\ UNCHANGED <<connVars, channelVars, modeVars, terminalVars, running, atPrompt,
                 breakSignal, opVars, ran>>

\* Only the R editor has the break signal and polls: the shell editor does not.
EditorReads == pc = "reading" /\ ~shell

IdleTick     == EditorReads /\ ~breakSignal /\ Poll
ApprovalTick == pc = "approving" /\ ~sendAllow /\ ~IsClosed(current) /\ Poll

\* handle_request for a session request: R is evaluated only when that is safe.
HandleSession(r) ==
  LET tryR == atPrompt /\ pendingOp = NoReq /\ ~inAlternateMode
  IN /\ Reply(r, IF tryR THEN "Session" ELSE "SessionNoR")
     /\ UNCHANGED <<pendingOp, breakSignal>>

\* Mutant: a pending operation is replaced by the next.
RefusalOverwrites(r) ==
  IF inAlternateMode THEN "R_NOT_AT_PROMPT"
  ELSE IF kind[r] = "denied" THEN "R_EVAL_NOT_ALLOWED"
  ELSE IF atPrompt THEN NoAnswer
  ELSE IF kind[r] = "user_input" THEN "R_NOT_AT_PROMPT" ELSE "R_BUSY"

\* Mutant: the prompt flag is not looked at.
RefusalAtAnyPrompt(r) ==
  IF inAlternateMode THEN "R_NOT_AT_PROMPT"
  ELSE IF pendingOp # NoReq THEN "INPUT_ALREADY_PENDING"
  ELSE IF kind[r] = "denied" THEN "R_EVAL_NOT_ALLOWED" ELSE NoAnswer

\* The error handle_request answers a code request with, none if it is accepted.
Refusal(r) ==
  IF inAlternateMode THEN "R_NOT_AT_PROMPT"
  ELSE IF pendingOp # NoReq THEN "INPUT_ALREADY_PENDING"
  ELSE IF kind[r] = "denied" THEN "R_EVAL_NOT_ALLOWED"
  ELSE IF atPrompt THEN NoAnswer
  ELSE IF kind[r] = "user_input" THEN "R_NOT_AT_PROMPT" ELSE "R_BUSY"

\* Mutant: the editor is not woken.
HandleCodeQuietly(r) ==
  \/ /\ Refusal(r) # NoAnswer
     /\ Reply(r, Refusal(r))
     /\ UNCHANGED <<pendingOp, breakSignal>>
  \/ /\ Refusal(r) = NoAnswer
     /\ pendingOp' = r /\ UNCHANGED breakSignal
     /\ UNCHANGED slot

HandleCode(r) ==
  \/ /\ Refusal(r) # NoAnswer
     /\ Reply(r, Refusal(r))
     /\ UNCHANGED <<pendingOp, breakSignal>>
  \/ /\ Refusal(r) = NoAnswer
     /\ pendingOp' = r /\ breakSignal' = TRUE
     /\ UNCHANGED slot

\* try_recv and handle_request, until the queue is empty.
Drain ==
  /\ pc = "draining" /\ queue # <<>>
  /\ queue' = Tail(queue)
  /\ \/ kind[Head(queue)] = "session" /\ HandleSession(Head(queue))
     \/ kind[Head(queue)] # "session" /\ HandleCode(Head(queue))
  /\ UNCHANGED <<connVars, receiver, listening, modeVars, pc, terminalVars, running,
                 atPrompt, current, captureVars, ran>>

\* Back to the caller: the approval prompt if an operation is in hand.
DrainDone ==
  /\ pc = "draining" /\ queue = <<>>
  /\ pc' = IF current = NoReq THEN "reading" ELSE "approving"
  /\ UNCHANGED <<transportVars, terminalVars, running, atPrompt, breakSignal, opVars,
                 captureVars, ran>>

-----------------------------------------------------------------------------
(* The R editor's read_line returns, at the prompt of kind `prompt`.       *)

EditorReturns == EditorReads /\ (EnterBeatsBreak \/ ~breakSignal)

Type ==
  /\ EditorReads
  /\ buffer' = IF buffer = "blank" THEN "text" ELSE "blank"
  /\ UNCHANGED <<transportVars, pc, prompt, shell, sendAllow, savedMode, running, atPrompt,
                 breakSignal, opVars, captureVars, ran>>

\* Mutant: the buffer is not looked at.
BreakWhileTyping ==
  /\ EditorReads /\ breakSignal
  /\ breakSignal' = FALSE
  /\ \/ pendingOp = NoReq /\ UNCHANGED <<pc, atPrompt, opVars, capture, captured, ran>>
     \/ pendingOp # NoReq /\ TakeOperation
  /\ UNCHANGED <<slot, connVars, channelVars, modeVars, terminalVars, running, visible>>

\* Mutant: the operation refused to a typing user stays pending.
BreakKeepsOperation ==
  /\ EditorReads /\ breakSignal
  /\ breakSignal' = FALSE
  /\ \/ /\ pendingOp = NoReq
        /\ UNCHANGED <<slot, pc, atPrompt, opVars, capture, captured, ran>>
     \/ /\ pendingOp # NoReq /\ buffer = "text"
        /\ Reply(pendingOp, "USER_IS_TYPING")
        /\ UNCHANGED <<pc, atPrompt, opVars, capture, captured, ran>>
     \/ /\ pendingOp # NoReq /\ buffer = "blank"
        /\ TakeOperation
        /\ UNCHANGED slot
  /\ UNCHANGED <<connVars, channelVars, modeVars, terminalVars, running, visible>>

\* ExternalBreak(buffer): take the operation, unless the user is typing.  A
\* signal with no operation behind it is ignored.
Break ==
  /\ EditorReads /\ breakSignal
  /\ breakSignal' = FALSE
  /\ \/ /\ pendingOp = NoReq
        /\ UNCHANGED <<slot, pc, atPrompt, opVars, capture, captured, ran>>
     \/ /\ pendingOp # NoReq /\ buffer = "text"
        /\ Reply(pendingOp, "USER_IS_TYPING")
        /\ pendingOp' = NoReq
        /\ UNCHANGED <<pc, atPrompt, current, capture, captured, ran>>
     \/ /\ pendingOp # NoReq /\ buffer = "blank"
        /\ TakeOperation
        /\ UNCHANGED slot
  /\ UNCHANGED <<connVars, channelVars, modeVars, terminalVars, running, visible>>

\* Success(line) handed to R.  Input for readline() or menu() is passed on with
\* nothing else touched; at the other prompts R becomes busy.
EnterLine ==
  /\ EditorReturns
  /\ pc' = "R" /\ buffer' = "blank"
  /\ \/ prompt = "other" /\ UNCHANGED <<atPrompt, running>>
     \/ /\ prompt # "other"
        /\ atPrompt' = FALSE
        /\ running' = IF prompt = "command" /\ buffer = "text" THEN User ELSE running
  /\ UNCHANGED <<transportVars, prompt, shell, sendAllow, savedMode, breakSignal, opVars,
                 captureVars, ran>>

\* Ctrl+C abandons the line: R gets an empty one, with the prompt flag as it is.
CtrlC ==
  /\ EditorReturns
  /\ pc' = "R" /\ buffer' = "blank"
  /\ UNCHANGED <<transportVars, prompt, shell, sendAllow, savedMode, running, atPrompt,
                 breakSignal, opVars, captureVars, ran>>

-----------------------------------------------------------------------------
(* Meta commands, and the shell editor.                                    *)

\* A meta command can be entered at every prompt but R's own, in both editors.
MetaLine ==
  \/ EditorReturns /\ prompt # "other" /\ buffer = "text"
  \/ pc = "reading" /\ shell

\* :shell and :r, and in shell mode exit, logout, Ctrl+C and Ctrl+D.
SetShell(enabled) ==
  /\ MetaLine
  /\ enabled \/ shell
  /\ shell' = enabled /\ inAlternateMode' = enabled /\ buffer' = "blank"
  /\ UNCHANGED <<connVars, slot, channelVars, shutdownRequested, pc, prompt, sendAllow,
                 savedMode, running, atPrompt, breakSignal, opVars, captureVars, ran>>

\* The meta commands that change nothing here, shell commands, and input the
\* formatter rejects.
OtherMeta ==
  /\ MetaLine
  /\ buffer' = "blank"
  /\ UNCHANGED <<transportVars, pc, prompt, shell, sendAllow, savedMode, running, atPrompt,
                 breakSignal, opVars, captureVars, ran>>

\* :ipc send-policy allow|prompt.
SetSendPolicy(allow) ==
  /\ MetaLine
  /\ sendAllow' = allow /\ buffer' = "blank"
  /\ UNCHANGED <<transportVars, pc, prompt, shell, savedMode, running, atPrompt, breakSignal,
                 opVars, captureVars, ran>>

\* The pagers (:help, :history browse, :info, :changelog, :history schema) keep
\* the main thread to themselves, under an IpcAlternateGuard.
EnterPager ==
  /\ MetaLine
  /\ savedMode' = inAlternateMode /\ inAlternateMode' = TRUE
  /\ pc' = "pager" /\ buffer' = "blank"
  /\ UNCHANGED <<connVars, slot, channelVars, shutdownRequested, prompt, shell, sendAllow,
                 running, atPrompt, breakSignal, opVars, captureVars, ran>>

LeavePager ==
  /\ pc = "pager"
  /\ inAlternateMode' = savedMode /\ savedMode' = FALSE
  /\ pc' = "reading"
  /\ UNCHANGED <<connVars, slot, channelVars, shutdownRequested, prompt, shell, buffer,
                 sendAllow, running, atPrompt, breakSignal, opVars, captureVars, ran>>

-----------------------------------------------------------------------------
(* Starting and stopping the server, and the end of the session.           *)

\* :ipc start.
StartServer ==
  /\ MetaLine
  /\ OpenServer
  /\ buffer' = "blank"
  /\ UNCHANGED <<pc, prompt, shell, sendAllow, savedMode, running, atPrompt, breakSignal,
                 opVars, captureVars, ran>>

\* What ipc::stop_server puts on the channel of r: the receiver goes, and with it
\* the channels of what is queued; the pending operation and the pending visible
\* evaluate are answered.
SlotAfterStop(r) ==
  IF r \in Queued THEN Sent(r, "dropped")
  ELSE IF r = pendingOp THEN Sent(r, "SHUT_DOWN_PENDING")
  ELSE IF r = visible THEN Sent(r, "SHUT_DOWN_VISIBLE") ELSE slot[r]

\* ipc::stop_server up to server::stop_server.  Entered by :ipc stop, and, should
\* R's main loop return after :quit, Ctrl+D or an error of the editor, at the exit,
\* whatever R had to finish; otherwise see Vanish.
StopServer(exit) ==
  /\ MetaLine \/ (exit /\ EditorReturns)
  /\ receiver' = FALSE /\ queue' = <<>>
  /\ slot' = [r \in Requests |-> SlotAfterStop(r)]
  /\ pendingOp' = NoReq
  /\ visible' = NoReq
  /\ capture' = (capture /\ visible = NoReq)
  /\ captured' = IF visible = NoReq THEN captured ELSE {}
  /\ pc' = IF exit THEN "exiting" ELSE "stopping"
  /\ buffer' = "blank"
  /\ UNCHANGED <<connVars, listening, modeVars, prompt, shell, sendAllow, savedMode, running,
                 atPrompt, breakSignal, current, ran>>

\* server::stop_server: cancel, and join the thread.
JoinServer ==
  /\ pc \in {"stopping", "exiting"}
  /\ DropConnections
  /\ pc' = IF pc = "exiting" THEN "done" ELSE "reading"
  /\ UNCHANGED <<kind, due, queue, receiver, modeVars, terminalVars, running, atPrompt,
                 breakSignal, opVars, captureVars, ran>>

\* The process ends with the server in it: q() in the running code, :restart
\* replacing the process image, or R calling exit() at the end of file it is given
\* after :quit, Ctrl+D or an error of the editor (pid_file.rs).
Vanish ==
  /\ (pc = "R" /\ running # NoReq) \/ pc = "silent" \/ MetaLine \/ EditorReturns
  /\ DropConnections
  /\ receiver' = FALSE /\ queue' = <<>>
  /\ pendingOp' = NoReq /\ current' = NoReq
  /\ visible' = NoReq /\ capture' = FALSE /\ captured' = {}
  /\ pc' = "done"
  /\ UNCHANGED <<kind, due, modeVars, terminalVars, running, atPrompt, breakSignal, ran>>

-----------------------------------------------------------------------------
ClientSends(r) == (\E k \in Kinds : Accept(r, k)) /\ UNCHANGED <<mainVars, ran>>

Server(r) == ServerStep(r) /\ UNCHANGED <<mainVars, ran>>
Clock(r)  == Elapse(r) /\ UNCHANGED <<mainVars, ran>>

\* The main thread's own steps, which wait for neither R nor the user.
MainRuns ==
  \/ Inject \/ Drain \/ DrainDone \/ Break \/ JoinServer

\* What the terminal user does.
UserActs ==
  \/ Type \/ EnterLine \/ CtrlC \/ OtherMeta \/ EnterPager \/ LeavePager
  \/ Approve \/ Decline \/ StartServer \/ Vanish
  \/ \E b \in BOOLEAN : SetShell(b) \/ SetSendPolicy(b) \/ StopServer(b)

\* The session is over and every connection is gone.
Terminated == pc = "done" /\ UNCHANGED vars

MainStep ==
  \/ \E k \in PromptKinds : ReadConsole(k)
  \/ SilentDone \/ MainRuns \/ IdleTick \/ ApprovalTick \/ UserActs

Next ==
  \/ \E r \in Requests : ClientSends(r) \/ Server(r) \/ Clock(r)
  \/ MainStep
  \/ Terminated

Spec == Init /\ [][Next]_vars

\* The server thread and the clock always make progress, and so does the main
\* thread once it has work in hand; nothing is assumed of R, the user or clients.
FairSpec ==
  /\ Spec
  /\ \A r \in Requests : WF_vars(Server(r)) /\ WF_vars(Clock(r))
  /\ WF_vars(MainRuns)

-----------------------------------------------------------------------------
(* Safety.                                                                 *)

\* The two users of the WriteConsoleEx capture, a silent evaluate and a pending
\* visible one, never overlap, and no operation is accepted or in hand while a
\* visible one is pending (capture.rs and setup_visible_eval start a capture
\* without looking whether one is active); so no client is sent the output of
\* another client's code.
CaptureExclusive ==
  /\ capture <=> (visible # NoReq \/ pc = "silent")
  /\ visible # NoReq => pendingOp = NoReq /\ current = NoReq
  /\ captured \cap Requests \subseteq {visible}

\* While an operation is in hand, or a client's own code is running, R counts as
\* busy and nothing is accepted, whichever way the main thread got there; and the
\* queue is only drained once a finished visible evaluate has been collected
\* (check_visible_eval_completion comes first in poll_ipc_requests).
BusyWhileInHand ==
  /\ pc \in {"silent", "approving", "approved"} => current # NoReq
  /\ pc \notin {"silent", "approving", "approved", "draining"} => current = NoReq
  /\ current # NoReq => pendingOp = NoReq /\ ~atPrompt
  /\ running \in Requests => pendingOp = NoReq /\ current = NoReq /\ ~atPrompt
  /\ running \in Requests /\ visible # NoReq => running = visible
  /\ pc = "draining" /\ visible # NoReq => ~atPrompt

\* The requests whose reply channel the main thread or the queue holds.
Holders == Queued \cup ({pendingOp, current, visible} \ {NoReq})

\* Nothing is in the queue twice.
NoDuplicates == \A i, j \in 1..Len(queue) : queue[i] = queue[j] => i = j

\* The reply channel of a request that waits has exactly one holder: the queue,
\* PENDING_IPC_OPERATION, the handler's hand or PENDING_VISIBLE_EVAL.  None is
\* overwritten or forgotten, so no client waits for a reply nobody can send; and
\* nobody waits for a server that has stopped.
ReplyHasOneHolder ==
  /\ \A r \in Requests : conn[r] = "waiting" /\ slot[r] = "open" => r \in Holders
  /\ \A r \in Holders : conn[r] \in {"waiting", "done"}
  /\ NoDuplicates
  /\ Queued \cap {pendingOp, current, visible} = {}
  /\ pendingOp # NoReq => pendingOp \notin {current, visible}
  /\ current # NoReq => current # visible
  /\ ~listening => \A r \in Requests : conn[r] \in {"idle", "done"}

\* A client's code never replaces text the user has typed but not entered, however
\* the keys fall between the acceptance of the request and its execution, and none
\* enters R while the shell editor or a pager owns the terminal, even when the request
\* was accepted before (IN_ALTERNATE_MODE is checked on arrival and again when the
\* queue is drained, never at execution).
UserUndisturbed ==
  [][\A r \in Requests : ran'[r] # ran[r] =>
       buffer = "blank" /\ ~inAlternateMode /\ ~shell]_vars

\* R_IS_AT_PROMPT, as a request sees it when the queue is drained, is true only
\* while R waits at its top-level prompt (read_console.rs: "true when R is idle
\* at the command prompt, false for continuation/menu/selection prompts").
AtPromptSound ==
  atPrompt /\ pc \in {"reading", "draining", "pager"} => prompt = "command"

\* Where the editor looks at the break signal before it returns a line, a client's
\* code is only ever run at the top-level prompt, and the flag that tells of that
\* prompt is right: the code never answers a question that running code asks
\* (readline(), menu()), nor continues an incomplete line.
RunsOnlyAtCommandPrompt ==
  /\ []AtPromptSound
  /\ [][\A r \in Requests : ran'[r] # ran[r] => prompt' = "command"]_vars

-----------------------------------------------------------------------------
(* What the documentation says, and the code does not do.                  *)

\* docs/ipc.md: an evaluate that arrives while R is busy "is rejected immediately
\* with R_BUSY - it is not queued".  The server queues it (dispatch_request), and
\* nobody looks at the queue before R is idle again and would run it.
BusyEvaluateRejected ==
  \A r \in Requests :
    [](pc = "R" /\ running # NoReq /\ r \in Queued /\ kind[r] \in {"silent", "visible"}
       => [](ran[r] = 0))

\* approval.rs: "The sender check prevents a timed-out request from being executed
\* after its client has gone away."  The check and the execution are two steps.
TimedOutNeverExecuted ==
  [][\A r \in Requests : ran'[r] # ran[r] /\ kind[r] \in {"visible", "user_input"}
       => answer[r] # "TIMED_OUT"]_vars

-----------------------------------------------------------------------------
(* The promise to the clients.                                             *)

Promise == INSTANCE IpcPromise WITH
  submitted <- {r \in Requests : conn[r] # "idle"},
  outcome   <- [r \in Requests |-> Outcome(answer[r])]

\* The code of a request runs at most once, a success means it ran, and after a
\* refusal (R_BUSY, USER_IS_TYPING, INPUT_NOT_APPROVED, ...) it never will, so
\* that a client may retry; the code behind it is the whole path of a reply.
KeepsPromise == Promise!Spec

-----------------------------------------------------------------------------
(* Liveness.                                                               *)

\* Every request a client has sent is answered, whatever the main thread is
\* doing: R may evaluate for ever and the user may stay in the shell editor.
EveryRequestAnswered ==
  \A r \in Requests : (conn[r] \in {"parsed", "waiting"}) ~> (conn[r] = "done")

\* An accepted operation does not stay pending at an idle prompt: the break signal
\* reaches the editor, which would otherwise wait for the user's next key.
PendingOpTaken == (pendingOp # NoReq) ~> (pendingOp = NoReq)
=============================================================================
