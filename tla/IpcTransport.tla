---------------------------- MODULE IpcTransport ----------------------------
(***************************************************************************)
(* The IPC server thread (ipc/server.rs) and the two channels that join it *)
(* to the main thread: the mpsc queue of IpcRequest values, and one        *)
(* oneshot channel per request on which the main thread replies.  The      *)
(* module has no next-state relation of its own: IpcRepl and IpcHeadless   *)
(* compose its steps with the two main threads the program can run.        *)
(*                                                                         *)
(* Time is abstract: a request's server-side timeout elapses at any moment *)
(* after the request was sent (Elapse), and the server acts on it later.   *)
(***************************************************************************)
EXTENDS Naturals, Sequences, FiniteSets

CONSTANTS
  Requests,   \* the client requests of a behaviour; each is one connection
  Kinds,      \* the kinds of request the clients send, a subset of AllKinds
  Headless    \* whether set_headless_shutdown has registered the flag

\* "denied" is a silent evaluate whose code policy::validate refuses; "invalid"
\* has bad parameters, incomplete R code or a timeout over 24 hours; "malformed"
\* never becomes a JSON-RPC request.
CodeKinds == {"silent", "denied", "visible", "user_input"}
AllKinds  == CodeKinds \cup {"session", "history", "shutdown", "invalid", "malformed"}
NoKind    == "none"

ASSUME TransportAssumption ==
  /\ Kinds \subseteq AllKinds
  /\ Headless \in BOOLEAN

\* What the main thread can put on a request's oneshot channel (IpcResponse), and
\* the one answer the server thread itself keeps a while (TriggerShutdown).
\* EVAL_TIMED_OUT has the error code of R_BUSY, and the two SHUT_DOWN replies
\* that of R_NOT_AT_PROMPT; their messages tell them apart.
Replies == {"Evaluate", "UserInput", "UserInputFailed", "Session", "SessionNoR",
            "Shutdown", "R_BUSY", "R_NOT_AT_PROMPT", "INPUT_ALREADY_PENDING",
            "USER_IS_TYPING", "R_EVAL_NOT_ALLOWED", "INPUT_NOT_APPROVED",
            "EVAL_TIMED_OUT", "SHUT_DOWN_PENDING", "SHUT_DOWN_VISIBLE"}

\* What the server thread answers by itself.
ServerAnswers == {"INVALID_REQUEST", "INVALID_PARAMS", "METHOD_NOT_FOUND",
                  "History", "HISTORY_ERROR", "SessionFallback",
                  "UNAVAILABLE", "HANDLER_DROPPED", "TIMED_OUT", "CONNECTION_LOST",
                  "R_NOT_AT_PROMPT"}

NoAnswer   == "none"
Answers    == Replies \cup ServerAnswers
SlotStates == Replies \cup {"none", "open", "dropped"}

\* What an answer tells the client about its code.
Outcome(a) ==
  CASE a = NoAnswer                                             -> "none"
    [] a \in {"Evaluate", "UserInput", "UserInputFailed"}       -> "success"
    [] a \in {"Session", "SessionNoR", "SessionFallback", "History",
              "HISTORY_ERROR", "Shutdown"}                      -> "info"
    [] a \in {"TIMED_OUT", "EVAL_TIMED_OUT", "SHUT_DOWN_VISIBLE",
              "CONNECTION_LOST"}                                -> "open"
    [] OTHER                                                    -> "refused"

VARIABLES
  conn,             \* per request: "idle", "parsed", "waiting" for a reply, or "done"
  kind,             \* per request: its kind, once a client has sent it
  answer,           \* per request: the JSON-RPC answer its client got
  slot,             \* per request: its oneshot channel
  due,              \* the requests whose server-side timeout has elapsed
  queue,            \* the mpsc channel from the server to the main thread
  receiver,         \* IPC_RECEIVER holds the receiving end
  listening,        \* the server thread runs and accepts connections
  inAlternateMode,  \* IN_ALTERNATE_MODE
  shutdownRequested \* the flag HEADLESS_SHUTDOWN points to

connVars      == <<conn, kind, answer, due>>
channelVars   == <<queue, receiver, listening>>
modeVars      == <<inAlternateMode, shutdownRequested>>
transportVars == <<connVars, slot, channelVars, modeVars>>

ConnStates == {"idle", "parsed", "waiting", "done"}

TransportTypeOK ==
  /\ conn \in [Requests -> ConnStates]
  /\ kind \in [Requests -> AllKinds \cup {NoKind}]
  /\ answer \in [Requests -> Answers \cup {NoAnswer}]
  /\ slot \in [Requests -> SlotStates]
  /\ due \in SUBSET Requests
  /\ queue \in Seq(Requests)
  /\ receiver \in BOOLEAN
  /\ listening \in BOOLEAN
  /\ inAlternateMode \in BOOLEAN
  /\ shutdownRequested \in BOOLEAN

\* A server may or may not have been started before the first prompt (--with-ipc).
TransportInit ==
  /\ conn = [r \in Requests |-> "idle"]
  /\ kind = [r \in Requests |-> NoKind]
  /\ answer = [r \in Requests |-> NoAnswer]
  /\ slot = [r \in Requests |-> "none"]
  /\ due = {}
  /\ queue = <<>>
  /\ listening \in BOOLEAN
  /\ receiver = listening
  /\ inAlternateMode = FALSE
  /\ shutdownRequested = FALSE

-----------------------------------------------------------------------------
(* The oneshot channel, seen from the main thread.                         *)

\* Sender::is_closed: the server has dropped its end, having answered or died.
IsClosed(r) == conn[r] = "done"

\* What the channel of r holds after reply.send(v): on a closed one it is lost.
Sent(r, v) == IF conn[r] = "waiting" THEN v ELSE slot[r]

Reply(r, v) == slot' = [slot EXCEPT ![r] = Sent(r, v)]

-----------------------------------------------------------------------------
(* The server thread.                                                      *)

\* The answer is written to the client and the receiving end is dropped.
Finish(r, a) ==
  /\ conn' = [conn EXCEPT ![r] = "done"]
  /\ answer' = [answer EXCEPT ![r] = a]
  /\ slot' = [slot EXCEPT ![r] = "none"]

\* The answers dispatch_request gives a request of kind k without the main
\* thread: none when the request has to be queued.
AnswersAtOnce(k) ==
  IF k = "malformed" THEN {"INVALID_REQUEST"}
  ELSE IF inAlternateMode /\ k # "history"
       THEN {IF k = "session" THEN "SessionFallback" ELSE "R_NOT_AT_PROMPT"}
  ELSE CASE k = "invalid"               -> {"INVALID_PARAMS"}
         [] k = "shutdown" /\ ~Headless -> {"METHOD_NOT_FOUND"}
         [] k = "history"               -> {"History", "HISTORY_ERROR"}
         [] OTHER                       -> {}

\* trigger_headless_shutdown: the flag is up before the response has left, so the
\* main thread may stop the server first.  The response waits in slot.
TriggerShutdown(r) ==
  /\ shutdownRequested' = TRUE
  /\ conn' = [conn EXCEPT ![r] = "waiting"]
  /\ slot' = [slot EXCEPT ![r] = "Shutdown"]
  /\ UNCHANGED answer

\* A client sends r: the request is read, parsed and checked.
Accept(r, k) ==
  /\ listening /\ conn[r] = "idle"
  /\ kind' = [kind EXCEPT ![r] = k]
  /\ \/ /\ AnswersAtOnce(k) = {} /\ k # "shutdown"
        /\ conn' = [conn EXCEPT ![r] = "parsed"]
        /\ UNCHANGED <<answer, slot, shutdownRequested>>
     \/ /\ AnswersAtOnce(k) = {} /\ k = "shutdown"
        /\ TriggerShutdown(r)
     \/ /\ \E a \in AnswersAtOnce(k) : Finish(r, a)
        /\ UNCHANGED shutdownRequested
  /\ UNCHANGED <<due, channelVars, inAlternateMode>>

\* tx.send: fails once the main thread has dropped the receiver.
Send(r) ==
  /\ conn[r] = "parsed"
  /\ \/ /\ receiver
        /\ queue' = Append(queue, r)
        /\ slot' = [slot EXCEPT ![r] = "open"]
        /\ conn' = [conn EXCEPT ![r] = "waiting"]
        /\ UNCHANGED answer
     \/ /\ ~receiver
        /\ Finish(r, IF kind[r] = "session" THEN "SessionFallback" ELSE "UNAVAILABLE")
        /\ UNCHANGED queue
  /\ UNCHANGED <<kind, due, receiver, listening, modeVars>>

\* Mutant: a dropped sender is taken for a reply.
DeliverAnything(r) ==
  /\ conn[r] = "waiting" /\ slot[r] # "open"
  /\ Finish(r, slot[r])
  /\ UNCHANGED <<kind, due, channelVars, modeVars>>

\* The three ways tokio::time::timeout(timeout, reply_rx) ends.
Deliver(r) ==
  /\ conn[r] = "waiting" /\ slot[r] \in Replies
  /\ Finish(r, slot[r])
  /\ UNCHANGED <<kind, due, channelVars, modeVars>>

SenderDropped(r) ==
  /\ conn[r] = "waiting" /\ slot[r] = "dropped"
  /\ Finish(r, IF kind[r] = "session" THEN "SessionFallback" ELSE "HANDLER_DROPPED")
  /\ UNCHANGED <<kind, due, channelVars, modeVars>>

\* Mutant: no limit for what the user has to approve.
TimeoutButApproval(r) ==
  /\ conn[r] = "waiting" /\ r \in due /\ slot[r] = "open" /\ kind[r] # "user_input"
  /\ Finish(r, IF kind[r] = "session" THEN "SessionFallback" ELSE "TIMED_OUT")
  /\ UNCHANGED <<kind, due, channelVars, modeVars>>

\* Mutant: the client is told that its request was not taken.
TimeoutAsRefusal(r) ==
  /\ conn[r] = "waiting" /\ r \in due /\ slot[r] = "open"
  /\ Finish(r, IF kind[r] = "session" THEN "SessionFallback" ELSE "UNAVAILABLE")
  /\ UNCHANGED <<kind, due, channelVars, modeVars>>

Timeout(r) ==
  /\ conn[r] = "waiting" /\ r \in due /\ slot[r] = "open"
  /\ Finish(r, IF kind[r] = "session" THEN "SessionFallback" ELSE "TIMED_OUT")
  /\ UNCHANGED <<kind, due, channelVars, modeVars>>

\* The passing of time.
Elapse(r) ==
  /\ conn[r] = "waiting" /\ r \notin due
  /\ due' = due \cup {r}
  /\ UNCHANGED <<conn, kind, answer, slot, channelVars, modeVars>>

ServerStep(r) == Send(r) \/ Deliver(r) \/ SenderDropped(r) \/ Timeout(r)

-----------------------------------------------------------------------------
(* The server's lifecycle, driven by the main thread.                      *)

\* start_server: a fresh channel, then a thread that listens.  Starting twice
\* is refused.
OpenServer ==
  /\ ~listening
  /\ listening' = TRUE /\ receiver' = TRUE /\ queue' = <<>>
  /\ UNCHANGED <<connVars, slot, modeVars>>

Queued == {queue[i] : i \in 1..Len(queue)}

\* Cancelling the server and joining its thread, or the death of the process:
\* the connections still served are dropped without an answer.
DropConnections ==
  LET served == {r \in Requests : conn[r] \in {"parsed", "waiting"}}
  IN /\ listening' = FALSE
     /\ conn' = [r \in Requests |-> IF r \in served THEN "done" ELSE conn[r]]
     /\ answer' = [r \in Requests |-> IF r \in served THEN "CONNECTION_LOST" ELSE answer[r]]
     /\ slot' = [r \in Requests |-> IF r \in served THEN "none" ELSE slot[r]]
=============================================================================
