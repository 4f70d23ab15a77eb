------------------------------ MODULE IpcClient ------------------------------
(***************************************************************************)
(* arf ipc (ipc/client.rs): one command of a client process, from its      *)
(* arguments to its exit code, and the connection it makes, byte by byte:  *)
(* a request cut into reads in any way, a server thread that is late, a    *)
(* session that dies, a client that is killed.  What the session's main    *)
(* thread does with a request is IpcRepl's and IpcHeadless's matter; here  *)
(* it answers, in some way and at some time, or never.                     *)
(***************************************************************************)
EXTENDS Naturals, Sequences, FiniteSets

CONSTANTS
  Processes,      \* the PIDs of sessions
  TimeLimits,     \* values given with --timeout, in units of time
  DefaultLimit,   \* DEFAULT_EVAL_TIMEOUT and DEFAULT_TRANSPORT_TIMEOUT, 300 s
  LongestLimit,   \* MAX_TIMEOUT_MS, 24 h
  SessionLimit,   \* SESSION_TIMEOUT, 10 s
  Spare,          \* what the client waits longer than the server, 5 s
  Lateness,       \* bound: by how much the server thread lags, in all
  RequestLimit,   \* pieces in the largest request taken, 1 MB
  ReadSize,       \* pieces in one read, 4096 bytes
  MaxChanges      \* bound: sessions that start or end, and kills of the client

ASSUME ClientAssumption ==
  /\ {DefaultLimit, LongestLimit, SessionLimit, RequestLimit, MaxChanges, Lateness} \subseteq Nat
  /\ TimeLimits \subseteq Nat /\ Spare \in Nat /\ ReadSize \in Nat \ {0}

VARIABLES
  kCommand, \* what the client was called with, and what its stdin is
  kStage,   \* where the client is
  kTarget,  \* the session it talks to
  kExit,    \* its exit code and the error it printed, or the answer
  kRequest, \* what goes over the connection: style, form and size
  kUnsent,  \* pieces still to be written
  kWire,    \* pieces written and not read
  kRead,    \* buf in handle_connection
  kServer,  \* the task of the connection
  kAnswer,  \* the response it has built
  kBack,    \* pieces of the response written and not read
  kGot,     \* response_buf
  kWaited,  \* time since the server sent the request to the main thread
  kIdle,    \* time since the client last got something
  kLate,    \* by how much the server thread has lagged
  kAlive,   \* the sessions that run and are listed
  kChanges

clientVars == <<kCommand, kStage, kTarget, kExit, kRequest, kUnsent, kWire, kRead, kServer,
                kAnswer, kBack, kGot, kWaited, kIdle, kLate, kAlive, kChanges>>
endVars    == <<kTarget, kExit, kRequest, kAlive, kChanges>>
timeVars   == <<kWaited, kIdle, kLate>>
serverVars == <<kRead, kServer, kAnswer>>
wireVars   == <<kUnsent, kWire, kBack, kGot>>

------------------------------------------------------------------------------
(* ClientCommands.                                                               *)

AnyPid == "any"
CodeVerbs   == {"eval", "send"}
CodeMethods == {"evaluate", "user_input"}
Verbs == CodeVerbs \cup {"session", "history", "shutdown", "list"}

\* limit: <<>> without --timeout
ClientCommands ==
  { c \in [verb : Verbs, pid : Processes \cup {AnyPid}, code : {"argument", "stdin", "none"},
           limit : {<<>>} \cup {<<t>> : t \in TimeLimits}] :
      /\ c.code # "none" <=> c.verb \in CodeVerbs
      /\ c.limit # <<>> => c.verb = "eval"
      /\ c.verb = "list" => c.pid = AnyPid }

\* The body of a request; "http" is how arf sends it, the others how some other client
\* of the documented protocol may: without a length, or with the JSON alone. "open" and
\* "close" are the braces around a JSON object, "x" is what is between them.
Styles == {"http", "no_length", "raw"}
Forms  == {"request", "notification", "other_version", "no_json"}

Body(r) == <<"open">> \o [i \in 1..r.size |-> "x"] \o <<"close">>
Pieces(r) ==
  CASE r.style = "http"      -> <<"POST", "length", "crlf", "crlf">> \o Body(r)
    [] r.style = "no_length" -> <<"POST", "crlf", "crlf">> \o Body(r)
    [] r.style = "raw"       -> Body(r)

------------------------------------------------------------------------------
(* Timeouts.                                                               *)

\* dispatch_request: how long the server waits for the main thread.
server_timeout(c) ==
  CASE c.verb = "session" -> SessionLimit
    [] c.limit # <<>>     -> c.limit[1]
    [] OTHER              -> DefaultLimit

\* The request of each command, and how long send_request waits for each read.
Asking(method, timeout) == [method |-> method, timeout |-> timeout]

\* Mutant: the client waits as long as the server, no longer.
cmd_eval_Equal(c) == Asking("evaluate", server_timeout(c))

cmd_eval(c) == Asking("evaluate", server_timeout(c) + Spare)
cmd_send     == Asking("user_input", DefaultLimit)
cmd_shutdown == Asking("shutdown", DefaultLimit)
cmd_session  == Asking("session", SessionLimit + Spare)
cmd_history  == Asking("history", SessionLimit + Spare)

Asked(c) ==
  CASE c.verb = "eval"     -> cmd_eval(c)
    [] c.verb = "send"     -> cmd_send
    [] c.verb = "shutdown" -> cmd_shutdown
    [] c.verb = "session"  -> cmd_session
    [] c.verb = "history"  -> cmd_history
transport_timeout(c) == Asked(c).timeout

------------------------------------------------------------------------------
(* Exits.                                                                  *)

NotYet      == [code |-> 1, error |-> "none"]
Success     == [code |-> 0, error |-> "none"]
EXIT_CLIENT(error)   == [code |-> 2, error |-> error]
EXIT_SESSION(error)  == [code |-> 3, error |-> error]
EXIT_PROTOCOL(error) == [code |-> 4, error |-> error]

\* rpc_error_info: the names of the codes a server sends.
rpc_error_info(error) ==
  IF error \in {"R_BUSY", "R_NOT_AT_PROMPT", "INPUT_ALREADY_PENDING", "USER_IS_TYPING",
                "INCOMPLETE_INPUT", "R_EVAL_NOT_ALLOWED", "INPUT_NOT_APPROVED", "PARSE_ERROR",
                "INVALID_REQUEST", "METHOD_NOT_FOUND", "INVALID_PARAMS", "INTERNAL_ERROR"}
  THEN error ELSE "PROTOCOL_ERROR"

NoResponse    == [result |-> FALSE, error |-> "none"]
Result        == [result |-> TRUE, error |-> "none"]
Refused(error) == [result |-> FALSE, error |-> error]

incomplete_input_response == Refused("INCOMPLETE_INPUT")

\* What a request gets when its time is over: session tells what the server knows alone.
session_fallback_response(method) ==
  IF method = "session" THEN Result ELSE Refused("INTERNAL_ERROR")

handle_response(a) ==
  IF a.error # "none" THEN EXIT_PROTOCOL(rpc_error_info(a.error))
  ELSE IF a.result THEN Success ELSE EXIT_PROTOCOL("EMPTY_RESPONSE")

\* exit_error and the end of main, with the client's end of the connection.  The JSON of a
\* success may not get printed (print_json_or_exit).
Ends(exit) ==
  /\ kStage' = "done"
  /\ \/ kExit' = exit
     \/ exit = Success /\ kExit' = EXIT_CLIENT("OUTPUT_ERROR")

------------------------------------------------------------------------------
(* Before the connection.                                                  *)

ConnectionUnused ==
  /\ kStage = "start" /\ kTarget = AnyPid /\ kExit = NotYet
  /\ kUnsent = Pieces(kRequest) /\ kWire = <<>> /\ kBack = <<>> /\ kGot = <<>>
  /\ kRead = <<>> /\ kServer = "none" /\ kAnswer = NoResponse
  /\ kWaited = 0 /\ kIdle = 0 /\ kLate = 0 /\ kChanges = 0

ClientInit ==
  /\ \E c \in ClientCommands, in \in {"tty", "pipe", "unreadable"} :
       /\ in # "pipe" => c.code = "stdin"
       /\ kCommand = [c EXCEPT !.code = IF @ = "stdin" THEN in ELSE @]
  /\ kRequest \in [style : Styles, form : Forms, size : {1, RequestLimit}]
  /\ kRequest.style = "http" \/ (kCommand.verb = "session" /\ kCommand.pid # AnyPid)
  /\ kRequest.form = "request" \/ kRequest.style # "http"
  /\ kRequest.size = 1 \/ kCommand.verb \notin {"history", "shutdown", "list"}
  /\ kAlive \in SUBSET Processes /\ ConnectionUnused

\* A command of arf's own; other clients find the socket by themselves.
Ours == kRequest.style = "http" /\ kRequest.form = "request"

\* cmd_list; a terminal as stdin is refused before anything else (require_stdin_not_tty).
Start ==
  /\ kStage = "start"
  /\ \/ kCommand.verb = "list" /\ Ends(Success)
     \/ /\ kCommand.verb # "list" /\ kCommand.code = "tty"
        /\ Ends(EXIT_CLIENT("NO_CODE_PROVIDED"))
     \/ /\ kCommand.verb # "list" /\ kCommand.code # "tty"
        /\ kStage' = "resolve" /\ UNCHANGED kExit
  /\ UNCHANGED <<kCommand, kTarget, kRequest, kAlive, kChanges, wireVars, serverVars, timeVars>>

\* find_session: the one asked for, or the only one.
find_session(pid, listed) == IF pid = AnyPid THEN (IF Cardinality(listed) = 1 THEN listed ELSE {})
                                             ELSE {pid} \cap listed
Resolve ==
  /\ kStage = "resolve"
  /\ LET found == find_session(kCommand.pid, kAlive)
     IN \/ /\ found # {} /\ kTarget' \in found /\ kStage' = "code" /\ UNCHANGED kExit
        \/ /\ found = {} /\ kCommand.pid # AnyPid /\ UNCHANGED kTarget
           /\ Ends(EXIT_SESSION("SESSION_NOT_FOUND"))
        \/ /\ found = {} /\ kCommand.pid = AnyPid /\ UNCHANGED <<kTarget, kExit>>
           /\ kStage' = "explain"
  /\ UNCHANGED <<kCommand, kRequest, kAlive, kChanges, wireVars, serverVars, timeVars>>

\* resolve_session lists them again to say why.
Explain ==
  /\ kStage = "explain"
  /\ Ends(EXIT_SESSION(IF kAlive = {} THEN "SESSION_NOT_FOUND" ELSE "SESSION_AMBIGUOUS"))
  /\ UNCHANGED <<kCommand, kTarget, kRequest, kAlive, kChanges, wireVars, serverVars, timeVars>>

\* read_stdin_code, then UnixStream::connect.
ReadCode ==
  /\ kStage = "code"
  /\ \/ kCommand.code = "unreadable" /\ Ends(EXIT_CLIENT("STDIN_READ_ERROR")) /\ UNCHANGED kServer
     \/ /\ kCommand.code # "unreadable" /\ kTarget \notin kAlive /\ UNCHANGED kServer
        /\ Ends(EXIT_CLIENT("TRANSPORT_ERROR"))
     \/ /\ kCommand.code # "unreadable" /\ kTarget \in kAlive
        /\ kStage' = "write" /\ kServer' = "reading" /\ UNCHANGED kExit
  /\ UNCHANGED <<kCommand, kTarget, kRequest, kRead, kAnswer, kAlive, kChanges, wireVars, timeVars>>

------------------------------------------------------------------------------
(* The client's end of the connection.                                     *)

\* write_all, as much of it as the socket takes, and shutdown(Write) after it, which other
\* clients leave out (Shut below); the peer may have closed.
Write ==
  /\ kStage = "write"
  /\ \/ /\ kServer = "closed" /\ kUnsent # <<>> /\ Ends(EXIT_CLIENT("TRANSPORT_ERROR"))
        /\ UNCHANGED <<kUnsent, kWire, kIdle>>
     \/ /\ kServer # "closed" /\ kUnsent # <<>>
        /\ \E n \in 1..Len(kUnsent) :
             /\ kWire' = kWire \o SubSeq(kUnsent, 1, n)
             /\ kUnsent' = SubSeq(kUnsent, n + 1, Len(kUnsent))
        /\ UNCHANGED <<kStage, kExit, kIdle>>
     \/ kUnsent = <<>> /\ kStage' = "wait" /\ kIdle' = 0 /\ UNCHANGED <<kExit, kUnsent, kWire>>
  /\ UNCHANGED <<kCommand, kTarget, kRequest, kAlive, kChanges, kBack, kGot,
                 serverVars, kWaited, kLate>>

Shut == kStage \in {"wait", "done"} /\ (Ours \/ kStage = "done")

\* parse_http_response: what follows the first blank line, or everything.
\* The JSON of a response is whole or none.
parse_http_response(got) ==
  LET blanks == {i \in 1..Len(got) : got[i] = "blank"}
      body   == IF blanks = {} THEN got
                ELSE SubSeq(got, (CHOOSE i \in blanks : \A j \in blanks : i <= j) + 1, Len(got))
  IN IF body = <<"open", "close">> THEN handle_response(kAnswer) ELSE EXIT_PROTOCOL("PROTOCOL_ERROR")

\* read_to_end, each read with the timeout: the client gives up (a TRANSPORT_ERROR like the
\* others, told apart here), or the server closes, with a reset if it has not read all.
Receive ==
  /\ kStage = "wait"
  /\ \/ /\ kBack # <<>> /\ kGot' = kGot \o kBack /\ kBack' = <<>> /\ kIdle' = 0
        /\ UNCHANGED <<kStage, kExit>>
     \/ /\ kBack = <<>> /\ kServer = "closed"
        /\ Ends(IF kWire # <<>> THEN EXIT_CLIENT("TRANSPORT_ERROR") ELSE parse_http_response(kGot))
        /\ UNCHANGED <<kGot, kBack, kIdle>>
     \/ /\ kBack = <<>> /\ kServer # "closed" /\ kIdle >= transport_timeout(kCommand)
        /\ Ends(EXIT_CLIENT("READ_TIMED_OUT")) /\ UNCHANGED <<kGot, kBack, kIdle>>
  /\ UNCHANGED <<kCommand, kTarget, kRequest, kAlive, kChanges, kUnsent, kWire,
                 serverVars, kWaited, kLate>>

------------------------------------------------------------------------------
(* The server's end: handle_connection.                                    *)

IsHttp(buf) == buf # <<>> /\ Head(buf) = "POST"
find_http_header_end(buf) ==
  {i \in 1..(Len(buf) - 1) : IsHttp(buf) /\ buf[i] = "crlf" /\ buf[i + 1] = "crlf"}
HasLength(buf) == \E i \in 1..Len(buf) : buf[i] = "length"
extract_body(buf) ==
  LET ends == find_http_header_end(buf)
  IN IF ends = {} THEN buf ELSE SubSeq(buf, (CHOOSE i \in ends : TRUE) + 2, Len(buf))
Parses(body) == body = Body(kRequest) /\ kRequest.form # "no_json"

\* What the loop does with what it has read.
AfterRead(buf) ==
  IF find_http_header_end(buf) # {} /\ HasLength(buf)
  THEN IF Len(Pieces(kRequest)) > RequestLimit THEN "too_large"
       ELSE IF Len(buf) >= Len(Pieces(kRequest)) THEN "parse" ELSE "reading"
  ELSE IF Parses(buf) THEN "parse"
  ELSE IF Len(buf) > RequestLimit THEN "too_large" ELSE "reading"

ReadSome ==
  /\ kServer = "reading" /\ kWire # <<>>
  /\ \E n \in 1..(IF Len(kWire) < ReadSize THEN Len(kWire) ELSE ReadSize) :
       /\ kRead' = kRead \o SubSeq(kWire, 1, n)
       /\ kWire' = SubSeq(kWire, n + 1, Len(kWire))
       /\ kServer' = AfterRead(kRead')
  /\ UNCHANGED <<kCommand, kStage, endVars, kAnswer, kUnsent, kBack, kGot, timeVars>>

ReadEof ==
  /\ kServer = "reading" /\ kWire = <<>> /\ Shut
  /\ kServer' = IF kRead = <<>> THEN "closed" ELSE "parse"
  /\ UNCHANGED <<kCommand, kStage, endVars, kRead, kAnswer, wireVars, timeVars>>

Respond(a) == kAnswer' = a /\ kServer' = "writing"

\* Too large, no JSON, another version: an error; a notification gets no response.
Reject ==
  /\ \/ kServer = "too_large" /\ Respond(Refused("INVALID_REQUEST"))
     \/ /\ kServer = "parse" /\ ~Parses(extract_body(kRead))
        /\ Respond(Refused("PARSE_ERROR"))
     \/ /\ kServer = "parse" /\ Parses(extract_body(kRead)) /\ kRequest.form = "other_version"
        /\ Respond(Refused("INVALID_REQUEST"))
     \/ /\ kServer = "parse" /\ Parses(extract_body(kRead)) /\ kRequest.form = "notification"
        /\ kServer' = "closed" /\ UNCHANGED kAnswer
  /\ UNCHANGED <<kCommand, kStage, endVars, kRead, wireVars, timeVars>>

\* dispatch_request, without the main thread: history and shutdown always, the others in
\* alternate mode, code that is incomplete or with a limit beyond the longest.
Dispatched == kServer = "parse" /\ Parses(extract_body(kRead)) /\ kRequest.form = "request"
Method  == Asked(kCommand).method
TooLong == Method = "evaluate" /\ server_timeout(kCommand) > LongestLimit

Dispatch ==
  /\ Dispatched
  /\ \/ Method \in {"history", "shutdown", "session"} /\ Respond(Result)
     \/ Method = "history" /\ Respond(Refused("INTERNAL_ERROR"))
     \/ Method = "shutdown" /\ Respond(Refused("METHOD_NOT_FOUND"))
     \/ Method \in CodeMethods /\ Respond(incomplete_input_response)
     \/ Method \in CodeMethods \cup {"shutdown"} /\ Respond(Refused("R_NOT_AT_PROMPT"))
     \/ TooLong /\ Respond(Refused("INVALID_PARAMS"))
     \/ /\ Method \in CodeMethods \cup {"session"} /\ ~TooLong
        /\ kServer' = "waiting" /\ UNCHANGED kAnswer
  /\ kWaited' = 0
  /\ UNCHANGED <<kCommand, kStage, endVars, kRead, wireVars, kIdle, kLate>>

\* The main thread's reply, or the end of the wait .
Reply ==
  /\ kServer = "waiting"
  /\ \/ Respond(Result)
     \/ Method # "session" /\ Respond(Refused("R_BUSY"))
     \/ /\ kWaited >= server_timeout(kCommand)
        /\ Respond(session_fallback_response(Method))
  /\ UNCHANGED <<kCommand, kStage, endVars, kRead, wireVars, timeVars>>

Response == <<"status", "blank", "open", "close">>

\* write_all to the client, at once or in two pieces, and the end of the task.
WriteBack ==
  /\ kServer \in {"writing", "half"}
  /\ \/ kStage = "done" /\ kServer' = "closed" /\ UNCHANGED kBack
     \/ /\ kStage # "done" /\ kServer = "writing" /\ kServer' = "half"
        /\ \E n \in 1..3 : kBack' = kBack \o SubSeq(Response, 1, n)
     \/ /\ kStage # "done" /\ kServer' = "closed"
        /\ kBack' = kBack \o SubSeq(Response, Len(kGot \o kBack) + 1, Len(Response))
  /\ UNCHANGED <<kCommand, kStage, endVars, kRead, kAnswer, kUnsent, kWire, kGot, timeVars>>

------------------------------------------------------------------------------
(* The world.                                                              *)

\* A session starts or ends, the one talked to as well; the client is killed.
SessionsChange ==
  /\ kChanges < MaxChanges /\ kStage # "done"
  /\ kChanges' = kChanges + 1
  /\ \/ \E p \in Processes \ kAlive : kAlive' = kAlive \cup {p} /\ UNCHANGED kServer
     \/ \E p \in kAlive :
          /\ kAlive' = kAlive \ {p}
          /\ kServer' = IF p = kTarget /\ kServer # "none" THEN "closed" ELSE kServer
  /\ UNCHANGED <<kCommand, kStage, kTarget, kExit, kRequest, kRead, kAnswer, wireVars, timeVars>>

Killed ==
  /\ kChanges < MaxChanges /\ kStage \in {"write", "wait"}
  /\ kChanges' = kChanges + 1 /\ kStage' = "done"
  /\ kExit' = [code |-> 1, error |-> "killed"]
  /\ UNCHANGED <<kCommand, kTarget, kRequest, kAlive, wireVars, serverVars, timeVars>>

\* Time passes while the server waits for the main thread, and otherwise only for as long
\* as the server thread lags.
InTime == kServer = "waiting" /\ kWaited < server_timeout(kCommand)
StillReading == kServer = "reading" /\ kWire = <<>> /\ ~Shut
Tick ==
  /\ kStage = "wait" /\ kBack = <<>> /\ kServer # "closed"
  /\ kIdle < transport_timeout(kCommand)
  /\ InTime \/ StillReading \/ kLate < Lateness
  /\ kIdle' = kIdle + 1
  /\ kWaited' = IF InTime THEN kWaited + 1 ELSE kWaited
  /\ kLate' = IF InTime \/ StillReading THEN kLate ELSE kLate + 1
  /\ UNCHANGED <<kCommand, kStage, endVars, serverVars, wireVars>>

ClientNext ==
  \/ Start \/ Resolve \/ Explain \/ ReadCode \/ Write \/ Receive
  \/ ReadSome \/ ReadEof \/ Reject \/ Dispatch \/ Reply \/ WriteBack
  \/ SessionsChange \/ Killed \/ Tick

ClientSpec == ClientInit /\ [][ClientNext]_clientVars

------------------------------------------------------------------------------
(* Properties.                                                             *)

\* Exit code 0 is an answer of the session asked for to this request; 3, or code that
\* cannot be had, means that nothing was sent; and a 4 that names an error is the server's.
CodesTellWho ==
  kStage = "done" =>
    /\ kExit.code = 0 /\ kCommand.verb # "list" =>
         /\ kAnswer = Result /\ Parses(extract_body(kRead))
         /\ kCommand.pid \in {AnyPid, kTarget}
    /\ kExit.code = 3 \/ kExit.error \in {"NO_CODE_PROVIDED", "STDIN_READ_ERROR"} =>
         kServer = "none" /\ kUnsent = Pieces(kRequest)
    /\ kExit.code = 4 /\ kExit.error # "PROTOCOL_ERROR" => kAnswer.error = kExit.error

\* A request that was written to its end, and is not too large, is never taken for a
\* broken one, however it was cut.
CutsDoNotMatter ==
  kAnswer.error = "PARSE_ERROR" => kUnsent # <<>> \/ kRequest.form = "no_json"

\* An eval, and a session request, hears of the server's timeout: the client never gives up
\* first.  (A send does: both wait five minutes.)
ServerGivesUpFirst ==
  kExit.error = "READ_TIMED_OUT" => kCommand.verb = "send" \/ ~Ours

\* A client's exit code and message tell what has become of its request.
ClientTellsTruth == CodesTellWho /\ CutsDoNotMatter /\ ServerGivesUpFirst
=============================================================================
