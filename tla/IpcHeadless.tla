----------------------------- MODULE IpcHeadless -----------------------------
(***************************************************************************)
(* The main thread of `arf headless` (app/headless.rs): a loop that drains *)
(* the IPC queue, evaluates each request at once on the R thread           *)
(* (headless_handle_request in ipc/mod.rs) and records it, until a signal  *)
(* or a shutdown request raises the shutdown flag.                         *)
(***************************************************************************)
EXTENDS IpcTransport

CONSTANT NoReq

ASSUME HeadlessAssumption == Headless /\ NoReq \notin Requests

VARIABLES
  pc,      \* where the main thread is
  current, \* the request it handles
  saved,   \* the requests recorded in the headless history
  ran      \* history: how often a request's code was handed to R

mainVars == <<pc, current, saved>>
vars     == <<transportVars, mainVars, ran>>

Locations == {"starting", "checking", "polling", "evaluating", "saving", "stopping", "done"}

TypeOK ==
  /\ TransportTypeOK
  /\ pc \in Locations
  /\ current \in Requests \cup {NoReq}
  /\ saved \in SUBSET Requests
  /\ ran \in [Requests -> Nat]

\* The server listens before the loop is entered.
Init ==
  /\ TransportInit
  /\ listening
  /\ pc = "starting" /\ current = NoReq
  /\ saved = {}
  /\ ran = [r \in Requests |-> 0]

-----------------------------------------------------------------------------
\* The rest of the start-up.  When the PID file cannot be written the server is
\* stopped again.
Started ==
  /\ pc = "starting"
  /\ pc' \in {"checking", "stopping"}
  /\ \/ pc' = "checking" /\ UNCHANGED <<slot, queue, receiver>>
     \/ /\ pc' = "stopping"
        /\ receiver' = FALSE /\ queue' = <<>>
        /\ slot' = [r \in Requests |-> IF r \in Queued THEN Sent(r, "dropped") ELSE slot[r]]
  /\ UNCHANGED <<connVars, listening, modeVars, current, saved, ran>>

\* SIGINT, SIGTERM or SIGHUP.
Signal ==
  /\ pc \notin {"starting", "done"} /\ ~shutdownRequested
  /\ shutdownRequested' = TRUE
  /\ UNCHANGED <<connVars, slot, channelVars, inAlternateMode, mainVars, ran>>

\* Mutant: the loop goes on whatever the flag says.
EnterLoopAlways ==
  /\ pc = "checking"
  /\ pc' = "polling"
  /\ UNCHANGED <<transportVars, current, saved, ran>>

\* The head of the main loop: the only place that looks at the flag.
EnterLoop ==
  /\ pc = "checking" /\ ~shutdownRequested
  /\ pc' = "polling"
  /\ UNCHANGED <<transportVars, current, saved, ran>>

\* Mutant: the loop is only left with an empty queue, which nobody empties any more.
LeaveLoopWhenIdle ==
  /\ pc = "checking" /\ shutdownRequested /\ queue = <<>>
  /\ pc' = "stopping"
  /\ receiver' = FALSE
  /\ UNCHANGED <<connVars, slot, queue, listening, modeVars, current, saved, ran>>

\* ipc::stop_server up to server::stop_server; nothing is pending in this mode.
LeaveLoop ==
  /\ pc = "checking" /\ shutdownRequested
  /\ pc' = "stopping"
  /\ receiver' = FALSE /\ queue' = <<>>
  /\ slot' = [r \in Requests |-> IF r \in Queued THEN Sent(r, "dropped") ELSE slot[r]]
  /\ UNCHANGED <<connVars, listening, modeVars, current, saved, ran>>

\* try_recv and headless_handle_request up to the evaluation.
Take ==
  /\ pc = "polling" /\ queue # <<>>
  /\ queue' = Tail(queue)
  /\ LET r == Head(queue)
     IN \/ /\ kind[r] = "session" /\ Reply(r, "Session")
           /\ UNCHANGED <<pc, current, ran>>
        \/ /\ kind[r] = "denied" /\ Reply(r, "R_EVAL_NOT_ALLOWED")
           /\ UNCHANGED <<pc, current, ran>>
        \/ /\ kind[r] \notin {"session", "denied"}
           /\ pc' = "evaluating" /\ current' = r
           /\ ran' = [ran EXCEPT ![r] = @ + 1]
           /\ UNCHANGED slot
  /\ UNCHANGED <<connVars, receiver, listening, modeVars, saved>>

\* Mutant: a failed user_input is not recorded.
EvaluatedUnsaved ==
  /\ pc = "evaluating"
  /\ \/ /\ \/ kind[current] # "user_input" /\ Reply(current, "Evaluate")
           \/ kind[current] = "user_input" /\ Reply(current, "UserInput")
        /\ pc' = "saving" /\ UNCHANGED current
     \/ /\ kind[current] = "user_input" /\ Reply(current, "UserInputFailed")
        /\ pc' = "polling" /\ current' = NoReq
  /\ UNCHANGED <<connVars, channelVars, modeVars, saved, ran>>

\* R is done: the reply goes out first.  A failed evaluate is a normal result, a
\* failed user_input is not accepted.
Evaluated ==
  /\ pc = "evaluating"
  /\ \/ kind[current] # "user_input" /\ Reply(current, "Evaluate")
     \/ kind[current] = "user_input" /\ Reply(current, "UserInput")
     \/ kind[current] = "user_input" /\ Reply(current, "UserInputFailed")
  /\ pc' = "saving"
  /\ UNCHANGED <<connVars, channelVars, modeVars, current, saved, ran>>

\* save_to_headless_history, then back to the queue.
Save ==
  /\ pc = "saving"
  /\ saved' = saved \cup {current}
  /\ current' = NoReq /\ pc' = "polling"
  /\ UNCHANGED <<transportVars, ran>>

\* The queue is empty: R events, a short sleep, and the loop again.
LoopBack ==
  /\ pc = "polling" /\ queue = <<>>
  /\ pc' = "checking"
  /\ UNCHANGED <<transportVars, current, saved, ran>>

\* server::stop_server, and the process ends.
JoinServer ==
  /\ pc = "stopping"
  /\ DropConnections
  /\ pc' = "done"
  /\ UNCHANGED <<kind, due, queue, receiver, modeVars, current, saved, ran>>

\* The evaluated code ends the process.
Vanish ==
  /\ pc = "evaluating"
  /\ DropConnections
  /\ receiver' = FALSE /\ queue' = <<>>
  /\ pc' = "done"
  /\ UNCHANGED <<kind, due, modeVars, current, saved, ran>>

-----------------------------------------------------------------------------
ClientSends(r) == (\E k \in Kinds : Accept(r, k)) /\ UNCHANGED <<mainVars, ran>>
Server(r)      == ServerStep(r) /\ UNCHANGED <<mainVars, ran>>
Clock(r)       == Elapse(r) /\ UNCHANGED <<mainVars, ran>>

MainRuns ==
  \/ Started \/ EnterLoop \/ LeaveLoop \/ Take \/ Evaluated \/ Save \/ LoopBack \/ JoinServer

Terminated == pc = "done" /\ UNCHANGED vars

Next ==
  \/ \E r \in Requests : ClientSends(r) \/ Server(r) \/ Clock(r)
  \/ MainRuns \/ Signal \/ Vanish
  \/ Terminated

Spec == Init /\ [][Next]_vars

\* The threads are scheduled, and evaluations end.  No timeout need ever elapse.
FairSpec ==
  /\ Spec
  /\ \A r \in Requests : WF_vars(Server(r))
  /\ WF_vars(MainRuns)

-----------------------------------------------------------------------------
\* The same promise as in the interactive session, with no user to refuse.
Promise == INSTANCE IpcPromise WITH
  submitted <- {r \in Requests : conn[r] # "idle"},
  outcome   <- [r \in Requests |-> Outcome(answer[r])]

\* At most once, success only after it ran, and never after a refusal; a shutdown
\* drops what is queued, and those clients learn that their code did not run.
KeepsPromise == Promise!Spec

\* The reply leaves before the history entry is written; still no code runs while
\* an earlier one is unrecorded, so the record is complete and in order of
\* execution except for the request in hand (save_to_headless_history).
RecordedBeforeNext ==
  \A r \in Requests : ran[r] > 0 => r \in saved \cup {current}

\* A shutdown request or a signal ends the process, although only the head of the
\* loop looks at the flag and the queue is drained first.
ShutdownCompletes == shutdownRequested ~> (pc = "done")

\* A client always gets an answer, or loses its connection, without any timeout:
\* also when the shutdown of another client overtakes its request in the queue, the
\* main thread replies to what it takes and drops what it does not.
EveryRequestAnswered ==
  \A r \in Requests : (conn[r] \in {"parsed", "waiting"}) ~> (conn[r] = "done")
=============================================================================
