--------------------------- MODULE IpcReplProofs ---------------------------
(***************************************************************************)
(* Proofs about IpcRepl, for every set of requests and kinds and whichever *)
(* way the line editor treats a key that competes with the break signal:   *)
(* the type invariant, the exclusive use of the output capture, and the    *)
(* ownership of the reply channels. Then what a request is from its        *)
(* client's and from the terminal user's side: the interactive session     *)
(* implements IpcPromise, a client's code disturbs neither what the user   *)
(* types nor the shell editor or a pager, and, where the editor looks at   *)
(* the break signal first, it runs at the command prompt only.             *)
(***************************************************************************)
EXTENDS IpcRepl, TLAPS

USE TransportAssumption, ReplAssumption

-----------------------------------------------------------------------------
(* Type correctness: the channel and the transport's steps.                *)

\* The channel of a fresh or a dropped receiver.
LEMMA EmptyQueue == <<>> \in Seq(Requests)
OBVIOUS

\* A reply keeps the oneshot channels in legal states; with no request it is void.
LEMMA ReplyType ==
  ASSUME TypeOK, NEW r \in Requests \cup {NoReq}, NEW v \in Replies \cup {"dropped"}, Reply(r, v)
  PROVE  slot' \in [Requests -> SlotStates]
<1>1. Sent(r, v) \in SlotStates \/ r = NoReq
  BY DEF Sent, SlotStates, TypeOK, TransportTypeOK
<1>2. QED
  BY <1>1 DEF Reply, TypeOK, TransportTypeOK

\* The answer of a finished request is an answer.
LEMMA FinishType ==
  ASSUME TypeOK, NEW r \in Requests, NEW a \in Answers, Finish(r, a)
  PROVE  /\ conn' \in [Requests -> ConnStates]
         /\ answer' \in [Requests -> Answers \cup {NoAnswer}]
         /\ slot' \in [Requests -> SlotStates]
BY DEF Finish, ConnStates, SlotStates, TypeOK, TransportTypeOK

\* Dropping the connections keeps the types.
LEMMA DropType ==
  ASSUME TypeOK, DropConnections
  PROVE  /\ conn' \in [Requests -> ConnStates]
         /\ answer' \in [Requests -> Answers \cup {NoAnswer}]
         /\ slot' \in [Requests -> SlotStates]
         /\ listening' \in BOOLEAN
<1>1. "CONNECTION_LOST" \in Answers
  BY DEF Answers, ServerAnswers
<1>2. QED
  BY <1>1 DEF DropConnections, ConnStates, SlotStates, TypeOK, TransportTypeOK

\* What a client or the server thread does keeps the types.
LEMMA TransportStepType ==
  ASSUME TypeOK, NEW r \in Requests, ClientSends(r) \/ Server(r) \/ Clock(r)
  PROVE  TypeOK'
<1> USE DEF connVars, channelVars, modeVars
<1>1. UNCHANGED <<mainVars, ran>>
  BY DEF ClientSends, Server, Clock
<1>2. MainTypeOK'
  BY <1>1 DEF TypeOK, MainTypeOK, mainVars, terminalVars, opVars, captureVars
<1>3. CASE ClientSends(r)
  <2>1. PICK k \in Kinds : Accept(r, k)
    BY <1>3 DEF ClientSends
  <2>2. kind' \in [Requests -> AllKinds \cup {NoKind}]
    BY <2>1 DEF Accept, TypeOK, TransportTypeOK
  <2>3. /\ conn' \in [Requests -> ConnStates]
        /\ answer' \in [Requests -> Answers \cup {NoAnswer}]
        /\ slot' \in [Requests -> SlotStates]
        /\ shutdownRequested' \in BOOLEAN
    <3>1. CASE AnswersAtOnce(k) = {} /\ k # "shutdown"
      BY <2>1, <3>1 DEF Accept, Finish, ConnStates, TypeOK, TransportTypeOK
    <3>2. CASE AnswersAtOnce(k) = {} /\ k = "shutdown"
      BY <2>1, <3>2 DEF Accept, TriggerShutdown, ConnStates, SlotStates, Replies, TypeOK,
                        TransportTypeOK
    <3>3. CASE AnswersAtOnce(k) # {}
      <4>1. AnswersAtOnce(k) \subseteq Answers
        BY DEF AnswersAtOnce, Answers, ServerAnswers
      <4>2. PICK a \in AnswersAtOnce(k) : Finish(r, a) /\ UNCHANGED shutdownRequested
        BY <2>1, <3>3 DEF Accept
      <4>3. QED
        BY <4>1, <4>2, FinishType DEF TypeOK, TransportTypeOK
    <3>4. QED
      BY <3>1, <3>2, <3>3
  <2>4. QED
    BY <1>2, <2>1, <2>2, <2>3 DEF Accept, TypeOK, TransportTypeOK
<1>4. CASE Server(r)
  <2>1. /\ "SessionFallback" \in Answers /\ "UNAVAILABLE" \in Answers
        /\ "HANDLER_DROPPED" \in Answers /\ "TIMED_OUT" \in Answers
    BY DEF Answers, ServerAnswers
  <2>2. CASE Send(r) /\ receiver
    <3>1. Append(queue, r) \in Seq(Requests)
      BY DEF TypeOK, TransportTypeOK
    <3>2. QED
      BY <1>2, <2>2, <3>1 DEF Send, ConnStates, SlotStates, TypeOK, TransportTypeOK
  <2>3. CASE Send(r) /\ ~receiver
    BY <1>2, <2>1, <2>3, FinishType DEF Send, TypeOK, TransportTypeOK
  <2>4. CASE Deliver(r)
    BY <1>2, <2>4, FinishType DEF Deliver, Answers, TypeOK, TransportTypeOK
  <2>5. CASE SenderDropped(r)
    BY <1>2, <2>1, <2>5, FinishType DEF SenderDropped, TypeOK, TransportTypeOK
  <2>6. CASE Timeout(r)
    BY <1>2, <2>1, <2>6, FinishType DEF Timeout, TypeOK, TransportTypeOK
  <2>7. QED
    BY <1>4, <2>2, <2>3, <2>4, <2>5, <2>6 DEF Server, ServerStep, Send
<1>5. CASE Clock(r)
  BY <1>2, <1>5 DEF Clock, Elapse, TypeOK, TransportTypeOK
<1>6. QED
  BY <1>3, <1>4, <1>5

-----------------------------------------------------------------------------
(* Type correctness: the main thread's steps.                              *)

\* A finished visible evaluate, or none, keeps the types.
LEMMA PollType ==
  ASSUME TypeOK, Poll, pc \in {"reading", "approving"}
  PROVE  TypeOK'
<1>1. "EVAL_TIMED_OUT" \in Replies /\ "Evaluate" \in Replies
  BY DEF Replies
<1>2. /\ slot' \in [Requests -> SlotStates]
      /\ visible' \in Requests \cup {NoReq} /\ capture' \in BOOLEAN
      /\ captured' \in SUBSET Authors
  <2>1. CASE \E v \in Replies : FinishVisible(v)
    BY <2>1, ReplyType DEF FinishVisible, TypeOK, MainTypeOK
  <2>2. CASE UNCHANGED <<slot, captureVars>>
    BY <2>2 DEF captureVars, TypeOK, MainTypeOK, TransportTypeOK
  <2>3. QED
    BY <1>1, <2>1, <2>2 DEF Poll, CheckVisibleEval
<1>3. TransportTypeOK'
  BY <1>2 DEF Poll, connVars, channelVars, modeVars, TypeOK, TransportTypeOK
<1>4. MainTypeOK'
  BY <1>2 DEF Poll, terminalVars, opVars, Locations, TypeOK, MainTypeOK
<1>5. QED
  BY <1>3, <1>4 DEF TypeOK

\* What the main thread does keeps the types.
LEMMA MainStepType ==
  ASSUME TypeOK, MainStep
  PROVE  TypeOK'
<1>1. ASSUME NEW k \in PromptKinds, ReadConsole(k) PROVE TypeOK'
  <2>1. TransportTypeOK'
    BY <1>1 DEF ReadConsole, transportVars, connVars, channelVars, modeVars, TransportTypeOK, TypeOK
  <2>2. captured' \in SUBSET Authors /\ capture' \in BOOLEAN
    BY <1>1 DEF ReadConsole, TakeOperation, StartSilent, OutputArrives, Authors, MainTypeOK, TypeOK
  <2>3. ran' \in [Requests -> Nat]
    <3>1. CASE UNCHANGED ran
      BY <3>1 DEF MainTypeOK, TypeOK
    <3>2. CASE pendingOp \in Requests /\ ran' = [ran EXCEPT ![pendingOp] = @ + 1]
      BY <3>2 DEF MainTypeOK, TypeOK
    <3>3. QED
      BY <1>1, <3>1, <3>2 DEF ReadConsole, TakeOperation, StartSilent, MainTypeOK, TypeOK
  <2>4. /\ pc' \in Locations
        /\ pendingOp' \in Requests \cup {NoReq} /\ current' \in Requests \cup {NoReq}
    BY <1>1 DEF ReadConsole, TakeOperation, StartSilent, Locations, opVars, MainTypeOK, TypeOK
  <2>5. /\ atPrompt' \in BOOLEAN /\ running' \in Authors \cup {NoReq} /\ prompt' = k
        /\ UNCHANGED <<shell, buffer, sendAllow, savedMode, breakSignal, visible>>
    BY <1>1 DEF ReadConsole, TakeOperation, MainTypeOK, TypeOK
  <2>6. MainTypeOK'
    BY <1>1, <2>2, <2>3, <2>4, <2>5 DEF MainTypeOK, TypeOK
  <2>7. QED
    BY <2>1, <2>6 DEF TypeOK
<1>2. CASE SilentDone
  <2>1. {"Evaluate"} \subseteq Replies
    BY DEF Replies
  <2>2. slot' \in [Requests -> SlotStates]
    BY <1>2, <2>1, ReplyType DEF SilentDone, MainTypeOK, TransportTypeOK, TypeOK
  <2>3. TransportTypeOK'
    BY <1>2, <2>2 DEF SilentDone, transportVars, connVars, channelVars, modeVars,
       TransportTypeOK, TypeOK
  <2>4. MainTypeOK'
    BY <1>2 DEF SilentDone, terminalVars, opVars, captureVars, Locations, PromptKinds,
       MainTypeOK, TypeOK
  <2>5. QED
    BY <2>3, <2>4 DEF TypeOK
<1>3. CASE Approve
  <2>1. TransportTypeOK'
    BY <1>3 DEF Approve, transportVars, connVars, channelVars, modeVars, TransportTypeOK, TypeOK
  <2>2. MainTypeOK'
    BY <1>3 DEF Approve, terminalVars, opVars, captureVars, Locations, PromptKinds,
       MainTypeOK, TypeOK
  <2>3. QED
    BY <2>1, <2>2 DEF TypeOK
<1>4. CASE Decline
  <2>1. {"INPUT_NOT_APPROVED"} \subseteq Replies
    BY DEF Replies
  <2>2. slot' \in [Requests -> SlotStates]
    BY <1>4, <2>1, ReplyType DEF Decline, MainTypeOK, TransportTypeOK, TypeOK
  <2>3. TransportTypeOK'
    BY <1>4, <2>2 DEF Decline, transportVars, connVars, channelVars, modeVars,
       TransportTypeOK, TypeOK
  <2>4. MainTypeOK'
    BY <1>4 DEF Decline, terminalVars, opVars, captureVars, Locations, PromptKinds,
       MainTypeOK, TypeOK
  <2>5. QED
    BY <2>3, <2>4 DEF TypeOK
<1>5. CASE Inject
  <2>1. TransportTypeOK'
    <3>1. "UserInput" \in Replies
      BY DEF Replies
    <3>2. slot' \in [Requests -> SlotStates]
      BY <1>5, <3>1, ReplyType DEF Inject, MainTypeOK, TransportTypeOK, TypeOK
    <3>3. QED
      BY <1>5, <3>2 DEF Inject, transportVars, connVars, channelVars, modeVars,
         TransportTypeOK, TypeOK
  <2>2. ran' \in [Requests -> Nat]
    <3>1. ran' = [ran EXCEPT ![current] = @ + 1] /\ current \in Requests \cup {NoReq}
      BY <1>5 DEF Inject, MainTypeOK, TypeOK
    <3>2. ran \in [Requests -> Nat]
      BY DEF MainTypeOK, TypeOK
    <3>3. CASE current = NoReq
      BY <3>1, <3>2, <3>3
    <3>4. CASE current \in Requests
      BY <3>1, <3>2, <3>4
    <3>5. QED
      BY <3>1, <3>3, <3>4
  <2>3. /\ visible' \in Requests \cup {NoReq} /\ capture' \in BOOLEAN
        /\ captured' \in SUBSET Authors
    BY <1>5 DEF Inject, captureVars, MainTypeOK, TypeOK
  <2>4. /\ pc' = "R" /\ running' \in Authors \cup {NoReq}
        /\ atPrompt' \in BOOLEAN /\ current' = NoReq
        /\ UNCHANGED <<terminalVars, breakSignal, pendingOp>>
    BY <1>5 DEF Inject, Authors, MainTypeOK, TypeOK
  <2>5. MainTypeOK'
    BY <2>2, <2>3, <2>4 DEF terminalVars, Locations, MainTypeOK, TypeOK
  <2>6. QED
    BY <2>1, <2>5 DEF TypeOK
<1>6. CASE IdleTick
  BY <1>6, PollType DEF IdleTick, EditorReads
<1>7. CASE ApprovalTick
  BY <1>7, PollType DEF ApprovalTick
<1>8. CASE Drain
  <2>1. Head(queue) \in Requests /\ Tail(queue) \in Seq(Requests)
    BY <1>8 DEF Drain, TransportTypeOK, TypeOK
  <2>2. {"Session", "SessionNoR"} \subseteq Replies
    BY DEF Replies
  <2>3. Refusal(Head(queue)) \in Replies \cup {NoAnswer}
    BY DEF Refusal, Replies
  <2>4. /\ slot' \in [Requests -> SlotStates]
        /\ pendingOp' \in Requests \cup {NoReq} /\ breakSignal' \in BOOLEAN
    <3>1. CASE HandleSession(Head(queue))
      BY <2>1, <2>2, <3>1, ReplyType DEF HandleSession, MainTypeOK, TypeOK
    <3>2. CASE HandleCode(Head(queue))
      BY <2>1, <2>3, <3>2, ReplyType DEF HandleCode, MainTypeOK, TransportTypeOK, TypeOK
    <3>3. QED
      BY <1>8, <3>1, <3>2 DEF Drain
  <2>5. TransportTypeOK'
    BY <1>8, <2>1, <2>4 DEF Drain, transportVars, connVars, channelVars, modeVars,
       TransportTypeOK, TypeOK
  <2>6. MainTypeOK'
    BY <1>8, <2>4 DEF Drain, terminalVars, opVars, captureVars, Locations, PromptKinds,
       MainTypeOK, TypeOK
  <2>7. QED
    BY <2>5, <2>6 DEF TypeOK
<1>9. CASE DrainDone
  <2>1. TransportTypeOK'
    BY <1>9 DEF DrainDone, transportVars, connVars, channelVars, modeVars, TransportTypeOK, TypeOK
  <2>2. MainTypeOK'
    BY <1>9 DEF DrainDone, terminalVars, opVars, captureVars, Locations, PromptKinds,
       MainTypeOK, TypeOK
  <2>3. QED
    BY <2>1, <2>2 DEF TypeOK
<1>10. CASE Type
  <2>1. TransportTypeOK'
    BY <1>10 DEF Type, transportVars, connVars, channelVars, modeVars, TransportTypeOK, TypeOK
  <2>2. MainTypeOK'
    BY <1>10 DEF Type, terminalVars, opVars, captureVars, Locations, PromptKinds, MainTypeOK, TypeOK
  <2>3. QED
    BY <2>1, <2>2 DEF TypeOK
<1>11. CASE Break
  <2>1. TransportTypeOK'
    <3>1. "USER_IS_TYPING" \in Replies
      BY DEF Replies
    <3>2. slot' \in [Requests -> SlotStates]
      BY <1>11, <3>1, ReplyType DEF Break, MainTypeOK, TransportTypeOK, TypeOK
    <3>3. QED
      BY <1>11, <3>2 DEF Break, transportVars, connVars, channelVars, modeVars,
         TransportTypeOK, TypeOK
  <2>2. ran' \in [Requests -> Nat]
    <3>1. CASE UNCHANGED ran
      BY <3>1 DEF MainTypeOK, TypeOK
    <3>2. CASE pendingOp \in Requests /\ ran' = [ran EXCEPT ![pendingOp] = @ + 1]
      BY <3>2 DEF MainTypeOK, TypeOK
    <3>3. QED
      BY <1>11, <3>1, <3>2 DEF Break, TakeOperation, StartSilent, MainTypeOK, TypeOK
  <2>3. /\ pc' \in Locations
        /\ pendingOp' \in Requests \cup {NoReq} /\ current' \in Requests \cup {NoReq}
    BY <1>11 DEF Break, TakeOperation, StartSilent, Locations, opVars, MainTypeOK, TypeOK
  <2>4. captured' \in SUBSET Authors /\ capture' \in BOOLEAN
    BY <1>11 DEF Break, TakeOperation, StartSilent, MainTypeOK, TypeOK
  <2>5. /\ atPrompt' \in BOOLEAN /\ breakSignal' \in BOOLEAN
        /\ UNCHANGED <<terminalVars, running, visible>>
    BY <1>11 DEF Break, TakeOperation, MainTypeOK, TypeOK
  <2>6. MainTypeOK'
    BY <2>2, <2>3, <2>4, <2>5 DEF terminalVars, MainTypeOK, TypeOK
  <2>7. QED
    BY <2>1, <2>6 DEF TypeOK
<1>12. CASE EnterLine
  <2>1. TransportTypeOK'
    BY <1>12 DEF EnterLine, transportVars, connVars, channelVars, modeVars, TransportTypeOK, TypeOK
  <2>2. MainTypeOK'
    BY <1>12 DEF EnterLine, Authors, terminalVars, opVars, captureVars, Locations,
       PromptKinds, MainTypeOK, TypeOK
  <2>3. QED
    BY <2>1, <2>2 DEF TypeOK
<1>13. CASE CtrlC
  <2>1. TransportTypeOK'
    BY <1>13 DEF CtrlC, transportVars, connVars, channelVars, modeVars, TransportTypeOK, TypeOK
  <2>2. MainTypeOK'
    BY <1>13 DEF CtrlC, terminalVars, opVars, captureVars, Locations, PromptKinds, MainTypeOK,
       TypeOK
  <2>3. QED
    BY <2>1, <2>2 DEF TypeOK
<1>14. ASSUME NEW b \in BOOLEAN, SetShell(b) PROVE TypeOK'
  <2>1. TransportTypeOK'
    BY <1>14 DEF SetShell, transportVars, connVars, channelVars, modeVars, TransportTypeOK,
       TypeOK, MainTypeOK
  <2>2. MainTypeOK'
    BY <1>14 DEF SetShell, terminalVars, opVars, captureVars, Locations, PromptKinds,
       MainTypeOK, TypeOK
  <2>3. QED
    BY <2>1, <2>2 DEF TypeOK
<1>15. CASE OtherMeta
  <2>1. TransportTypeOK'
    BY <1>15 DEF OtherMeta, transportVars, connVars, channelVars, modeVars, TransportTypeOK,
       TypeOK, MainTypeOK
  <2>2. MainTypeOK'
    BY <1>15 DEF OtherMeta, terminalVars, opVars, captureVars, Locations, PromptKinds,
       MainTypeOK, TypeOK
  <2>3. QED
    BY <2>1, <2>2 DEF TypeOK
<1>16. ASSUME NEW b \in BOOLEAN, SetSendPolicy(b) PROVE TypeOK'
  <2>1. TransportTypeOK'
    BY <1>16 DEF SetSendPolicy, transportVars, connVars, channelVars, modeVars,
       TransportTypeOK, TypeOK, MainTypeOK
  <2>2. MainTypeOK'
    BY <1>16 DEF SetSendPolicy, terminalVars, opVars, captureVars, Locations, PromptKinds,
       MainTypeOK, TypeOK
  <2>3. QED
    BY <2>1, <2>2 DEF TypeOK
<1>17. CASE EnterPager
  <2>1. TransportTypeOK'
    BY <1>17 DEF EnterPager, transportVars, connVars, channelVars, modeVars, TransportTypeOK, TypeOK
  <2>2. savedMode' \in BOOLEAN /\ pc' = "pager" /\ buffer' = "blank"
    BY <1>17 DEF EnterPager, TransportTypeOK, TypeOK
  <2>3. UNCHANGED <<prompt, shell, sendAllow, running, atPrompt, breakSignal, opVars,
                   captureVars, ran>>
    BY <1>17 DEF EnterPager
  <2>4. MainTypeOK'
    BY <2>2, <2>3 DEF terminalVars, opVars, captureVars, Locations, PromptKinds, MainTypeOK, TypeOK
  <2>5. QED
    BY <2>1, <2>4 DEF TypeOK
<1>18. CASE LeavePager
  <2>1. TransportTypeOK'
    BY <1>18 DEF LeavePager, transportVars, connVars, channelVars, modeVars, TransportTypeOK,
       TypeOK, MainTypeOK
  <2>2. MainTypeOK'
    BY <1>18 DEF LeavePager, terminalVars, opVars, captureVars, Locations, PromptKinds,
       MainTypeOK, TypeOK
  <2>3. QED
    BY <2>1, <2>2 DEF TypeOK
<1>19. CASE StartServer
  <2>1. TransportTypeOK'
    BY <1>19 DEF StartServer, OpenServer, transportVars, connVars, channelVars, modeVars,
       TransportTypeOK, TypeOK
  <2>2. MainTypeOK'
    BY <1>19 DEF StartServer, terminalVars, opVars, captureVars, Locations, PromptKinds,
       MainTypeOK, TypeOK
  <2>3. QED
    BY <2>1, <2>2 DEF TypeOK
<1>20. ASSUME NEW b \in BOOLEAN, StopServer(b) PROVE TypeOK'
  <2>1. {"SHUT_DOWN_PENDING", "SHUT_DOWN_VISIBLE"} \subseteq Replies
    BY DEF Replies
  <2>2. slot' \in [Requests -> SlotStates]
    BY <1>20, <2>1 DEF StopServer, SlotAfterStop, Sent, SlotStates, TransportTypeOK, TypeOK
  <2>3. queue' \in Seq(Requests) /\ receiver' \in BOOLEAN
    BY <1>20, EmptyQueue DEF StopServer
  <2>4. UNCHANGED <<connVars, listening, modeVars>>
    BY <1>20 DEF StopServer
  <2>5. TransportTypeOK'
    BY <2>2, <2>3, <2>4 DEF connVars, modeVars, TransportTypeOK, TypeOK
  <2>6. MainTypeOK'
    BY <1>20 DEF StopServer, terminalVars, opVars, captureVars, Locations, PromptKinds,
       MainTypeOK, TypeOK
  <2>7. QED
    BY <2>5, <2>6 DEF TypeOK
<1>21. CASE JoinServer
  <2>1. TransportTypeOK'
    BY <1>21, DropType DEF JoinServer, transportVars, connVars, channelVars, modeVars,
       TransportTypeOK, TypeOK
  <2>2. MainTypeOK'
    BY <1>21 DEF JoinServer, terminalVars, opVars, captureVars, Locations, PromptKinds,
       MainTypeOK, TypeOK
  <2>3. QED
    BY <2>1, <2>2 DEF TypeOK
<1>22. CASE Vanish
  <2>1. queue' \in Seq(Requests) /\ receiver' \in BOOLEAN
    BY <1>22, EmptyQueue DEF Vanish
  <2>2. UNCHANGED <<kind, due, modeVars>> /\ DropConnections
    BY <1>22 DEF Vanish
  <2>3. TransportTypeOK'
    BY <2>1, <2>2, DropType DEF modeVars, TransportTypeOK, TypeOK
  <2>4. MainTypeOK'
    BY <1>22 DEF Vanish, terminalVars, opVars, captureVars, Locations, PromptKinds,
       MainTypeOK, TypeOK
  <2>5. QED
    BY <2>3, <2>4 DEF TypeOK
<1>23. QED
  BY <1>1, <1>2, <1>3, <1>4, <1>5, <1>6, <1>7, <1>8, <1>9, <1>10, <1>11, <1>12, <1>13, <1>14,
     <1>15, <1>16, <1>17, <1>18, <1>19, <1>20, <1>21, <1>22 DEF MainStep, MainRuns, UserActs

\* Every variable of the interactive session keeps its type, whatever R, the user
\* and the clients do.
THEOREM TypeCorrect == Spec => []TypeOK
<1>1. Init => TypeOK
  <2> SUFFICES ASSUME Init PROVE TypeOK
    OBVIOUS
  <2>1. due \in SUBSET Requests /\ queue \in Seq(Requests)
    BY DEF Init, TransportInit
  <2>2. TransportTypeOK
    BY <2>1 DEF Init, TransportInit, TransportTypeOK, ConnStates, SlotStates
  <2>3. captured \in SUBSET Authors /\ ran \in [Requests -> Nat]
    BY DEF Init
  <2>4. MainTypeOK
    BY <2>3 DEF Init, MainTypeOK, Locations, PromptKinds
  <2>5. QED
    BY <2>2, <2>4 DEF TypeOK
<1>2. TypeOK /\ [Next]_vars => TypeOK'
  <2> SUFFICES ASSUME TypeOK, [Next]_vars PROVE TypeOK'
    OBVIOUS
  <2>1. CASE \E r \in Requests : ClientSends(r) \/ Server(r) \/ Clock(r)
    BY <2>1, TransportStepType
  <2>2. CASE MainStep
    BY <2>2, MainStepType
  <2>3. CASE UNCHANGED vars
    <3>1. TransportTypeOK'
      BY <2>3 DEF vars, transportVars, connVars, channelVars, modeVars, TransportTypeOK, TypeOK
    <3>2. MainTypeOK'
      BY <2>3 DEF vars, mainVars, terminalVars, opVars, captureVars, MainTypeOK, TypeOK
    <3>3. QED
      BY <3>1, <3>2 DEF TypeOK
  <2>4. QED
    BY <2>1, <2>2, <2>3 DEF Next, Terminated
<1>3. QED
  BY <1>1, <1>2, PTL DEF Spec

-----------------------------------------------------------------------------
(* Exclusive use of the capture.                                           *)

\* CaptureExclusive is not inductive: that no operation can be accepted while a
\* visible evaluate is pending rests on R counting as busy, and the author of the
\* captured output on who can be running then.
CaptureInv == TypeOK /\ CaptureExclusive /\ BusyWhileInHand

\* handle_request accepts code only at a free prompt.
LEMMA AcceptedAtPrompt ==
  ASSUME NEW r \in Requests, Refusal(r) = NoAnswer
  PROVE  atPrompt /\ pendingOp = NoReq /\ ~inAlternateMode
BY DEF Refusal, NoAnswer

LEMMA CaptureStep ==
  ASSUME CaptureInv, MainStep
  PROVE  CaptureExclusive' /\ BusyWhileInHand'
<1> USE DEF CaptureInv, TypeOK, MainTypeOK, opVars, captureVars, terminalVars
<1>1. ASSUME NEW k \in PromptKinds, ReadConsole(k) PROVE CaptureExclusive' /\ BusyWhileInHand'
  <2>1. CaptureExclusive'
    BY <1>1 DEF ReadConsole, TakeOperation, StartSilent, OutputArrives, CaptureExclusive,
       BusyWhileInHand, Authors
  <2>2. BusyWhileInHand'
    BY <1>1 DEF ReadConsole, TakeOperation, StartSilent, OutputArrives, CaptureExclusive,
       BusyWhileInHand, Authors
  <2>3. QED
    BY <2>1, <2>2
<1>2. CASE SilentDone
  <2>1. CaptureExclusive'
    BY <1>2 DEF SilentDone, CaptureExclusive, BusyWhileInHand, Authors
  <2>2. BusyWhileInHand'
    BY <1>2 DEF SilentDone, CaptureExclusive, BusyWhileInHand, Authors
  <2>3. QED
    BY <2>1, <2>2
<1>3. CASE Approve
  <2>1. CaptureExclusive'
    BY <1>3 DEF Approve, CaptureExclusive, BusyWhileInHand, Authors
  <2>2. BusyWhileInHand'
    BY <1>3 DEF Approve, CaptureExclusive, BusyWhileInHand, Authors
  <2>3. QED
    BY <2>1, <2>2
<1>4. CASE Decline
  <2>1. CaptureExclusive'
    BY <1>4 DEF Decline, CaptureExclusive, BusyWhileInHand, Authors
  <2>2. BusyWhileInHand'
    BY <1>4 DEF Decline, CaptureExclusive, BusyWhileInHand, Authors
  <2>3. QED
    BY <2>1, <2>2
<1>5. CASE Inject
  <2>1. CaptureExclusive'
    BY <1>5 DEF Inject, CaptureExclusive, BusyWhileInHand, Authors
  <2>2. BusyWhileInHand'
    BY <1>5 DEF Inject, CaptureExclusive, BusyWhileInHand, Authors
  <2>3. QED
    BY <2>1, <2>2
<1>6. CASE IdleTick
  <2>1. CaptureExclusive'
    BY <1>6 DEF IdleTick, EditorReads, Poll, CheckVisibleEval, FinishVisible,
       CaptureExclusive, BusyWhileInHand, Authors
  <2>2. BusyWhileInHand'
    BY <1>6 DEF IdleTick, EditorReads, Poll, CheckVisibleEval, FinishVisible,
       CaptureExclusive, BusyWhileInHand, Authors
  <2>3. QED
    BY <2>1, <2>2
<1>7. CASE ApprovalTick
  <2>1. CaptureExclusive'
    BY <1>7 DEF ApprovalTick, Poll, CheckVisibleEval, FinishVisible, CaptureExclusive,
       BusyWhileInHand, Authors
  <2>2. BusyWhileInHand'
    BY <1>7 DEF ApprovalTick, Poll, CheckVisibleEval, FinishVisible, CaptureExclusive,
       BusyWhileInHand, Authors
  <2>3. QED
    BY <2>1, <2>2
<1>8. CASE Drain
  <2>1. Head(queue) \in Requests
    BY <1>8 DEF Drain, TransportTypeOK
  <2>2. (UNCHANGED pendingOp) \/ (atPrompt /\ pendingOp = NoReq /\ pendingOp' # NoReq)
    BY <1>8, <2>1, AcceptedAtPrompt DEF Drain, HandleSession, HandleCode
  <2>3. pc = "draining" /\ UNCHANGED <<pc, running, atPrompt, current, captureVars>>
    BY <1>8 DEF Drain
  <2>4. QED
    BY <2>2, <2>3 DEF CaptureExclusive, BusyWhileInHand
<1>9. CASE DrainDone
  <2>1. CaptureExclusive'
    BY <1>9 DEF DrainDone, CaptureExclusive, BusyWhileInHand, Authors
  <2>2. BusyWhileInHand'
    BY <1>9 DEF DrainDone, CaptureExclusive, BusyWhileInHand, Authors
  <2>3. QED
    BY <2>1, <2>2
<1>10. CASE Type
  <2>1. CaptureExclusive'
    BY <1>10 DEF Type, EditorReads, CaptureExclusive, BusyWhileInHand, Authors
  <2>2. BusyWhileInHand'
    BY <1>10 DEF Type, EditorReads, CaptureExclusive, BusyWhileInHand, Authors
  <2>3. QED
    BY <2>1, <2>2
<1>11. CASE Break
  <2>1. CaptureExclusive'
    BY <1>11 DEF Break, EditorReads, TakeOperation, StartSilent, CaptureExclusive,
       BusyWhileInHand, Authors
  <2>2. BusyWhileInHand'
    BY <1>11 DEF Break, EditorReads, TakeOperation, StartSilent, CaptureExclusive,
       BusyWhileInHand, Authors
  <2>3. QED
    BY <2>1, <2>2
<1>12. CASE EnterLine
  <2>1. CaptureExclusive'
    BY <1>12 DEF EnterLine, EditorReturns, EditorReads, CaptureExclusive, BusyWhileInHand, Authors
  <2>2. BusyWhileInHand'
    BY <1>12 DEF EnterLine, EditorReturns, EditorReads, CaptureExclusive, BusyWhileInHand, Authors
  <2>3. QED
    BY <2>1, <2>2
<1>13. CASE CtrlC
  <2>1. CaptureExclusive'
    BY <1>13 DEF CtrlC, EditorReturns, EditorReads, CaptureExclusive, BusyWhileInHand, Authors
  <2>2. BusyWhileInHand'
    BY <1>13 DEF CtrlC, EditorReturns, EditorReads, CaptureExclusive, BusyWhileInHand, Authors
  <2>3. QED
    BY <2>1, <2>2
<1>14. ASSUME NEW b \in BOOLEAN, SetShell(b) PROVE CaptureExclusive' /\ BusyWhileInHand'
  <2>1. CaptureExclusive'
    BY <1>14 DEF SetShell, MetaLine, EditorReturns, EditorReads, CaptureExclusive,
       BusyWhileInHand, Authors
  <2>2. BusyWhileInHand'
    BY <1>14 DEF SetShell, MetaLine, EditorReturns, EditorReads, CaptureExclusive,
       BusyWhileInHand, Authors
  <2>3. QED
    BY <2>1, <2>2
<1>15. CASE OtherMeta
  <2>1. CaptureExclusive'
    BY <1>15 DEF OtherMeta, MetaLine, EditorReturns, EditorReads, CaptureExclusive,
       BusyWhileInHand, Authors
  <2>2. BusyWhileInHand'
    BY <1>15 DEF OtherMeta, MetaLine, EditorReturns, EditorReads, CaptureExclusive,
       BusyWhileInHand, Authors
  <2>3. QED
    BY <2>1, <2>2
<1>16. ASSUME NEW b \in BOOLEAN, SetSendPolicy(b) PROVE CaptureExclusive' /\ BusyWhileInHand'
  <2>1. CaptureExclusive'
    BY <1>16 DEF SetSendPolicy, MetaLine, EditorReturns, EditorReads, CaptureExclusive,
       BusyWhileInHand, Authors
  <2>2. BusyWhileInHand'
    BY <1>16 DEF SetSendPolicy, MetaLine, EditorReturns, EditorReads, CaptureExclusive,
       BusyWhileInHand, Authors
  <2>3. QED
    BY <2>1, <2>2
<1>17. CASE EnterPager
  <2>1. CaptureExclusive'
    BY <1>17 DEF EnterPager, MetaLine, EditorReturns, EditorReads, CaptureExclusive,
       BusyWhileInHand, Authors
  <2>2. BusyWhileInHand'
    BY <1>17 DEF EnterPager, MetaLine, EditorReturns, EditorReads, CaptureExclusive,
       BusyWhileInHand, Authors
  <2>3. QED
    BY <2>1, <2>2
<1>18. CASE LeavePager
  <2>1. CaptureExclusive'
    BY <1>18 DEF LeavePager, CaptureExclusive, BusyWhileInHand, Authors
  <2>2. BusyWhileInHand'
    BY <1>18 DEF LeavePager, CaptureExclusive, BusyWhileInHand, Authors
  <2>3. QED
    BY <2>1, <2>2
<1>19. CASE StartServer
  <2>1. CaptureExclusive'
    BY <1>19 DEF StartServer, MetaLine, EditorReturns, EditorReads, CaptureExclusive,
       BusyWhileInHand, Authors
  <2>2. BusyWhileInHand'
    BY <1>19 DEF StartServer, MetaLine, EditorReturns, EditorReads, CaptureExclusive,
       BusyWhileInHand, Authors
  <2>3. QED
    BY <2>1, <2>2
<1>20. ASSUME NEW b \in BOOLEAN, StopServer(b) PROVE CaptureExclusive' /\ BusyWhileInHand'
  <2>1. CaptureExclusive'
    BY <1>20 DEF StopServer, MetaLine, EditorReturns, EditorReads, CaptureExclusive,
       BusyWhileInHand, Authors
  <2>2. BusyWhileInHand'
    BY <1>20 DEF StopServer, MetaLine, EditorReturns, EditorReads, CaptureExclusive,
       BusyWhileInHand, Authors
  <2>3. QED
    BY <2>1, <2>2
<1>21. CASE JoinServer
  <2>1. CaptureExclusive'
    BY <1>21 DEF JoinServer, CaptureExclusive, BusyWhileInHand, Authors
  <2>2. BusyWhileInHand'
    BY <1>21 DEF JoinServer, CaptureExclusive, BusyWhileInHand, Authors
  <2>3. QED
    BY <2>1, <2>2
<1>22. CASE Vanish
  <2>1. CaptureExclusive'
    BY <1>22 DEF Vanish, MetaLine, EditorReturns, EditorReads, CaptureExclusive,
       BusyWhileInHand, Authors
  <2>2. BusyWhileInHand'
    BY <1>22 DEF Vanish, MetaLine, EditorReturns, EditorReads, CaptureExclusive,
       BusyWhileInHand, Authors
  <2>3. QED
    BY <2>1, <2>2
<1>23. QED
  BY <1>1, <1>2, <1>3, <1>4, <1>5, <1>6, <1>7, <1>8, <1>9, <1>10, <1>11, <1>12, <1>13, <1>14,
     <1>15, <1>16, <1>17, <1>18, <1>19, <1>20, <1>21, <1>22 DEF MainStep, MainRuns, UserActs

\* Silent and visible evaluates never capture at the same time, no operation is
\* accepted or in hand while a visible one is pending, and the capture holds no
\* other client's output.
THEOREM CaptureIsExclusive == Spec => [](CaptureExclusive /\ BusyWhileInHand)
<1>1. Init => CaptureExclusive /\ BusyWhileInHand
  BY DEF Init, CaptureExclusive, BusyWhileInHand
<1>2. TypeOK /\ CaptureExclusive /\ BusyWhileInHand /\ [Next]_vars
        => CaptureExclusive' /\ BusyWhileInHand'
  <2> SUFFICES ASSUME CaptureInv, [Next]_vars
               PROVE  CaptureExclusive' /\ BusyWhileInHand'
    BY DEF CaptureInv
  <2>1. CASE UNCHANGED mainVars
    BY <2>1 DEF mainVars, opVars, captureVars, CaptureInv, CaptureExclusive, BusyWhileInHand
  <2>2. CASE MainStep
    BY <2>2, CaptureStep
  <2>3. QED
    BY <2>1, <2>2 DEF Next, ClientSends, Server, Clock, Terminated, vars
<1>3. QED
  BY <1>1, <1>2, TypeCorrect, PTL DEF Spec

\* While an operation is in hand, or a client's own code runs, R counts as busy and nothing
\* is accepted; after a visible evaluate the queue is drained only once it was collected.
THEOREM BusyInHand == Spec => []BusyWhileInHand
BY CaptureIsExclusive, PTL

-----------------------------------------------------------------------------
(* Ownership of the reply channels.                                        *)

\* Sending appends to what is queued.
LEMMA QueueAppend ==
  ASSUME TypeOK, NoDuplicates, NEW r \in Requests, r \notin Queued, queue' = Append(queue, r)
  PROVE  Queued' = Queued \cup {r} /\ NoDuplicates'
<1>1. queue \in Seq(Requests)
  BY DEF TypeOK, TransportTypeOK
<1>2. /\ Len(queue') = Len(queue) + 1
      /\ queue'[Len(queue) + 1] = r
      /\ \A i \in 1..Len(queue) : queue'[i] = queue[i]
  BY <1>1
<1>3. Queued' = Queued \cup {r}
  BY <1>1, <1>2 DEF Queued
<1>4. NoDuplicates'
  BY <1>1, <1>2 DEF NoDuplicates, Queued
<1>5. QED
  BY <1>3, <1>4

\* Receiving takes the first request, and only that one, from what is queued.
LEMMA QueueTail ==
  ASSUME TypeOK, NoDuplicates, queue # <<>>, queue' = Tail(queue)
  PROVE  /\ Head(queue) \in Queued
         /\ Queued' = Queued \ {Head(queue)}
         /\ NoDuplicates'
<1>1. queue \in Seq(Requests) /\ Len(queue) \in Nat /\ Len(queue) # 0
  BY DEF TypeOK, TransportTypeOK
<1>2. /\ Len(queue') = Len(queue) - 1
      /\ \A i \in 1..Len(queue') : queue'[i] = queue[i + 1]
      /\ Head(queue) = queue[1]
  BY <1>1
<1>3. Head(queue) \in Queued
  BY <1>1, <1>2 DEF Queued
<1>4. Queued' \subseteq Queued \ {Head(queue)}
  BY <1>1, <1>2 DEF Queued, NoDuplicates
<1>5. Queued \ {Head(queue)} \subseteq Queued'
  <2> SUFFICES ASSUME NEW x \in Queued, x # queue[1] PROVE x \in Queued'
    BY <1>2
  <2>1. PICK i \in 1..Len(queue) : x = queue[i]
    BY DEF Queued
  <2>2. i - 1 \in 1..Len(queue') /\ queue'[i - 1] = queue[i]
    BY <1>1, <1>2, <2>1
  <2>3. QED
    BY <2>1, <2>2 DEF Queued
<1>6. NoDuplicates'
  BY <1>1, <1>2 DEF NoDuplicates
<1>7. QED
  BY <1>3, <1>4, <1>5, <1>6

\* An emptied queue.
LEMMA QueueEmptied ==
  ASSUME queue' = <<>>
  PROVE  Queued' = {} /\ NoDuplicates'
BY DEF Queued, NoDuplicates

\* What is queued is made of requests.
LEMMA QueuedType ==
  ASSUME TypeOK
  PROVE  Queued \subseteq Requests
BY DEF Queued, TypeOK, TransportTypeOK

HolderInv == TypeOK /\ CaptureExclusive /\ BusyWhileInHand /\ ReplyHasOneHolder

\* Clients and the server thread: only sending gives the queue a channel, and that
\* of a request nobody held.
LEMMA HolderTransport ==
  ASSUME HolderInv, NEW r \in Requests, ClientSends(r) \/ Server(r) \/ Clock(r)
  PROVE  ReplyHasOneHolder'
<1> USE DEF HolderInv, connVars, channelVars, modeVars
<1>1. UNCHANGED <<pendingOp, current, visible>>
  BY DEF ClientSends, Server, Clock, mainVars, opVars, captureVars
<1>2. CASE UNCHANGED <<queue, listening>>
  <2>1. Queued' = Queued /\ (NoDuplicates' <=> NoDuplicates) /\ Holders' = Holders
    BY <1>1, <1>2 DEF Queued, NoDuplicates, Holders
  <2>2. \A s \in Requests : s # r => conn'[s] = conn[s] /\ slot'[s] = slot[s]
    <3>1. CASE ClientSends(r)
      BY <3>1 DEF ClientSends, Accept, TriggerShutdown, Finish, TypeOK, TransportTypeOK
    <3>2. CASE Server(r) \/ Clock(r)
      BY <3>2 DEF Server, ServerStep, Send, Deliver, SenderDropped, Timeout, Clock, Elapse,
                  Finish, TypeOK, TransportTypeOK
    <3>3. QED
      BY <3>1, <3>2
  <2>3. /\ conn'[r] = "waiting" /\ slot'[r] = "open" => conn[r] = "waiting" /\ slot[r] = "open"
        /\ conn[r] \in {"waiting", "done"} => conn'[r] \in {"waiting", "done"}
        /\ listening \/ conn'[r] \in {"idle", "done"}
    <3>1. CASE ClientSends(r)
      BY <3>1 DEF ClientSends, Accept, TriggerShutdown, Finish, TypeOK, TransportTypeOK
    <3>2. CASE Server(r)
      BY <1>2, <3>2 DEF Server, ServerStep, Send, Deliver, SenderDropped, Timeout, Finish,
                  ReplyHasOneHolder, TypeOK, TransportTypeOK
    <3>3. CASE Clock(r)
      BY <3>3 DEF Clock, Elapse, ReplyHasOneHolder
    <3>4. QED
      BY <3>1, <3>2, <3>3
  <2>4. Holders \subseteq Requests
    BY QueuedType DEF Holders, TypeOK, MainTypeOK
  <2>5. QED
    BY <1>1, <1>2, <2>1, <2>2, <2>3, <2>4 DEF ReplyHasOneHolder
<1>3. CASE Send(r) /\ receiver
  <2>1. r \notin Holders
    BY <1>3 DEF Send, ReplyHasOneHolder
  <2>2. Queued' = Queued \cup {r} /\ NoDuplicates'
    BY <1>3, <2>1, QueueAppend DEF Send, ReplyHasOneHolder, Holders
  <2>3. Holders' = Holders \cup {r} /\ r \notin {pendingOp, current, visible}
    BY <1>1, <2>1, <2>2 DEF Holders
  <2>4. /\ conn' = [conn EXCEPT ![r] = "waiting"] /\ slot' = [slot EXCEPT ![r] = "open"]
        /\ listening' = listening /\ conn[r] = "parsed"
    BY <1>3 DEF Send
  <2>5. conn \in [Requests -> ConnStates] /\ slot \in [Requests -> SlotStates]
    BY DEF TypeOK, TransportTypeOK
  <2>6. Holders \subseteq Requests
    BY QueuedType DEF Holders, TypeOK, MainTypeOK
  <2>7. QED
    BY <1>1, <2>1, <2>2, <2>3, <2>4, <2>5, <2>6 DEF ReplyHasOneHolder
<1>4. QED
  BY <1>2, <1>3 DEF ClientSends, Server, Clock, Accept, ServerStep, Send, Deliver, SenderDropped,
                    Timeout, Elapse

\* No channel has two holders.
HoldersApart ==
  /\ NoDuplicates
  /\ Queued \cap {pendingOp, current, visible} = {}
  /\ pendingOp # NoReq => pendingOp \notin {current, visible}
  /\ current # NoReq => current # visible

\* A step of the main thread that gives no channel away: those who lose their holder
\* are answered, and no channel is reopened.
LEMMA HolderKept ==
  ASSUME HolderInv, UNCHANGED <<conn, listening>>, HoldersApart', Holders' \subseteq Holders,
         \A s \in Requests : slot'[s] = "open" => slot[s] = "open",
         \A s \in Holders \ Holders' : conn[s] = "waiting" => slot'[s] # "open"
  PROVE  ReplyHasOneHolder'
<1>1. Holders \subseteq Requests
  BY QueuedType DEF HolderInv, Holders, TypeOK, MainTypeOK
<1>2. QED
  BY <1>1 DEF HolderInv, ReplyHasOneHolder, HoldersApart

\* Steps that touch neither the queue nor an operation nor a channel.
LEMMA HolderQuiet ==
  ASSUME HolderInv, UNCHANGED <<conn, listening, slot, queue, pendingOp, current, visible>>
  PROVE  ReplyHasOneHolder'
<1>1. Queued' = Queued /\ (NoDuplicates' <=> NoDuplicates)
  BY DEF Queued, NoDuplicates
<1>2. Holders' = Holders
  BY <1>1 DEF Holders
<1>3. QED
  BY <1>1, <1>2 DEF HolderInv, ReplyHasOneHolder

\* A reply does not reopen a channel, and closes the one it is sent on.
LEMMA ReplyCloses ==
  ASSUME TypeOK, NEW x \in Requests, NEW v \in Replies \cup {"dropped"}, Reply(x, v)
  PROVE  /\ \A s \in Requests : slot'[s] = "open" => slot[s] = "open"
         /\ conn[x] = "waiting" => slot'[x] # "open"
<1>1. "open" # v
  BY DEF Replies
<1>2. slot \in [Requests -> SlotStates]
  BY DEF TypeOK, TransportTypeOK
<1>3. QED
  BY <1>1, <1>2 DEF Reply, Sent

\* A held operation is answered, and its channel released.
LEMMA HolderReleased ==
  ASSUME HolderInv, UNCHANGED <<conn, listening, queue>>,
         NEW x \in Requests, NEW v \in Replies, Reply(x, v),
         \/ x = pendingOp /\ pendingOp' = NoReq /\ UNCHANGED <<current, visible>>
         \/ x = current /\ current' = NoReq /\ UNCHANGED <<pendingOp, visible>>
         \/ x = visible /\ visible' = NoReq /\ UNCHANGED <<pendingOp, current>>
  PROVE  ReplyHasOneHolder'
<1>1. Queued' = Queued /\ (NoDuplicates' <=> NoDuplicates)
  BY DEF Queued, NoDuplicates
<1>2. HoldersApart
  BY DEF HolderInv, ReplyHasOneHolder, HoldersApart
<1>3. x # NoReq /\ Queued \subseteq Requests /\ NoReq \notin Requests
  BY ReplAssumption, QueuedType DEF HolderInv
<1>4. HoldersApart'
  BY <1>1, <1>2, <1>3 DEF HoldersApart
<1>5. Holders' = Holders \ {x}
  BY <1>1, <1>2, <1>3 DEF Holders, HoldersApart
<1>6. QED
  BY <1>4, <1>5, HolderKept, ReplyCloses DEF HolderInv

\* An operation changes hands.
LEMMA HolderMoved ==
  ASSUME HolderInv, UNCHANGED <<conn, listening, queue, slot>>,
         \/ /\ current = NoReq /\ current' = pendingOp
            /\ pendingOp' = NoReq /\ UNCHANGED visible
         \/ /\ visible = NoReq /\ visible' = current
            /\ current' = NoReq /\ UNCHANGED pendingOp
  PROVE  ReplyHasOneHolder'
<1>1. Queued' = Queued /\ (NoDuplicates' <=> NoDuplicates)
  BY DEF Queued, NoDuplicates
<1>2. HoldersApart
  BY DEF HolderInv, ReplyHasOneHolder, HoldersApart
<1>3. Queued \subseteq Requests /\ NoReq \notin Requests
  BY ReplAssumption, QueuedType DEF HolderInv
<1>4. HoldersApart'
  BY <1>1, <1>2, <1>3 DEF HoldersApart
<1>5. Holders' = Holders
  BY <1>1 DEF Holders
<1>6. QED
  BY <1>4, <1>5, HolderKept

\* The drain loop: the head of the queue is answered, or becomes the pending operation.
LEMMA HolderDrain ==
  ASSUME HolderInv, Drain
  PROVE  ReplyHasOneHolder'
<1> DEFINE h == Head(queue)
<1>1. /\ h \in Queued /\ Queued' = Queued \ {h} /\ NoDuplicates'
  BY QueueTail DEF HolderInv, Drain, ReplyHasOneHolder
<1>2. UNCHANGED <<conn, listening, current, visible>>
  BY DEF Drain, connVars, captureVars
<1>3. HoldersApart /\ h \in Requests /\ NoReq \notin Requests /\ Queued \subseteq Requests
  BY <1>1, ReplAssumption, QueuedType DEF HolderInv, ReplyHasOneHolder, HoldersApart
<1>4. CASE pendingOp' = pendingOp /\ \E v \in Replies : Reply(h, v)
  <2>1. HoldersApart'
    BY <1>1, <1>2, <1>3, <1>4 DEF HoldersApart
  <2>2. Holders' = Holders \ {h}
    BY <1>1, <1>2, <1>3, <1>4 DEF Holders, HoldersApart
  <2>3. QED
    BY <1>2, <1>3, <1>4, <2>1, <2>2, HolderKept, ReplyCloses DEF HolderInv
<1>5. CASE pendingOp = NoReq /\ pendingOp' = h /\ slot' = slot
  <2>1. HoldersApart'
    BY <1>1, <1>2, <1>3, <1>5 DEF HoldersApart
  <2>2. Holders' = Holders
    BY <1>1, <1>2, <1>3, <1>5 DEF Holders
  <2>3. QED
    BY <1>2, <1>5, <2>1, <2>2, HolderKept
<1>6. CASE HandleSession(h)
  <2>1. {"Session", "SessionNoR"} \subseteq Replies
    BY DEF Replies
  <2>2. QED
    BY <1>4, <1>6, <2>1 DEF HandleSession
<1>7. CASE HandleCode(h)
  <2>1. Refusal(h) # NoAnswer => Refusal(h) \in Replies
    BY DEF Refusal, Replies
  <2>2. Refusal(h) = NoAnswer => pendingOp = NoReq
    BY DEF Refusal, NoAnswer
  <2>3. QED
    BY <1>4, <1>5, <1>7, <2>1, <2>2 DEF HandleCode
<1>8. QED
  BY <1>6, <1>7 DEF Drain

\* ipc::stop_server answers or drops every channel but that of the operation in hand.
LEMMA HolderStop ==
  ASSUME HolderInv, NEW b \in BOOLEAN, StopServer(b)
  PROVE  ReplyHasOneHolder'
<1>1. /\ Queued' = {} /\ NoDuplicates'
      /\ pendingOp' = NoReq /\ visible' = NoReq
      /\ UNCHANGED <<conn, listening, current>>
  BY QueueEmptied DEF StopServer, connVars
<1>2. HoldersApart' /\ Holders' = {current} \ {NoReq}
  BY <1>1 DEF HoldersApart, Holders
<1>3. slot' = [s \in Requests |-> SlotAfterStop(s)]
  BY DEF StopServer
<1>4. Holders \subseteq Requests /\ NoReq \notin Requests
  BY QueuedType, ReplAssumption DEF HolderInv, Holders, TypeOK, MainTypeOK
<1>5. \A s \in Requests : SlotAfterStop(s) = "open" => slot[s] = "open"
  BY DEF SlotAfterStop, Sent
<1>6. \A s \in Holders \ Holders' : conn[s] = "waiting" => SlotAfterStop(s) # "open"
  BY <1>2 DEF Holders, SlotAfterStop, Sent
<1>7. \A s \in Requests : slot'[s] = SlotAfterStop(s)
  BY <1>3
<1>8. /\ \A s \in Requests : slot'[s] = "open" => slot[s] = "open"
      /\ \A s \in Holders \ Holders' : conn[s] = "waiting" => slot'[s] # "open"
  BY <1>4, <1>5, <1>6, <1>7
<1>9. UNCHANGED <<conn, listening>> /\ HoldersApart' /\ Holders' \subseteq Holders
  BY <1>1, <1>2 DEF Holders
<1>10. QED
  BY <1>8, <1>9, HolderKept

\* Dropping the connections leaves nobody waiting.
LEMMA HolderDropped ==
  ASSUME HolderInv, DropConnections, NoDuplicates', HoldersApart', Holders' \subseteq Holders
  PROVE  ReplyHasOneHolder'
<1>1. conn \in [Requests -> ConnStates] /\ Holders \subseteq Requests
  BY QueuedType DEF HolderInv, Holders, TypeOK, MainTypeOK, TransportTypeOK
<1>2. /\ \A s \in Requests : conn'[s] \in {"idle", "done"}
      /\ \A s \in Requests : conn[s] \in {"waiting", "done"} => conn'[s] = "done"
  BY <1>1 DEF DropConnections, ConnStates
<1>3. QED
  BY <1>1, <1>2 DEF HolderInv, ReplyHasOneHolder, HoldersApart

\* Every step of the main thread.
LEMMA HolderMain ==
  ASSUME HolderInv, MainStep
  PROVE  ReplyHasOneHolder'
<1> USE DEF connVars, channelVars, modeVars, transportVars, opVars, captureVars, terminalVars
<1>1. ASSUME NEW k \in PromptKinds, ReadConsole(k) PROVE ReplyHasOneHolder'
  <2>1. current = NoReq
    BY <1>1 DEF ReadConsole, HolderInv, BusyWhileInHand
  <2>2. CASE TakeOperation
    BY <1>1, <2>1, <2>2, HolderMoved DEF ReadConsole, TakeOperation
  <2>3. CASE UNCHANGED opVars
    BY <1>1, <2>3, HolderQuiet DEF ReadConsole
  <2>4. QED
    BY <1>1, <2>2, <2>3 DEF ReadConsole
<1>2. CASE SilentDone \/ Decline
  <2>1. current \in Requests
    BY <1>2 DEF SilentDone, Decline, HolderInv, BusyWhileInHand, TypeOK, MainTypeOK
  <2>2. {"Evaluate", "INPUT_NOT_APPROVED"} \subseteq Replies
    BY DEF Replies
  <2>3. \E v \in Replies : Reply(current, v)
    BY <1>2, <2>2 DEF SilentDone, Decline
  <2>4. UNCHANGED <<conn, listening, queue, pendingOp, visible>> /\ current' = NoReq
    BY <1>2 DEF SilentDone, Decline
  <2>5. QED
    BY <2>1, <2>3, <2>4, HolderReleased
<1>3. CASE Inject
  <2>1. current \in Requests
    BY <1>3 DEF Inject, HolderInv, BusyWhileInHand, TypeOK, MainTypeOK
  <2>2. visible = NoReq
    BY <2>1, ReplAssumption DEF HolderInv, CaptureExclusive
  <2>3. "UserInput" \in Replies
    BY DEF Replies
  <2>4. CASE kind[current] = "visible"
    BY <1>3, <2>2, <2>4, HolderMoved DEF Inject
  <2>5. CASE kind[current] # "visible"
    <3>1. Reply(current, "UserInput")
      BY <1>3, <2>5 DEF Inject
    <3>2. UNCHANGED <<conn, listening, queue, pendingOp, visible>> /\ current' = NoReq
      BY <1>3, <2>5 DEF Inject
    <3>3. QED
      BY <2>1, <2>3, <3>1, <3>2, HolderReleased
  <2>6. QED
    BY <2>4, <2>5
<1>4. CASE IdleTick \/ ApprovalTick
  <2>1. UNCHANGED <<conn, listening, queue, pendingOp, current>> /\ CheckVisibleEval
    BY <1>4 DEF IdleTick, ApprovalTick, Poll
  <2>2. CASE UNCHANGED <<slot, captureVars>>
    BY <2>1, <2>2, HolderQuiet
  <2>3. ASSUME NEW v \in {"EVAL_TIMED_OUT", "Evaluate"}, FinishVisible(v)
        PROVE  ReplyHasOneHolder'
    <3>1. visible \in Requests /\ v \in Replies
      BY <2>3 DEF FinishVisible, HolderInv, TypeOK, MainTypeOK, Replies
    <3>2. Reply(visible, v) /\ visible' = NoReq
      BY <2>3 DEF FinishVisible
    <3>3. QED
      BY <2>1, <3>1, <3>2, HolderReleased
  <2>4. QED
    BY <2>1, <2>2, <2>3 DEF CheckVisibleEval
<1>5. CASE Drain
  BY <1>5, HolderDrain
<1>6. CASE Break
  <2>1. current = NoReq
    BY <1>6 DEF Break, EditorReads, HolderInv, BusyWhileInHand
  <2>2. CASE TakeOperation
    BY <1>6, <2>1, <2>2, HolderMoved DEF Break, TakeOperation
  <2>3. CASE UNCHANGED slot /\ UNCHANGED opVars
    BY <1>6, <2>3, HolderQuiet DEF Break
  <2>4. CASE pendingOp # NoReq /\ Reply(pendingOp, "USER_IS_TYPING") /\ pendingOp' = NoReq
    <3>1. pendingOp \in Requests /\ "USER_IS_TYPING" \in Replies
      BY <2>4 DEF HolderInv, TypeOK, MainTypeOK, Replies
    <3>2. UNCHANGED <<conn, listening, queue, visible>>
      BY <1>6 DEF Break
    <3>3. CASE UNCHANGED current
      BY <2>4, <3>1, <3>2, <3>3, HolderReleased
    <3>4. CASE TakeOperation /\ UNCHANGED slot
      BY <1>6, <2>1, <3>2, <3>4, HolderMoved DEF TakeOperation
    <3>5. QED
      BY <1>6, <3>3, <3>4 DEF Break
  <2>5. QED
    BY <1>6, <2>2, <2>3, <2>4 DEF Break
<1>7. CASE Approve \/ DrainDone \/ Type \/ EnterLine \/ CtrlC \/ OtherMeta \/ EnterPager \/ LeavePager
  BY <1>7, HolderQuiet DEF Approve, DrainDone, Type, EnterLine, CtrlC, OtherMeta, EnterPager,
     LeavePager
<1>8. ASSUME NEW b \in BOOLEAN, SetShell(b) \/ SetSendPolicy(b) PROVE ReplyHasOneHolder'
  BY <1>8, HolderQuiet DEF SetShell, SetSendPolicy
<1>9. CASE StartServer
  <2>1. /\ Queued' = {} /\ NoDuplicates'
        /\ UNCHANGED <<conn, slot, pendingOp, current, visible>> /\ ~listening
    BY <1>9, QueueEmptied DEF StartServer, OpenServer
  <2>2. \A s \in Requests : conn[s] # "waiting"
    BY <2>1 DEF HolderInv, ReplyHasOneHolder
  <2>3. listening'
    BY <1>9 DEF StartServer, OpenServer
  <2>4. QED
    BY <2>1, <2>2, <2>3 DEF HolderInv, ReplyHasOneHolder, Holders
<1>10. ASSUME NEW b \in BOOLEAN, StopServer(b) PROVE ReplyHasOneHolder'
  BY <1>10, HolderStop
<1>11. CASE JoinServer
  <2>1. DropConnections /\ UNCHANGED <<queue, pendingOp, current, visible>>
    BY <1>11 DEF JoinServer
  <2>2. Queued' = Queued /\ (NoDuplicates' <=> NoDuplicates)
    BY <2>1 DEF Queued, NoDuplicates
  <2>3. NoDuplicates' /\ HoldersApart' /\ Holders' = Holders
    BY <2>1, <2>2 DEF HolderInv, ReplyHasOneHolder, HoldersApart, Holders
  <2>4. QED
    BY <2>1, <2>3, HolderDropped
<1>12. CASE Vanish
  <2>1. /\ DropConnections /\ Queued' = {} /\ NoDuplicates'
        /\ pendingOp' = NoReq /\ current' = NoReq /\ visible' = NoReq
    BY <1>12, QueueEmptied DEF Vanish
  <2>2. HoldersApart' /\ Holders' \subseteq Holders
    BY <2>1 DEF HoldersApart, Holders
  <2>3. QED
    BY <2>1, <2>2, HolderDropped
<1>13. QED
  BY <1>1, <1>2, <1>3, <1>4, <1>5, <1>6, <1>7, <1>8, <1>9, <1>10, <1>11, <1>12
     DEF MainStep, MainRuns, UserActs

\* The reply channel of a request that waits always has exactly one holder, and nobody
\* waits for a stopped server: no client is ever left without anyone to answer it.
THEOREM ReplyOwned == Spec => []ReplyHasOneHolder
<1>1. Init => ReplyHasOneHolder
  BY DEF Init, TransportInit, ReplyHasOneHolder, NoDuplicates, Holders, Queued
<1>2. HolderInv /\ [Next]_vars => ReplyHasOneHolder'
  <2> SUFFICES ASSUME HolderInv, [Next]_vars PROVE ReplyHasOneHolder'
    OBVIOUS
  <2>1. CASE UNCHANGED vars
    BY <2>1, HolderQuiet DEF vars, transportVars, connVars, channelVars, mainVars, opVars,
       captureVars
  <2>2. ASSUME NEW r \in Requests, ClientSends(r) \/ Server(r) \/ Clock(r)
        PROVE  ReplyHasOneHolder'
    BY <2>2, HolderTransport
  <2>3. CASE MainStep
    BY <2>3, HolderMain
  <2>4. QED
    BY <2>1, <2>2, <2>3 DEF Next, Terminated
<1>3. QED
  BY <1>1, <1>2, TypeCorrect, CaptureIsExclusive, PTL DEF Spec, HolderInv

-----------------------------------------------------------------------------
(* The invariant behind the promise.                                       *)

\* The operations outside the queue, those of them whose code R has been given, and the
\* requests that have a holder but have not been run.
Ops    == {pendingOp, current, visible} \ {NoReq}
Handed == ({visible} \cup (IF pc = "silent" THEN {current} ELSE {})) \ {NoReq}
Fresh  == Holders \ Handed

\* Value v on a reply channel agrees with code that has run n times.
Tells(v, n) ==
  /\ Outcome(v) = "success" => n = 1
  /\ Outcome(v) \in {"refused", "info"} => n = 0

\* What has not reached the main thread, or waits there, has not run; what R has been
\* given has run once.
CountsInv ==
  \A r \in Requests :
    /\ ran[r] \in {0, 1}
    /\ conn[r] \in {"idle", "parsed"} \/ r \in Fresh \/ kind[r] = "session" => ran[r] = 0
    /\ r \in Handed => ran[r] = 1

\* A reply on its way agrees with the count, a held request has no reply on its way, and
\* one that is held although its client has been answered was left open.
AnswersInv ==
  /\ \A r \in Requests : conn[r] = "done" <=> answer[r] # NoAnswer
  /\ \A r \in Requests : conn[r] = "waiting" /\ slot[r] # "open" => Tells(slot[r], ran[r])
  /\ \A r \in Holders : conn[r] = "waiting" => slot[r] = "open"
  /\ \A r \in Holders : conn[r] = "done" /\ kind[r] # "session" => Outcome(answer[r]) = "open"
  /\ \A r \in Ops : kind[r] # "session"

PromiseInv == HolderInv /\ CountsInv /\ AnswersInv

\* The holders, each in its place.
LEMMA HoldersSplit ==
  ASSUME HolderInv
  PROVE  /\ Holders = Queued \cup Ops /\ Handed \subseteq Ops
         /\ Holders \subseteq Requests
         /\ Fresh \cup Handed = Holders /\ Fresh \cap Handed = {}
BY QueuedType DEF HolderInv, Holders, Ops, Handed, Fresh, TypeOK, MainTypeOK

-----------------------------------------------------------------------------
(* The effects of the steps.                                               *)

\* Nothing is run or answered: holders may give up a request after a reply on its
\* channel that agrees with what was run.
LEMMA PromiseKept ==
  ASSUME PromiseInv, UNCHANGED <<conn, kind, answer, ran>>,
         Fresh' \subseteq Fresh, Handed' \subseteq Handed, Holders' = Fresh' \cup Handed',
         \A r \in Ops' : kind[r] # "session",
         \A s \in Requests :
           \/ slot'[s] = slot[s]
           \/ s \notin Holders' /\ (conn[s] = "waiting" => Tells(slot'[s], ran[s]))
  PROVE  CountsInv' /\ AnswersInv' /\ UNCHANGED Promise!vars
<1>1. CountsInv'
  BY DEF PromiseInv, CountsInv
<1>2. Holders' \subseteq Holders /\ Holders \subseteq Requests
  BY HoldersSplit DEF PromiseInv
<1>3. AnswersInv'
  BY <1>2 DEF PromiseInv, AnswersInv
<1>4. UNCHANGED Promise!vars
  BY DEF Promise!vars
<1>5. QED
  BY <1>1, <1>3, <1>4

\* R is given the code of a request that waits at the main thread; it is answered at
\* once or stays in somebody's hand.
LEMMA PromiseRun ==
  ASSUME PromiseInv, UNCHANGED <<conn, kind, answer>>,
         NEW h \in Fresh, h \in Ops, ran' = [ran EXCEPT ![h] = @ + 1],
         Fresh' \subseteq Fresh \ {h}, Handed' \subseteq Handed \cup {h},
         Holders' = Fresh' \cup Handed',
         \A r \in Ops' : kind[r] # "session",
         \A s \in Requests \ {h} : slot'[s] = slot[s],
         \/ slot'[h] = slot[h] /\ h \in Handed'
         \/ h \notin Handed' /\ (conn[h] = "waiting" => Tells(slot'[h], 1))
  PROVE  CountsInv' /\ AnswersInv' /\ Promise!Run(h)
<1>1. h \in Requests /\ h \in Holders /\ h \notin Handed
  BY HoldersSplit DEF PromiseInv
<1>2. /\ ran \in [Requests -> Nat] /\ conn \in [Requests -> ConnStates]
      /\ ran[h] = 0 /\ conn[h] \in {"waiting", "done"} /\ kind[h] # "session"
  BY <1>1 DEF PromiseInv, HolderInv, TypeOK, TransportTypeOK, MainTypeOK, CountsInv, AnswersInv,
              ReplyHasOneHolder
<1>3. ran'[h] = 1 /\ \A r \in Requests \ {h} : ran'[r] = ran[r]
  BY <1>1, <1>2
<1>4. CountsInv'
  BY <1>2, <1>3 DEF PromiseInv, CountsInv
<1>5. Holders' \subseteq Holders /\ Holders \subseteq Requests
  BY <1>1, HoldersSplit DEF PromiseInv
<1>6. AnswersInv'
  <2>1. \A r \in Requests : conn'[r] = "done" <=> answer'[r] # NoAnswer
    BY DEF PromiseInv, AnswersInv
  <2>2. \A r \in Requests : conn'[r] = "waiting" /\ slot'[r] # "open" => Tells(slot'[r], ran'[r])
    BY <1>1, <1>3 DEF PromiseInv, AnswersInv
  <2>3. \A r \in Holders' : conn'[r] = "waiting" => slot'[r] = "open"
    BY <1>1, <1>5 DEF PromiseInv, AnswersInv
  <2>4. \A r \in Holders' : conn'[r] = "done" /\ kind'[r] # "session" => Outcome(answer'[r]) = "open"
    BY <1>5 DEF PromiseInv, AnswersInv
  <2>5. QED
    BY <2>1, <2>2, <2>3, <2>4 DEF AnswersInv
<1>7. Outcome(answer[h]) \in {"none", "open"}
  BY <1>1, <1>2 DEF PromiseInv, AnswersInv, Outcome, NoAnswer
<1>8. ran' = [ran EXCEPT ![h] = 1]
  BY <1>2
<1>9. Promise!Run(h)
  BY <1>1, <1>2, <1>7, <1>8 DEF Promise!Run
<1>10. QED
  BY <1>4, <1>6, <1>9

\* The server goes away, and with it whoever still waits for it.
LEMMA PromiseLost ==
  ASSUME PromiseInv, UNCHANGED <<kind, ran>>, DropConnections,
         Fresh' \subseteq Fresh, Handed' \subseteq Handed, Holders' = Fresh' \cup Handed',
         \A r \in Ops' : kind[r] # "session"
  PROVE  CountsInv' /\ AnswersInv' /\ \E rs \in SUBSET Requests : Promise!Lose(rs)
<1> DEFINE served == {r \in Requests : conn[r] \in {"parsed", "waiting"}}
<1>1. /\ conn \in [Requests -> ConnStates] /\ answer \in [Requests -> Answers \cup {NoAnswer}]
  BY DEF PromiseInv, HolderInv, TypeOK, TransportTypeOK
<1>2. /\ conn' = [r \in Requests |-> IF r \in served THEN "done" ELSE conn[r]]
      /\ answer' = [r \in Requests |-> IF r \in served THEN "CONNECTION_LOST" ELSE answer[r]]
  BY DEF DropConnections
<1>3. /\ \A r \in Requests : conn'[r] = IF r \in served THEN "done" ELSE conn[r]
      /\ \A r \in Requests : answer'[r] = IF r \in served THEN "CONNECTION_LOST" ELSE answer[r]
      /\ \A r \in Requests : conn'[r] \in {"idle", "done"}
      /\ \A r \in Requests : conn'[r] = "idle" => conn[r] = "idle"
  BY <1>1, <1>2 DEF ConnStates
<1>4. CountsInv'
  BY <1>3 DEF PromiseInv, CountsInv
<1>5. Holders' \subseteq Holders /\ Holders \subseteq Requests
  BY HoldersSplit DEF PromiseInv
<1>6. Outcome("CONNECTION_LOST") = "open" /\ NoAnswer # "CONNECTION_LOST"
  BY DEF Outcome, NoAnswer
<1>7. AnswersInv'
  <2>1. \A r \in Requests : conn'[r] = "done" <=> answer'[r] # NoAnswer
    BY <1>3, <1>6 DEF PromiseInv, AnswersInv
  <2>2. \A r \in Holders' : conn'[r] = "done" /\ kind'[r] # "session" => Outcome(answer'[r]) = "open"
    BY <1>3, <1>5, <1>6 DEF PromiseInv, AnswersInv
  <2>3. QED
    BY <1>3, <1>5, <2>1, <2>2 DEF AnswersInv
<1>8. \A r \in served : conn[r] # "idle" /\ Outcome(answer[r]) = "none"
  BY DEF PromiseInv, AnswersInv, Outcome, NoAnswer
<1>9. [r \in Requests |-> Outcome(answer'[r])]
        = [r \in Requests |-> IF r \in served THEN "open" ELSE [s \in Requests |-> Outcome(answer[s])][r]]
  BY <1>3, <1>6
<1>10. {r \in Requests : conn'[r] # "idle"} = {r \in Requests : conn[r] # "idle"}
  BY <1>3
<1> HIDE DEF served
<1>11. served \in SUBSET Requests
  BY DEF served
<1>12. Promise!Lose(served)
  BY <1>8, <1>9, <1>10, <1>11 DEF Promise!Lose
<1>13. QED
  BY <1>4, <1>7, <1>11, <1>12

-----------------------------------------------------------------------------
(* Clients and the server thread.                                          *)

\* A client is answered: what it is told agrees with what was run.
LEMMA PromiseAnswer ==
  ASSUME PromiseInv, UNCHANGED <<kind, ran, pc, queue, pendingOp, current, visible>>,
         NEW r \in Requests, conn[r] \in {"parsed", "waiting"},
         NEW a \in Answers, Finish(r, a), Tells(a, ran[r]),
         r \in Holders /\ kind[r] # "session" => Outcome(a) = "open"
  PROVE  CountsInv' /\ AnswersInv' /\ \E o \in Promise!Outcomes \ {"none"} : Promise!Answer(r, o)
<1>1. /\ conn \in [Requests -> ConnStates] /\ answer \in [Requests -> Answers \cup {NoAnswer}]
      /\ slot \in [Requests -> SlotStates]
  BY DEF PromiseInv, HolderInv, TypeOK, TransportTypeOK
<1>2. /\ conn'[r] = "done" /\ answer'[r] = a
      /\ \A s \in Requests \ {r} : conn'[s] = conn[s] /\ answer'[s] = answer[s] /\ slot'[s] = slot[s]
  BY <1>1 DEF Finish
<1>3. Holders' = Holders /\ Fresh' = Fresh /\ Handed' = Handed /\ Ops' = Ops
  BY DEF Holders, Fresh, Handed, Ops, Queued
<1>4. CountsInv'
  BY <1>2, <1>3 DEF PromiseInv, CountsInv
<1>5. a # NoAnswer /\ Outcome(a) \in {"success", "info", "open", "refused"}
  BY DEF Answers, Replies, ServerAnswers, NoAnswer, Outcome
<1>6. Holders \subseteq Requests
  BY HoldersSplit DEF PromiseInv
<1>7. AnswersInv'
  BY <1>2, <1>3, <1>5, <1>6 DEF PromiseInv, AnswersInv
<1>8. Outcome(answer[r]) = "none"
  BY DEF PromiseInv, AnswersInv, Outcome, NoAnswer
<1>9. {s \in Requests : conn'[s] # "idle"} = {s \in Requests : conn[s] # "idle"}
  BY <1>2
<1>10. [s \in Requests |-> Outcome(answer'[s])]
         = [[s \in Requests |-> Outcome(answer[s])] EXCEPT ![r] = Outcome(a)]
  BY <1>2
<1>11. ran[r] \in {0, 1}
  BY DEF PromiseInv, CountsInv
<1>12. Promise!Answer(r, Outcome(a))
  BY <1>8, <1>9, <1>10, <1>11 DEF Promise!Answer, Tells
<1>13. QED
  BY <1>4, <1>5, <1>7, <1>12 DEF Promise!Outcomes

\* A client sends a request: it is known from now on, and perhaps answered at once, with
\* an answer that has nothing to do with what R does.
LEMMA PromiseAccept ==
  ASSUME PromiseInv, NEW r \in Requests, ClientSends(r)
  PROVE  CountsInv' /\ AnswersInv' /\ Promise!Submit(r)
<1>1. PICK k \in Kinds : Accept(r, k)
  BY DEF ClientSends
<1>2. /\ conn \in [Requests -> ConnStates] /\ answer \in [Requests -> Answers \cup {NoAnswer}]
      /\ slot \in [Requests -> SlotStates] /\ kind \in [Requests -> AllKinds \cup {NoKind}]
  BY DEF PromiseInv, HolderInv, TypeOK, TransportTypeOK
<1>3. conn[r] = "idle" /\ r \notin Holders /\ ran[r] = 0 /\ answer[r] = NoAnswer
  BY <1>1 DEF Accept, PromiseInv, HolderInv, ReplyHasOneHolder, CountsInv, AnswersInv
<1>4. UNCHANGED <<ran, pc, queue, pendingOp, current, visible>>
  BY <1>1 DEF ClientSends, Accept, channelVars, mainVars, opVars, captureVars
<1>5. Holders' = Holders /\ Fresh' = Fresh /\ Handed' = Handed /\ Ops' = Ops
  BY <1>4 DEF Holders, Fresh, Handed, Ops, Queued
<1>6. \A s \in Requests \ {r} : /\ conn'[s] = conn[s] /\ answer'[s] = answer[s]
                                /\ slot'[s] = slot[s] /\ kind'[s] = kind[s]
  BY <1>1, <1>2 DEF Accept, Finish, TriggerShutdown
<1>7. \/ conn'[r] \in {"parsed", "waiting"} /\ answer'[r] = NoAnswer
         /\ (conn'[r] = "waiting" => slot'[r] = "Shutdown")
      \/ conn'[r] = "done" /\ answer'[r] # NoAnswer /\ Outcome(answer'[r]) \in {"refused", "info"}
  <2>1. CASE UNCHANGED answer
    <3>1. \/ conn' = [conn EXCEPT ![r] = "parsed"]
          \/ conn' = [conn EXCEPT ![r] = "waiting"] /\ slot' = [slot EXCEPT ![r] = "Shutdown"]
          \/ \E a \in AnswersAtOnce(k) : answer' = [answer EXCEPT ![r] = a]
      BY <1>1, <2>1 DEF Accept, TriggerShutdown, Finish
    <3>2. \A a \in AnswersAtOnce(k) : a # NoAnswer
      BY DEF AnswersAtOnce, NoAnswer
    <3>3. QED
      BY <1>2, <1>3, <2>1, <3>1, <3>2
  <2>2. CASE \E a \in AnswersAtOnce(k) : Finish(r, a)
    <3>1. \A a \in AnswersAtOnce(k) : a # NoAnswer /\ Outcome(a) \in {"refused", "info"}
      BY DEF AnswersAtOnce, NoAnswer, Outcome
    <3>2. QED
      BY <1>2, <2>2, <3>1 DEF Finish
  <2>3. QED
    BY <1>1, <2>1, <2>2 DEF Accept, TriggerShutdown
<1>8. CountsInv'
  BY <1>3, <1>4, <1>5, <1>6 DEF PromiseInv, CountsInv
<1>9. Tells("Shutdown", 0)
  BY DEF Tells, Outcome, NoAnswer
<1>10. Holders \subseteq Requests /\ Ops \subseteq Holders
  BY HoldersSplit DEF PromiseInv
<1>11. AnswersInv'
  <2>1. \A s \in Requests : conn'[s] = "done" <=> answer'[s] # NoAnswer
    BY <1>6, <1>7 DEF PromiseInv, AnswersInv
  <2>2. \A s \in Requests : conn'[s] = "waiting" /\ slot'[s] # "open" => Tells(slot'[s], ran'[s])
    BY <1>3, <1>4, <1>6, <1>7, <1>9 DEF PromiseInv, AnswersInv
  <2>3. QED
    BY <1>3, <1>5, <1>6, <1>10, <2>1, <2>2 DEF PromiseInv, AnswersInv
<1>12. Promise!Submit(r)
  <2>1. {s \in Requests : conn'[s] # "idle"} = {s \in Requests : conn[s] # "idle"} \cup {r}
    BY <1>6, <1>7
  <2>2. Outcome(answer'[r]) \in {"none", "refused", "info"}
    BY <1>7 DEF Outcome, NoAnswer
  <2>3. [s \in Requests |-> Outcome(answer'[s])]
          = [[s \in Requests |-> Outcome(answer[s])] EXCEPT ![r] = Outcome(answer'[r])]
    BY <1>6
  <2>4. QED
    BY <1>3, <1>4, <2>1, <2>2, <2>3 DEF Promise!Submit
<1>13. QED
  BY <1>8, <1>11, <1>12

\* What the server thread does with a request, and the passing of time.
LEMMA PromiseServer ==
  ASSUME PromiseInv, NEW r \in Requests, Server(r) \/ Clock(r)
  PROVE  /\ CountsInv' /\ AnswersInv'
         /\ UNCHANGED Promise!vars \/ \E o \in Promise!Outcomes \ {"none"} : Promise!Answer(r, o)
<1> USE DEF connVars, channelVars, modeVars
<1>1. UNCHANGED <<kind, ran, pc, pendingOp, current, visible>>
  BY DEF Server, ServerStep, Send, Deliver, SenderDropped, Timeout, Clock, Elapse, mainVars,
         opVars, captureVars
<1>2. CASE Clock(r)
  <2>1. UNCHANGED <<conn, answer, slot, queue>>
    BY <1>2 DEF Clock, Elapse
  <2>2. Holders' = Holders /\ Fresh' = Fresh /\ Handed' = Handed /\ Ops' = Ops
    BY <1>1, <2>1 DEF Holders, Fresh, Handed, Ops, Queued
  <2>3. Holders = Fresh \cup Handed /\ \A s \in Ops : kind[s] # "session"
    BY HoldersSplit DEF PromiseInv, AnswersInv
  <2>4. QED
    BY <1>1, <2>1, <2>2, <2>3, PromiseKept
<1>3. CASE Send(r) /\ receiver
  <2>1. /\ conn \in [Requests -> ConnStates] /\ slot \in [Requests -> SlotStates]
        /\ queue \in Seq(Requests)
    BY DEF PromiseInv, HolderInv, TypeOK, TransportTypeOK
  <2>2. conn[r] = "parsed" /\ r \notin Holders /\ ran[r] = 0
    BY <1>3 DEF Send, PromiseInv, HolderInv, ReplyHasOneHolder, CountsInv
  <2>3. /\ conn'[r] = "waiting" /\ slot'[r] = "open" /\ answer' = answer
        /\ \A s \in Requests \ {r} : conn'[s] = conn[s] /\ slot'[s] = slot[s]
    BY <1>3, <2>1 DEF Send
  <2>4. Queued' = Queued \cup {r}
    BY <1>3, <2>2, QueueAppend DEF Send, PromiseInv, HolderInv, ReplyHasOneHolder, Holders
  <2>5. /\ Holders' = Holders \cup {r} /\ Handed' = Handed /\ Ops' = Ops
        /\ Handed \subseteq Holders
    BY <1>1, <2>4, HoldersSplit DEF Holders, Handed, Ops, PromiseInv
  <2>6. Fresh' = Fresh \cup {r}
    BY <2>2, <2>5 DEF Fresh
  <2>7. CountsInv'
    BY <1>1, <2>2, <2>3, <2>5, <2>6 DEF PromiseInv, CountsInv
  <2>8. Holders \subseteq Requests
    BY HoldersSplit DEF PromiseInv
  <2>9. AnswersInv'
    BY <1>1, <2>2, <2>3, <2>5, <2>8 DEF PromiseInv, AnswersInv
  <2>10. {s \in Requests : conn'[s] # "idle"} = {s \in Requests : conn[s] # "idle"}
    BY <2>2, <2>3
  <2>11. QED
    BY <1>1, <2>3, <2>7, <2>9, <2>10 DEF Promise!vars
<1>4. ASSUME NEW a \in Answers, Finish(r, a), conn[r] \in {"parsed", "waiting"}, queue' = queue,
             Tells(a, ran[r]), r \in Holders /\ kind[r] # "session" => Outcome(a) = "open"
      PROVE  /\ CountsInv' /\ AnswersInv'
             /\ \E o \in Promise!Outcomes \ {"none"} : Promise!Answer(r, o)
  BY <1>1, <1>4, PromiseAnswer
<1>5. /\ {"SessionFallback", "UNAVAILABLE", "HANDLER_DROPPED", "TIMED_OUT"} \subseteq Answers
      /\ Tells("SessionFallback", 0) /\ Tells("UNAVAILABLE", 0) /\ Tells("HANDLER_DROPPED", 0)
      /\ Outcome("TIMED_OUT") = "open" /\ \A n : Tells("TIMED_OUT", n)
  BY DEF Answers, ServerAnswers, Tells, Outcome, NoAnswer
<1>6. CASE Send(r) /\ ~receiver
  <2>1. ran[r] = 0 /\ r \notin Holders
    BY <1>6 DEF Send, PromiseInv, HolderInv, ReplyHasOneHolder, CountsInv
  <2>2. \/ Finish(r, "SessionFallback")
        \/ Finish(r, "UNAVAILABLE")
    BY <1>6 DEF Send
  <2>3. conn[r] = "parsed" /\ queue' = queue
    BY <1>6 DEF Send
  <2>4. QED
    BY <1>4, <1>5, <2>1, <2>2, <2>3
<1>7. CASE Deliver(r)
  <2>1. conn[r] = "waiting" /\ slot[r] \in Replies /\ Finish(r, slot[r]) /\ queue' = queue
    BY <1>7 DEF Deliver
  <2>2. slot[r] # "open" /\ slot[r] \in Answers
    BY <2>1 DEF Replies, Answers
  <2>3. Tells(slot[r], ran[r]) /\ r \notin Holders
    BY <2>1, <2>2 DEF PromiseInv, AnswersInv
  <2>4. QED
    BY <1>4, <2>1, <2>2, <2>3
<1>8. CASE SenderDropped(r)
  <2>1. conn[r] = "waiting" /\ slot[r] = "dropped" /\ queue' = queue
    BY <1>8 DEF SenderDropped
  <2>2. r \notin Holders /\ Tells("dropped", ran[r])
    BY <2>1 DEF PromiseInv, AnswersInv
  <2>3. ran[r] = 0
    BY <2>2 DEF Tells, Outcome, NoAnswer
  <2>4. Finish(r, "SessionFallback") \/ Finish(r, "HANDLER_DROPPED")
    BY <1>8 DEF SenderDropped
  <2>5. QED
    BY <1>4, <1>5, <2>1, <2>2, <2>3, <2>4
<1>9. CASE Timeout(r)
  <2>1. conn[r] = "waiting" /\ queue' = queue
    BY <1>9 DEF Timeout
  <2>2. CASE kind[r] = "session"
    <3>1. ran[r] = 0 /\ Finish(r, "SessionFallback")
      BY <1>9, <2>2 DEF Timeout, PromiseInv, CountsInv
    <3>2. QED
      BY <1>4, <1>5, <2>1, <2>2, <3>1
  <2>3. CASE kind[r] # "session"
    <3>1. Finish(r, "TIMED_OUT")
      BY <1>9, <2>3 DEF Timeout
    <3>2. QED
      BY <1>4, <1>5, <2>1, <3>1
  <2>4. QED
    BY <2>2, <2>3
<1>10. QED
  BY <1>2, <1>3, <1>6, <1>7, <1>8, <1>9 DEF Server, ServerStep, Send

-----------------------------------------------------------------------------
(* The main thread.                                                        *)

\* A step the promise allows, and that keeps its invariant.
Promised == CountsInv' /\ AnswersInv' /\ [Promise!Next]_Promise!vars

\* Steps that touch neither a channel, nor an operation, nor R.
LEMMA PromiseQuiet ==
  ASSUME PromiseInv, UNCHANGED <<conn, kind, answer, slot, ran, queue, pendingOp, current, visible>>,
         pc = "silent" <=> pc' = "silent"
  PROVE  Promised
<1>1. Holders' = Holders /\ Fresh' = Fresh /\ Handed' = Handed /\ Ops' = Ops
  BY DEF Holders, Fresh, Handed, Ops, Queued
<1>2. Holders = Fresh \cup Handed /\ \A s \in Ops : kind[s] # "session"
  BY HoldersSplit DEF PromiseInv, AnswersInv
<1>3. QED
  BY <1>1, <1>2, PromiseKept DEF Promised

\* A held operation is answered and released, with a reply that agrees with the count.
LEMMA PromiseReleased ==
  ASSUME PromiseInv, UNCHANGED <<conn, kind, answer, ran, queue>>, pc' # "silent",
         NEW x \in Requests, NEW v \in Replies, Reply(x, v), Tells(v, ran[x]),
         \/ x = pendingOp /\ pendingOp' = NoReq /\ UNCHANGED <<current, visible>> /\ pc # "silent"
         \/ x = current /\ current' = NoReq /\ UNCHANGED <<pendingOp, visible>>
         \/ x = visible /\ visible' = NoReq /\ UNCHANGED <<pendingOp, current>> /\ pc # "silent"
  PROVE  Promised
<1>1. HoldersApart /\ x # NoReq /\ NoReq \notin Queued
  BY QueuedType DEF PromiseInv, HolderInv, ReplyHasOneHolder, HoldersApart
<1>2. Queued' = Queued
  BY DEF Queued
<1>3. /\ Fresh' \subseteq Fresh /\ Handed' \subseteq Handed /\ Ops' \subseteq Ops
      /\ x \notin Holders'
  BY <1>1, <1>2 DEF Fresh, Handed, Ops, Holders, HoldersApart
<1>4. Holders' = Fresh' \cup Handed'
  BY DEF Holders, Fresh, Handed
<1>5. slot \in [Requests -> SlotStates]
  BY DEF PromiseInv, HolderInv, TypeOK, TransportTypeOK
<1>6. \A s \in Requests :
        \/ slot'[s] = slot[s]
        \/ s \notin Holders' /\ (conn[s] = "waiting" => Tells(slot'[s], ran[s]))
  BY <1>3, <1>5 DEF Reply, Sent
<1>7. \A s \in Ops' : kind[s] # "session"
  BY <1>3 DEF PromiseInv, AnswersInv
<1>8. QED
  BY <1>3, <1>4, <1>6, <1>7, PromiseKept DEF Promised

\* The pending operation is taken in hand; a silent one runs at once.
LEMMA PromiseTaken ==
  ASSUME PromiseInv, TakeOperation, pendingOp # NoReq, current = NoReq, pc # "silent",
         UNCHANGED <<conn, kind, answer, slot, queue, visible>>
  PROVE  Promised
<1>1. /\ HoldersApart /\ pendingOp \in Requests /\ pendingOp \in Holders /\ NoReq \notin Queued
      /\ visible \in Requests \cup {NoReq}
  BY QueuedType DEF PromiseInv, HolderInv, ReplyHasOneHolder, HoldersApart, TypeOK, MainTypeOK,
     Holders
<1>2. Queued' = Queued /\ current' = pendingOp /\ pendingOp' = NoReq
  BY DEF Queued, TakeOperation
<1>3. Ops' \subseteq Ops /\ pendingOp \in Ops /\ pendingOp \in Fresh
  BY <1>1, <1>2 DEF Ops, Fresh, Handed, HoldersApart
<1>4. \A s \in Ops' : kind[s] # "session"
  BY <1>3 DEF PromiseInv, AnswersInv
<1>5. Holders' = Holders
  BY <1>2 DEF Holders
<1>6. Holders' = Fresh' \cup Handed'
  BY DEF Holders, Fresh, Handed
<1>7. CASE StartSilent(pendingOp)
  <2>1. ran' = [ran EXCEPT ![pendingOp] = @ + 1] /\ pc' = "silent"
    BY <1>7 DEF StartSilent
  <2>2. Handed' = Handed \cup {pendingOp}
    BY <1>1, <1>2, <2>1 DEF Handed
  <2>3. Fresh' = Fresh \ {pendingOp}
    BY <1>5, <2>2 DEF Fresh
  <2>4. CountsInv' /\ AnswersInv' /\ Promise!Run(pendingOp)
    BY <1>3, <1>4, <1>6, <2>1, <2>2, <2>3, PromiseRun
  <2>5. QED
    BY <1>1, <2>4 DEF Promised, Promise!Next
<1>8. CASE pc' = "approving" /\ ran' = ran
  <2>1. Handed' = Handed /\ Fresh' = Fresh
    BY <1>2, <1>5, <1>8 DEF Handed, Fresh
  <2>2. QED
    BY <1>4, <1>6, <1>8, <2>1, PromiseKept DEF Promised
<1>9. QED
  BY <1>7, <1>8 DEF TakeOperation

\* The approved code is injected: it is run, and a user input answered.
LEMMA PromiseInject ==
  ASSUME PromiseInv, Inject
  PROVE  Promised
<1>1. /\ current \in Requests /\ pc = "approved" /\ visible = NoReq
  BY DEF Inject, PromiseInv, HolderInv, BusyWhileInHand, CaptureExclusive, TypeOK, MainTypeOK
<1>2. /\ HoldersApart /\ current \in Holders /\ NoReq \notin Queued
      /\ slot \in [Requests -> SlotStates] /\ pendingOp # current
  BY <1>1, QueuedType DEF PromiseInv, HolderInv, ReplyHasOneHolder, HoldersApart, TypeOK,
     TransportTypeOK, Holders
<1>3. /\ UNCHANGED <<conn, kind, answer, queue, pendingOp>> /\ current' = NoReq /\ pc' = "R"
      /\ ran' = [ran EXCEPT ![current] = @ + 1]
  BY DEF Inject, connVars, channelVars
<1>4. Queued' = Queued
  BY <1>3 DEF Queued
<1>5. current \in Ops /\ current \in Fresh
  BY <1>1, <1>2 DEF Ops, Fresh, Handed
<1>6. Holders' = Fresh' \cup Handed'
  BY DEF Holders, Fresh, Handed
<1>7. ASSUME visible' \in {NoReq, current}
      PROVE  /\ Handed' = {visible'} \ {NoReq} /\ Ops' \subseteq Ops
             /\ Fresh' = Fresh \ {current}
  BY <1>1, <1>2, <1>3, <1>4, <1>7 DEF Handed, Ops, Fresh, Holders, HoldersApart
<1>8. \A s \in Ops : kind[s] # "session"
  BY DEF PromiseInv, AnswersInv
<1>9. CASE kind[current] = "visible"
  <2>1. visible' = current /\ slot' = slot
    BY <1>9 DEF Inject
  <2>2. current \in Handed'
    BY <1>1, <1>7, <2>1
  <2>3. CountsInv' /\ AnswersInv' /\ Promise!Run(current)
    BY <1>3, <1>5, <1>6, <1>7, <1>8, <2>1, <2>2, PromiseRun
  <2>4. QED
    BY <1>1, <2>3 DEF Promised, Promise!Next
<1>10. CASE kind[current] # "visible"
  <2>1. visible' = NoReq /\ Reply(current, "UserInput")
    BY <1>1, <1>10 DEF Inject, captureVars
  <2>2. current \notin Handed'
    BY <1>1, <1>7, <2>1
  <2>3. Tells("UserInput", 1)
    BY DEF Tells, Outcome, NoAnswer
  <2>4. /\ \A s \in Requests \ {current} : slot'[s] = slot[s]
        /\ conn[current] = "waiting" => Tells(slot'[current], 1)
    BY <1>1, <1>2, <2>1, <2>3 DEF Reply, Sent
  <2>5. CountsInv' /\ AnswersInv' /\ Promise!Run(current)
    BY <1>3, <1>5, <1>6, <1>7, <1>8, <2>1, <2>2, <2>4, PromiseRun
  <2>6. QED
    BY <1>1, <2>5 DEF Promised, Promise!Next
<1>11. QED
  BY <1>9, <1>10

\* The drain loop: the head of the queue is answered unrun, or becomes the pending
\* operation.
LEMMA PromiseDrain ==
  ASSUME PromiseInv, Drain
  PROVE  Promised
<1> DEFINE h == Head(queue)
<1>1. h \in Queued /\ Queued' = Queued \ {h}
  BY QueueTail DEF PromiseInv, HolderInv, Drain, ReplyHasOneHolder
<1>2. UNCHANGED <<conn, kind, answer, pc, current, visible, ran>> /\ pc = "draining"
  BY DEF Drain, connVars, captureVars
<1>3. /\ HoldersApart /\ h \in Requests /\ h # NoReq /\ Queued \subseteq Requests
      /\ slot \in [Requests -> SlotStates]
  BY <1>1, QueuedType DEF PromiseInv, HolderInv, ReplyHasOneHolder, HoldersApart, TypeOK,
     TransportTypeOK
<1>4. Holders' = Fresh' \cup Handed' /\ Handed' = Handed
  BY <1>2 DEF Holders, Fresh, Handed
<1> HIDE DEF h
<1>5. h \in Fresh
  BY <1>1, <1>2, <1>3 DEF Fresh, Handed, Holders, HoldersApart
<1>6. ran[h] = 0
  BY <1>3, <1>5 DEF PromiseInv, CountsInv
<1>7. CASE pendingOp' = pendingOp /\ \E v \in Replies : Reply(h, v) /\ Tells(v, 0)
  <2>1. Ops' = Ops /\ Fresh' \subseteq Fresh /\ h \notin Holders'
    BY <1>1, <1>2, <1>3, <1>7 DEF Ops, Fresh, Handed, Holders, HoldersApart
  <2>2. \A s \in Requests :
          \/ slot'[s] = slot[s]
          \/ s \notin Holders' /\ (conn[s] = "waiting" => Tells(slot'[s], ran[s]))
    BY <1>3, <1>6, <1>7, <2>1 DEF Reply, Sent
  <2>3. \A s \in Ops' : kind[s] # "session"
    BY <2>1 DEF PromiseInv, AnswersInv
  <2>4. QED
    BY <1>2, <1>4, <2>1, <2>2, <2>3, PromiseKept DEF Promised
<1>8. CASE pendingOp = NoReq /\ pendingOp' = h /\ slot' = slot /\ kind[h] # "session"
  <2>1. Ops' \subseteq Ops \cup {h} /\ Holders' = Holders
    BY <1>1, <1>2, <1>3, <1>8 DEF Ops, Holders
  <2>2. Fresh' = Fresh
    BY <1>4, <2>1 DEF Fresh
  <2>3. \A s \in Ops' : kind[s] # "session"
    BY <1>8, <2>1 DEF PromiseInv, AnswersInv
  <2>4. QED
    BY <1>2, <1>4, <1>8, <2>2, <2>3, PromiseKept DEF Promised
<1>9. CASE HandleSession(h)
  <2>1. \A v \in {"Session", "SessionNoR"} : v \in Replies /\ Tells(v, 0)
    BY DEF Replies, Tells, Outcome, NoAnswer
  <2>2. QED
    BY <1>7, <1>9, <2>1 DEF HandleSession
<1>10. CASE HandleCode(h) /\ kind[h] # "session"
  <2>1. Refusal(h) # NoAnswer => Refusal(h) \in Replies /\ Tells(Refusal(h), 0)
    BY DEF Refusal, Replies, Tells, Outcome, NoAnswer
  <2>2. Refusal(h) = NoAnswer => pendingOp = NoReq
    BY DEF Refusal, NoAnswer
  <2>3. QED
    BY <1>7, <1>8, <1>10, <2>1, <2>2 DEF HandleCode
<1>11. QED
  BY <1>9, <1>10 DEF Drain, h

\* ipc::stop_server tells the pending operation that it has not run, leaves the pending
\* visible evaluate open, and drops what is queued.
LEMMA PromiseStop ==
  ASSUME PromiseInv, NEW b \in BOOLEAN, StopServer(b)
  PROVE  Promised
<1>1. /\ Queued' = {} /\ pendingOp' = NoReq /\ visible' = NoReq
      /\ UNCHANGED <<conn, kind, answer, ran, current>>
      /\ slot' = [r \in Requests |-> SlotAfterStop(r)]
  BY QueueEmptied DEF StopServer, connVars
<1>2. pc = "reading" /\ pc' # "silent"
  BY DEF StopServer, MetaLine, EditorReturns, EditorReads
<1>3. current = NoReq /\ NoReq \notin Queued /\ HoldersApart
  BY <1>2, QueuedType DEF PromiseInv, HolderInv, BusyWhileInHand, ReplyHasOneHolder, HoldersApart
<1>4. Holders' = {} /\ Fresh' = {} /\ Handed' = {} /\ Ops' = {}
  BY <1>1, <1>2, <1>3 DEF Holders, Fresh, Handed, Ops
<1>5. /\ Tells("dropped", 0) /\ Tells("SHUT_DOWN_PENDING", 0)
      /\ \A n : Tells("SHUT_DOWN_VISIBLE", n)
  BY DEF Tells, Outcome, NoAnswer
<1>6. \A r \in Queued \cup {pendingOp} : r \in Requests => r \in Fresh /\ ran[r] = 0
  BY <1>2, <1>3 DEF Fresh, Handed, Holders, HoldersApart, PromiseInv, CountsInv
<1>7. \A s \in Requests :
        \/ SlotAfterStop(s) = slot[s]
        \/ conn[s] = "waiting" => Tells(SlotAfterStop(s), ran[s])
  BY <1>3, <1>5, <1>6 DEF SlotAfterStop, Sent, HoldersApart
<1>8. \A s \in Requests :
        \/ slot'[s] = slot[s]
        \/ s \notin Holders' /\ (conn[s] = "waiting" => Tells(slot'[s], ran[s]))
  BY <1>1, <1>4, <1>7
<1>9. QED
  BY <1>1, <1>4, <1>8, PromiseKept DEF Promised

\* The server thread's end, with or without the process's.
LEMMA PromiseDropped ==
  ASSUME PromiseInv, DropConnections, UNCHANGED <<kind, ran>>, pc # "silent" \/ Holders' = {},
         pc' # "silent",
         \/ UNCHANGED <<queue, pendingOp, current, visible>>
         \/ queue' = <<>> /\ pendingOp' = NoReq /\ current' = NoReq /\ visible' = NoReq
  PROVE  Promised
<1>1. Queued' \subseteq Queued /\ Holders' \subseteq Holders
  BY QueueEmptied DEF Queued, Holders
<1>2. Handed' \subseteq Handed /\ Ops' \subseteq Ops /\ (Handed' = Handed \/ Holders' = {})
  BY QueueEmptied DEF Handed, Ops, Holders
<1>3. Holders' = Fresh' \cup Handed' /\ Fresh' \subseteq Fresh
  BY <1>1, <1>2 DEF Holders, Fresh, Handed
<1>4. \A s \in Ops' : kind[s] # "session"
  BY <1>2 DEF PromiseInv, AnswersInv
<1>5. QED
  BY <1>2, <1>3, <1>4, PromiseLost DEF Promised, Promise!Next

LEMMA PromiseMain ==
  ASSUME PromiseInv, MainStep
  PROVE  Promised
<1> USE DEF connVars, channelVars, modeVars, transportVars, opVars, captureVars, terminalVars
<1>1. ASSUME NEW k \in PromptKinds, ReadConsole(k) PROVE Promised
  <2>1. current = NoReq /\ pc = "R" /\ UNCHANGED <<conn, kind, answer, slot, queue, visible>>
    BY <1>1 DEF ReadConsole, PromiseInv, HolderInv, BusyWhileInHand
  <2>2. CASE pendingOp # NoReq /\ TakeOperation
    BY <2>1, <2>2, PromiseTaken
  <2>3. CASE UNCHANGED <<opVars, ran>> /\ pc' = "reading"
    BY <2>1, <2>3, PromiseQuiet
  <2>4. QED
    BY <1>1, <2>2, <2>3 DEF ReadConsole
<1>2. CASE SilentDone
  <2>1. current \in Requests /\ current \in Handed /\ current # NoReq
    BY <1>2 DEF SilentDone, PromiseInv, HolderInv, BusyWhileInHand, TypeOK, MainTypeOK, Handed
  <2>2. ran[current] = 1
    BY <2>1 DEF PromiseInv, CountsInv
  <2>3. "Evaluate" \in Replies /\ Tells("Evaluate", 1)
    BY DEF Replies, Tells, Outcome, NoAnswer
  <2>4. /\ UNCHANGED <<conn, kind, answer, ran, queue, pendingOp, visible>>
        /\ current' = NoReq /\ pc' = "reading" /\ Reply(current, "Evaluate")
    BY <1>2 DEF SilentDone
  <2>5. QED
    BY <2>1, <2>2, <2>3, <2>4, PromiseReleased
<1>3. CASE Decline
  <2>1. current \in Requests /\ current # NoReq /\ pc = "approving"
    BY <1>3 DEF Decline, PromiseInv, HolderInv, BusyWhileInHand, TypeOK, MainTypeOK
  <2>2. current \in Fresh
    BY <2>1 DEF Fresh, Handed, Holders, PromiseInv, HolderInv, ReplyHasOneHolder
  <2>3. ran[current] = 0
    BY <2>1, <2>2 DEF PromiseInv, CountsInv
  <2>4. "INPUT_NOT_APPROVED" \in Replies /\ Tells("INPUT_NOT_APPROVED", 0)
    BY DEF Replies, Tells, Outcome, NoAnswer
  <2>5. /\ UNCHANGED <<conn, kind, answer, ran, queue, pendingOp, visible>>
        /\ current' = NoReq /\ pc' = "reading" /\ Reply(current, "INPUT_NOT_APPROVED")
    BY <1>3 DEF Decline
  <2>6. QED
    BY <2>1, <2>3, <2>4, <2>5, PromiseReleased
<1>4. CASE Inject
  BY <1>4, PromiseInject
<1>5. CASE IdleTick \/ ApprovalTick
  <2>1. /\ UNCHANGED <<conn, kind, answer, ran, queue, pendingOp, current>> /\ CheckVisibleEval
        /\ pc # "silent" /\ pc' # "silent"
    BY <1>5 DEF IdleTick, ApprovalTick, Poll, EditorReads
  <2>2. CASE UNCHANGED <<slot, captureVars>>
    BY <2>1, <2>2, PromiseQuiet
  <2>3. ASSUME NEW v \in {"EVAL_TIMED_OUT", "Evaluate"}, FinishVisible(v)
        PROVE  Promised
    <3>1. visible \in Requests /\ visible \in Handed /\ v \in Replies
      BY <2>3 DEF FinishVisible, PromiseInv, HolderInv, TypeOK, MainTypeOK, Replies, Handed
    <3>2. Reply(visible, v) /\ visible' = NoReq
      BY <2>3 DEF FinishVisible
    <3>3. ran[visible] = 1 /\ Tells(v, 1)
      BY <3>1 DEF PromiseInv, CountsInv, Tells, Outcome, NoAnswer
    <3>4. QED
      BY <2>1, <3>1, <3>2, <3>3, PromiseReleased
  <2>4. QED
    BY <2>1, <2>2, <2>3 DEF CheckVisibleEval
<1>6. CASE Drain
  BY <1>6, PromiseDrain
<1>7. CASE Break
  <2>1. /\ current = NoReq /\ pc = "reading" /\ UNCHANGED <<conn, kind, answer, queue, visible>>
    BY <1>7 DEF Break, EditorReads, PromiseInv, HolderInv, BusyWhileInHand
  <2>2. CASE pendingOp # NoReq /\ TakeOperation /\ UNCHANGED slot
    BY <2>1, <2>2, PromiseTaken
  <2>3. CASE UNCHANGED <<slot, pc, opVars, ran>>
    BY <2>1, <2>3, PromiseQuiet
  <2>4. CASE /\ pendingOp # NoReq /\ Reply(pendingOp, "USER_IS_TYPING") /\ pendingOp' = NoReq
             /\ UNCHANGED <<pc, current, ran>>
    <3>1. pendingOp \in Requests /\ pendingOp \in Fresh
      BY <2>1, <2>4 DEF PromiseInv, HolderInv, TypeOK, MainTypeOK, Fresh, Handed, Holders,
         ReplyHasOneHolder
    <3>2. ran[pendingOp] = 0
      BY <3>1 DEF PromiseInv, CountsInv
    <3>3. "USER_IS_TYPING" \in Replies /\ Tells("USER_IS_TYPING", 0)
      BY DEF Replies, Tells, Outcome, NoAnswer
    <3>4. QED
      BY <2>1, <2>4, <3>1, <3>2, <3>3, PromiseReleased
  <2>5. QED
    BY <1>7, <2>2, <2>3, <2>4 DEF Break
<1>8. CASE Approve \/ DrainDone \/ Type \/ EnterLine \/ CtrlC \/ OtherMeta \/ EnterPager \/ LeavePager
  <2>1. /\ UNCHANGED <<conn, kind, answer, slot, ran, queue, pendingOp, current, visible>>
        /\ pc # "silent"
    BY <1>8 DEF Approve, DrainDone, Type, EnterLine, CtrlC, OtherMeta, EnterPager, LeavePager,
       EditorReturns, EditorReads, MetaLine
  <2>2. pc' # "silent"
    BY <1>8, <2>1 DEF Approve, DrainDone, Type, EnterLine, CtrlC, OtherMeta, EnterPager, LeavePager
  <2>3. QED
    BY <2>1, <2>2, PromiseQuiet
<1>9. ASSUME NEW b \in BOOLEAN, SetShell(b) \/ SetSendPolicy(b) PROVE Promised
  BY <1>9, PromiseQuiet DEF SetShell, SetSendPolicy
<1>10. CASE StartServer
  <2>1. /\ Queued' = {} /\ pc' = pc /\ pc = "reading"
        /\ UNCHANGED <<conn, kind, answer, slot, ran, pendingOp, current, visible>>
    BY <1>10, QueueEmptied DEF StartServer, OpenServer, MetaLine, EditorReturns, EditorReads
  <2>2. /\ Holders' = Fresh' \cup Handed' /\ Handed' = Handed /\ Ops' = Ops
        /\ Fresh' \subseteq Fresh
    BY <2>1 DEF Holders, Fresh, Handed, Ops
  <2>3. \A s \in Ops' : kind[s] # "session"
    BY <2>2 DEF PromiseInv, AnswersInv
  <2>4. QED
    BY <2>1, <2>2, <2>3, PromiseKept DEF Promised
<1>11. ASSUME NEW b \in BOOLEAN, StopServer(b) PROVE Promised
  BY <1>11, PromiseStop
<1>12. CASE JoinServer
  <2>1. /\ DropConnections /\ UNCHANGED <<kind, ran, queue, pendingOp, current, visible>>
        /\ pc # "silent" /\ pc' # "silent"
    BY <1>12 DEF JoinServer
  <2>2. QED
    BY <2>1, PromiseDropped
<1>13. CASE Vanish
  <2>1. /\ DropConnections /\ UNCHANGED <<kind, ran>> /\ queue' = <<>> /\ pc' = "done"
        /\ pendingOp' = NoReq /\ current' = NoReq /\ visible' = NoReq
    BY <1>13 DEF Vanish
  <2>2. Holders' = {}
    BY <2>1, QueueEmptied DEF Holders
  <2>3. QED
    BY <2>1, <2>2, PromiseDropped
<1>14. QED
  BY <1>1, <1>2, <1>3, <1>4, <1>5, <1>6, <1>7, <1>8, <1>9, <1>10, <1>11, <1>12, <1>13
     DEF MainStep, MainRuns, UserActs

\* The interactive session implements the promise to its clients: whichever way a request
\* takes through the server thread, the queue, the break signal, the approval prompt and R,
\* whatever times out on the way and wherever the session ends, its code runs at most once,
\* a success means that it ran, and after a refusal it never will.
THEOREM SessionKeepsPromise == Spec => KeepsPromise
<1>1. Init => CountsInv /\ AnswersInv /\ Promise!Init
  <2> SUFFICES ASSUME Init PROVE CountsInv /\ AnswersInv /\ Promise!Init
    OBVIOUS
  <2>1. Holders = {} /\ Ops = {} /\ Handed = {} /\ Fresh = {}
    BY DEF Init, TransportInit, Holders, Ops, Handed, Fresh, Queued
  <2>2. CountsInv /\ AnswersInv
    BY <2>1 DEF Init, TransportInit, CountsInv, AnswersInv
  <2>3. Outcome(NoAnswer) = "none"
    BY DEF Outcome, NoAnswer
  <2>4. Promise!Init
    BY <2>3 DEF Init, TransportInit, Promise!Init
  <2>5. QED
    BY <2>2, <2>4
<1>2. PromiseInv /\ [Next]_vars => Promised
  <2> SUFFICES ASSUME PromiseInv, [Next]_vars PROVE Promised
    OBVIOUS
  <2>1. CASE UNCHANGED vars
    BY <2>1, PromiseQuiet DEF vars, transportVars, connVars, channelVars, mainVars, opVars,
       captureVars
  <2>2. ASSUME NEW r \in Requests, ClientSends(r) PROVE Promised
    BY <2>2, PromiseAccept DEF Promised, Promise!Next
  <2>3. ASSUME NEW r \in Requests, Server(r) \/ Clock(r) PROVE Promised
    BY <2>3, PromiseServer DEF Promised, Promise!Next
  <2>4. CASE MainStep
    BY <2>4, PromiseMain
  <2>5. QED
    BY <2>1, <2>2, <2>3, <2>4 DEF Next, Terminated
<1>3. Spec => []HolderInv
  BY TypeCorrect, CaptureIsExclusive, ReplyOwned, PTL DEF HolderInv
<1>4. QED
  BY <1>1, <1>2, <1>3, PTL DEF Spec, PromiseInv, Promised, KeepsPromise, Promise!Spec

-----------------------------------------------------------------------------
(* The terminal user.                                                      *)

\* An operation is in hand.
InHand == pc \in {"silent", "approving", "approved"} \/ (pc = "draining" /\ current # NoReq)

\* IN_ALTERNATE_MODE tells of the shell editor and the pagers; once an operation is in hand,
\* or R has the line, nothing is typed and no other editor is open.
UserInv ==
  /\ pc # "pager" => (inAlternateMode <=> shell)
  /\ pc = "pager" => (savedMode <=> shell)
  /\ pc = "draining" => ~shell
  /\ pc = "R" => buffer = "blank"
  /\ InHand => buffer = "blank" /\ ~shell

\* With no other step running a client's code, it is enough to look at those that do.
LEMMA UserStep ==
  ASSUME HolderInv, UserInv, [Next]_vars
  PROVE  /\ UserInv'
         /\ \A r \in Requests : ran'[r] # ran[r] => buffer = "blank" /\ ~inAlternateMode /\ ~shell
<1> DEFINE Undisturbed == \A r \in Requests : ran'[r] # ran[r] =>
                            buffer = "blank" /\ ~inAlternateMode /\ ~shell
<1> USE DEF transportVars, connVars, channelVars, modeVars, terminalVars, opVars, captureVars
<1>1. ASSUME NEW r \in Requests, ClientSends(r) \/ Server(r) \/ Clock(r)
      PROVE  UserInv' /\ Undisturbed
  <2>1. UNCHANGED <<pc, current, buffer, shell, savedMode, inAlternateMode, ran>>
    BY <1>1 DEF ClientSends, Accept, Server, ServerStep, Send, Deliver, SenderDropped, Timeout,
       Clock, Elapse, mainVars
  <2>2. QED
    BY <2>1 DEF UserInv, InHand
<1>2. CASE UNCHANGED vars
  BY <1>2 DEF vars, mainVars, UserInv, InHand
<1>3. ASSUME NEW k \in PromptKinds, ReadConsole(k) PROVE UserInv' /\ Undisturbed
  <2>1. CASE pc' = "reading" /\ ran' = ran
    BY <1>3, <2>1 DEF ReadConsole, UserInv, InHand
  <2>2. CASE TakeOperation /\ ~shell
    BY <1>3, <2>2 DEF ReadConsole, TakeOperation, StartSilent, UserInv, InHand
  <2>3. QED
    BY <1>3, <2>1, <2>2 DEF ReadConsole
<1>4. CASE SilentDone \/ Approve \/ Decline \/ Inject
  BY <1>4 DEF SilentDone, Approve, Decline, Inject, UserInv, InHand
<1>5. CASE IdleTick \/ ApprovalTick
  <2>1. UNCHANGED <<current, buffer, shell, savedMode, inAlternateMode, ran>> /\ pc' \in {pc, "draining"}
    BY <1>5 DEF IdleTick, ApprovalTick, Poll
  <2>2. \/ pc = "reading" /\ ~shell /\ current = NoReq
        \/ pc = "approving"
    BY <1>5 DEF IdleTick, ApprovalTick, EditorReads, HolderInv, BusyWhileInHand
  <2>3. QED
    BY <2>1, <2>2 DEF UserInv, InHand
<1>6. CASE Drain \/ DrainDone
  BY <1>6 DEF Drain, DrainDone, UserInv, InHand
<1>7. CASE Break
  <2>1. pc = "reading" /\ ~shell /\ UNCHANGED <<buffer, shell, savedMode, inAlternateMode>>
    BY <1>7 DEF Break, EditorReads
  <2>2. CASE UNCHANGED <<pc, ran>>
    BY <2>1, <2>2 DEF UserInv, InHand
  <2>3. CASE TakeOperation /\ buffer = "blank"
    BY <2>1, <2>3 DEF TakeOperation, StartSilent, UserInv, InHand
  <2>4. QED
    BY <1>7, <2>2, <2>3 DEF Break
<1>8. CASE Type \/ EnterLine \/ CtrlC \/ OtherMeta
  BY <1>8 DEF Type, EnterLine, CtrlC, OtherMeta, MetaLine, EditorReturns, EditorReads, UserInv, InHand
<1>9. CASE EnterPager \/ LeavePager
  BY <1>9 DEF EnterPager, LeavePager, MetaLine, EditorReturns, EditorReads, UserInv, InHand
<1>10. ASSUME NEW b \in BOOLEAN, SetShell(b) \/ SetSendPolicy(b) PROVE UserInv' /\ Undisturbed
  BY <1>10 DEF SetShell, SetSendPolicy, MetaLine, EditorReturns, EditorReads, UserInv, InHand
<1>11. ASSUME NEW b \in BOOLEAN, StopServer(b) PROVE UserInv' /\ Undisturbed
  BY <1>11 DEF StopServer, MetaLine, EditorReturns, EditorReads, UserInv, InHand
<1>12. CASE StartServer \/ JoinServer \/ Vanish
  BY <1>12 DEF StartServer, OpenServer, JoinServer, Vanish, MetaLine, EditorReturns, EditorReads,
     UserInv, InHand
<1>13. QED
  BY <1>1, <1>2, <1>3, <1>4, <1>5, <1>6, <1>7, <1>8, <1>9, <1>10, <1>11, <1>12
     DEF Next, MainStep, MainRuns, UserActs, Terminated

\* A client's code is run when nothing is typed, and neither the shell editor nor a pager
\* owns the terminal, however the keys fall between its acceptance and its execution.
THEOREM UserIsUndisturbed == Spec => UserUndisturbed
<1>1. Init => UserInv
  BY DEF Init, TransportInit, UserInv, InHand
<1>2. HolderInv /\ UserInv /\ [Next]_vars => UserInv'
  BY UserStep
<1>3. HolderInv /\ UserInv /\ [Next]_vars =>
        [\A r \in Requests : ran'[r] # ran[r] => buffer = "blank" /\ ~inAlternateMode /\ ~shell]_vars
  BY UserStep
<1>4. Spec => []HolderInv
  BY TypeCorrect, CaptureIsExclusive, ReplyOwned, PTL DEF HolderInv
<1>5. QED
  BY <1>1, <1>2, <1>3, <1>4, PTL DEF Spec, UserUndisturbed

-----------------------------------------------------------------------------
(* The command prompt.                                                     *)

\* Where the break signal beats the keys: an operation that is accepted, or in hand, is at a
\* command prompt of the R editor, which cannot return before it is taken; and the prompt
\* flag is right wherever the main thread is, but while R runs or the session is over.
PromptInv ==
  /\ pendingOp # NoReq =>
       pc \in {"reading", "draining"} /\ prompt = "command" /\ breakSignal /\ ~shell
  /\ current # NoReq => prompt = "command"
  /\ atPrompt => pc \in {"R", "done"} \/ prompt = "command"

LEMMA PromptStep ==
  ASSUME ~EnterBeatsBreak, HolderInv, UserInv, PromptInv, [Next]_vars
  PROVE  /\ PromptInv'
         /\ \A r \in Requests : ran'[r] # ran[r] => prompt' = "command"
<1> DEFINE AtCommand == \A r \in Requests : ran'[r] # ran[r] => prompt' = "command"
<1> USE DEF transportVars, connVars, channelVars, modeVars, terminalVars, opVars, captureVars
<1>1. ASSUME NEW r \in Requests, ClientSends(r) \/ Server(r) \/ Clock(r)
      PROVE  PromptInv' /\ AtCommand
  <2>1. UNCHANGED <<pc, current, pendingOp, prompt, shell, breakSignal, atPrompt, ran>>
    BY <1>1 DEF ClientSends, Accept, Server, ServerStep, Send, Deliver, SenderDropped, Timeout,
       Clock, Elapse, mainVars
  <2>2. QED
    BY <2>1 DEF PromptInv
<1>2. CASE UNCHANGED vars
  BY <1>2 DEF vars, mainVars, PromptInv
<1>3. ASSUME NEW k \in PromptKinds, ReadConsole(k) PROVE PromptInv' /\ AtCommand
  <2>1. pendingOp = NoReq /\ current = NoReq
    BY <1>3 DEF ReadConsole, PromptInv, HolderInv, BusyWhileInHand
  <2>2. QED
    BY <1>3, <2>1 DEF ReadConsole, PromptInv
<1>4. CASE SilentDone \/ Approve \/ Decline \/ Inject
  <2>1. current # NoReq /\ pendingOp = NoReq
    BY <1>4 DEF SilentDone, Approve, Decline, Inject, HolderInv, BusyWhileInHand
  <2>2. QED
    BY <1>4, <2>1 DEF SilentDone, Approve, Decline, Inject, PromptInv
<1>5. CASE IdleTick \/ ApprovalTick
  <2>1. /\ UNCHANGED <<current, pendingOp, prompt, shell, breakSignal, atPrompt, ran>>
        /\ pc' \in {pc, "draining"} /\ pc # "done" /\ pc # "R"
    BY <1>5 DEF IdleTick, ApprovalTick, Poll, EditorReads
  <2>2. QED
    BY <2>1 DEF PromptInv
<1>6. CASE Drain
  <2>1. UNCHANGED <<current, prompt, shell, atPrompt, ran, pc>> /\ pc = "draining"
    BY <1>6 DEF Drain
  <2>2. \/ UNCHANGED <<pendingOp, breakSignal>>
        \/ atPrompt /\ breakSignal'
    BY <1>6 DEF Drain, HandleSession, HandleCode, Refusal, NoAnswer
  <2>3. QED
    BY <2>1, <2>2 DEF PromptInv, UserInv
<1>7. CASE DrainDone
  <2>1. current # NoReq => pendingOp = NoReq
    BY DEF HolderInv, BusyWhileInHand
  <2>2. QED
    BY <1>7, <2>1 DEF DrainDone, PromptInv
<1>8. CASE Break
  <2>1. pc = "reading" /\ current = NoReq /\ UNCHANGED <<prompt, shell>>
    BY <1>8 DEF Break, EditorReads, HolderInv, BusyWhileInHand
  <2>2. CASE pendingOp' = NoReq /\ current' = current /\ UNCHANGED <<pc, atPrompt, ran>>
    BY <2>1, <2>2 DEF PromptInv
  <2>3. CASE TakeOperation /\ pendingOp # NoReq
    BY <2>1, <2>3 DEF TakeOperation, StartSilent, PromptInv
  <2>4. QED
    BY <1>8, <2>2, <2>3 DEF Break
<1>9. CASE Type
  BY <1>9 DEF Type, PromptInv
<1>10. CASE EnterLine \/ CtrlC
  <2>1. pendingOp = NoReq
    BY <1>10 DEF EnterLine, CtrlC, EditorReturns, PromptInv
  <2>2. QED
    BY <1>10, <2>1 DEF EnterLine, CtrlC, PromptInv
<1>11. MetaLine => pendingOp = NoReq /\ pc = "reading"
  BY DEF MetaLine, EditorReturns, EditorReads, PromptInv
<1>12. CASE OtherMeta \/ EnterPager \/ LeavePager \/ StartServer
  <2>1. /\ UNCHANGED <<current, pendingOp, prompt, atPrompt, ran>> /\ pendingOp = NoReq
        /\ pc \notin {"R", "done"} /\ pc' \notin {"R", "done"}
    BY <1>11, <1>12 DEF OtherMeta, EnterPager, LeavePager, StartServer, OpenServer, PromptInv
  <2>2. QED
    BY <2>1 DEF PromptInv
<1>13. ASSUME NEW b \in BOOLEAN, SetShell(b) \/ SetSendPolicy(b) PROVE PromptInv' /\ AtCommand
  BY <1>11, <1>13 DEF SetShell, SetSendPolicy, PromptInv
<1>14. ASSUME NEW b \in BOOLEAN, StopServer(b) PROVE PromptInv' /\ AtCommand
  BY <1>11, <1>14 DEF StopServer, EditorReturns, EditorReads, PromptInv
<1>15. CASE JoinServer
  BY <1>15 DEF JoinServer, PromptInv
<1>16. CASE Vanish
  BY <1>16 DEF Vanish, PromptInv
<1>17. QED
  BY <1>1, <1>2, <1>3, <1>4, <1>5, <1>6, <1>7, <1>8, <1>9, <1>10, <1>12, <1>13, <1>14, <1>15,
     <1>16 DEF Next, MainStep, MainRuns, UserActs, Terminated

\* Where the editor looks at the break signal before it returns a line, R_IS_AT_PROMPT is right
\* whenever a request can see it, and a client's code is only ever run at the top-level prompt:
\* never as the answer to a question of the running code, nor inside an incomplete line.
THEOREM OnlyAtCommandPrompt ==
  ASSUME ~EnterBeatsBreak
  PROVE  Spec => RunsOnlyAtCommandPrompt
<1>1. Init => UserInv /\ PromptInv
  BY DEF Init, TransportInit, UserInv, InHand, PromptInv
<1>2. HolderInv /\ UserInv /\ PromptInv /\ [Next]_vars => UserInv' /\ PromptInv'
  BY UserStep, PromptStep
<1>3. HolderInv /\ UserInv /\ PromptInv /\ [Next]_vars =>
        [\A r \in Requests : ran'[r] # ran[r] => prompt' = "command"]_vars
  BY PromptStep
<1>4. PromptInv => AtPromptSound
  BY DEF PromptInv, AtPromptSound
<1>5. Spec => []HolderInv
  BY TypeCorrect, CaptureIsExclusive, ReplyOwned, PTL DEF HolderInv
<1>6. QED
  BY <1>1, <1>2, <1>3, <1>4, <1>5, PTL DEF Spec, RunsOnlyAtCommandPrompt
=============================================================================
