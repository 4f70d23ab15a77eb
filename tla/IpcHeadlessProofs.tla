-------------------------- MODULE IpcHeadlessProofs --------------------------
(***************************************************************************)
(* Proofs about IpcHeadless, for every set of requests and kinds: what was *)
(* run is recorded before anything else runs, and the headless session     *)
(* implements IpcPromise.                                                  *)
(***************************************************************************)
EXTENDS IpcHeadless, TLAPS

USE TransportAssumption, HeadlessAssumption

-----------------------------------------------------------------------------
(* The inductive invariant.                                                *)

NoDuplicates == \A i, j \in 1..Len(queue) : queue[i] = queue[j] => i = j

\* A request is in hand while it is evaluated and saved, and is not in the queue any more.
HandInv ==
  /\ pc \in {"evaluating", "saving"} => current # NoReq
  /\ pc \notin {"evaluating", "saving", "done"} => current = NoReq
  /\ NoDuplicates
  /\ \A r \in Queued : conn[r] \in {"waiting", "done"}
  /\ current \notin Queued

\* What has not reached the main thread, or waits there, has not run; the request in hand
\* has run once, and whatever else has is recorded.
CountsInv ==
  /\ \A r \in Requests :
       /\ ran[r] \in {0, 1}
       /\ conn[r] \in {"idle", "parsed"} \/ r \in Queued \/ kind[r] = "session" => ran[r] = 0
  /\ current # NoReq => ran[current] = 1
  /\ RecordedBeforeNext

\* Value v on a reply channel agrees with code that has run n times.
Tells(v, n) ==
  /\ Outcome(v) = "success" => n = 1
  /\ Outcome(v) \in {"refused", "info"} => n = 0

\* A reply on its way agrees with the count, a queued request has none, and one whose
\* client has been answered meanwhile was left open.
AnswersInv ==
  /\ \A r \in Requests : conn[r] = "done" <=> answer[r] # NoAnswer
  /\ \A r \in Requests : conn[r] = "waiting" /\ slot[r] # "open" => Tells(slot[r], ran[r])
  /\ \A r \in Queued : conn[r] = "waiting" => slot[r] = "open"
  /\ \A r \in Queued : conn[r] = "done" /\ kind[r] # "session" => Outcome(answer[r]) = "open"

HeadlessInv == TypeOK /\ HandInv /\ CountsInv /\ AnswersInv

LEMMA QueuedType ==
  ASSUME TypeOK
  PROVE  Queued \subseteq Requests
BY DEF Queued, TypeOK, TransportTypeOK

LEMMA QueueEmptied ==
  ASSUME queue' = <<>>
  PROVE  Queued' = {} /\ NoDuplicates'
BY DEF Queued, NoDuplicates

LEMMA QueueAppend ==
  ASSUME TypeOK, NoDuplicates, NEW r \in Requests, r \notin Queued, queue' = Append(queue, r)
  PROVE  Queued' = Queued \cup {r} /\ NoDuplicates' /\ queue' \in Seq(Requests)
<1>1. queue \in Seq(Requests)
  BY DEF TypeOK, TransportTypeOK
<1>2. /\ Len(queue') = Len(queue) + 1
      /\ queue'[Len(queue) + 1] = r
      /\ \A i \in 1..Len(queue) : queue'[i] = queue[i]
  BY <1>1
<1>3. Queued' = Queued \cup {r}
  BY <1>1, <1>2 DEF Queued
<1>4. NoDuplicates'
  BY <1>1, <1>2 DEF NoDuplicates, Queued
<1>5. QED
  BY <1>1, <1>3, <1>4

LEMMA QueueTail ==
  ASSUME TypeOK, NoDuplicates, queue # <<>>, queue' = Tail(queue)
  PROVE  /\ Head(queue) \in Queued
         /\ Queued' \subseteq Queued \ {Head(queue)}
         /\ NoDuplicates' /\ queue' \in Seq(Requests)
<1>1. queue \in Seq(Requests) /\ Len(queue) \in Nat /\ Len(queue) # 0
  BY DEF TypeOK, TransportTypeOK
<1>2. /\ Len(queue') = Len(queue) - 1
      /\ \A i \in 1..Len(queue') : queue'[i] = queue[i + 1]
      /\ Head(queue) = queue[1]
  BY <1>1
<1>3. Head(queue) \in Queued
  BY <1>1, <1>2 DEF Queued
<1>4. Queued' \subseteq Queued \ {Head(queue)}
  BY <1>1, <1>2 DEF Queued, NoDuplicates
<1>5. NoDuplicates'
  BY <1>1, <1>2 DEF NoDuplicates
<1>6. QED
  BY <1>1, <1>3, <1>4, <1>5

-----------------------------------------------------------------------------
(* Clients and the server thread.                                          *)

\* A step that keeps the invariant, and that the promise allows.
Promised == HeadlessInv' /\ [Promise!Next]_Promise!vars

\* A client is answered: what it is told agrees with what was run.
LEMMA PromiseAnswer ==
  ASSUME HeadlessInv, UNCHANGED <<kind, due, channelVars, modeVars, mainVars, ran>>,
         NEW r \in Requests, conn[r] \in {"parsed", "waiting"},
         NEW a \in Answers, Finish(r, a), Tells(a, ran[r]),
         r \in Queued /\ kind[r] # "session" => Outcome(a) = "open"
  PROVE  Promised
<1> USE DEF channelVars, modeVars, mainVars
<1>1. /\ conn \in [Requests -> ConnStates] /\ answer \in [Requests -> Answers \cup {NoAnswer}]
      /\ slot \in [Requests -> SlotStates]
  BY DEF HeadlessInv, TypeOK, TransportTypeOK
<1>2. /\ conn'[r] = "done" /\ answer'[r] = a
      /\ \A s \in Requests \ {r} : conn'[s] = conn[s] /\ answer'[s] = answer[s] /\ slot'[s] = slot[s]
      /\ conn' \in [Requests -> ConnStates] /\ answer' \in [Requests -> Answers \cup {NoAnswer}]
      /\ slot' \in [Requests -> SlotStates]
  BY <1>1 DEF Finish, ConnStates, SlotStates
<1>3. Queued' = Queued /\ (NoDuplicates' <=> NoDuplicates) /\ Queued \subseteq Requests
  BY QueuedType DEF Queued, NoDuplicates, HeadlessInv
<1>4. TypeOK'
  BY <1>2 DEF HeadlessInv, TypeOK, TransportTypeOK
<1>5. HandInv'
  BY <1>2, <1>3 DEF HeadlessInv, HandInv
<1>6. CountsInv'
  BY <1>2, <1>3 DEF HeadlessInv, CountsInv, RecordedBeforeNext
<1>7. a # NoAnswer /\ Outcome(a) \in {"success", "info", "open", "refused"}
  BY DEF Answers, Replies, ServerAnswers, NoAnswer, Outcome
<1>8. AnswersInv'
  BY <1>2, <1>3, <1>7 DEF HeadlessInv, AnswersInv
<1>9. Outcome(answer[r]) = "none"
  BY DEF HeadlessInv, AnswersInv, Outcome, NoAnswer
<1>10. {s \in Requests : conn'[s] # "idle"} = {s \in Requests : conn[s] # "idle"}
  BY <1>2
<1>11. [s \in Requests |-> Outcome(answer'[s])]
         = [[s \in Requests |-> Outcome(answer[s])] EXCEPT ![r] = Outcome(a)]
  BY <1>2
<1>12. ran[r] \in {0, 1}
  BY DEF HeadlessInv, CountsInv
<1>13. Promise!Answer(r, Outcome(a))
  BY <1>9, <1>10, <1>11, <1>12 DEF Promise!Answer, Tells
<1>14. QED
  BY <1>4, <1>5, <1>6, <1>7, <1>8, <1>13 DEF Promised, HeadlessInv, Promise!Next, Promise!Outcomes

\* A client sends a request: it is known from now on, and perhaps answered at once; the
\* answer of a shutdown request is on its way.
LEMMA PromiseAccept ==
  ASSUME HeadlessInv, NEW r \in Requests, ClientSends(r)
  PROVE  Promised
<1> USE DEF channelVars, modeVars, mainVars
<1>1. PICK k \in Kinds : Accept(r, k)
  BY DEF ClientSends
<1>2. /\ conn \in [Requests -> ConnStates] /\ answer \in [Requests -> Answers \cup {NoAnswer}]
      /\ slot \in [Requests -> SlotStates] /\ kind \in [Requests -> AllKinds \cup {NoKind}]
  BY DEF HeadlessInv, TypeOK, TransportTypeOK
<1>3. conn[r] = "idle" /\ r \notin Queued /\ ran[r] = 0 /\ answer[r] = NoAnswer
  BY <1>1 DEF Accept, HeadlessInv, HandInv, CountsInv, AnswersInv
<1>4. UNCHANGED <<ran, mainVars, due, channelVars, inAlternateMode>>
  BY <1>1 DEF ClientSends, Accept
<1>5. Queued' = Queued /\ (NoDuplicates' <=> NoDuplicates) /\ Queued \subseteq Requests
  BY <1>4, QueuedType DEF Queued, NoDuplicates, HeadlessInv
<1>6. /\ AnswersAtOnce(k) \subseteq Answers
      /\ \A a \in AnswersAtOnce(k) : a # NoAnswer /\ Outcome(a) \in {"refused", "info"}
  BY DEF AnswersAtOnce, NoAnswer, Outcome, Answers, Replies, ServerAnswers
<1>7. \/ conn' = [conn EXCEPT ![r] = "parsed"] /\ answer' = answer /\ slot' = slot
      \/ /\ conn' = [conn EXCEPT ![r] = "waiting"] /\ answer' = answer
         /\ slot' = [slot EXCEPT ![r] = "Shutdown"]
      \/ \E a \in AnswersAtOnce(k) :
           /\ conn' = [conn EXCEPT ![r] = "done"] /\ answer' = [answer EXCEPT ![r] = a]
           /\ slot' = [slot EXCEPT ![r] = "none"]
  BY <1>1 DEF Accept, TriggerShutdown, Finish
<1>8. /\ kind' = [kind EXCEPT ![r] = k] /\ k \in AllKinds
      /\ shutdownRequested' \in BOOLEAN
  BY <1>1, TransportAssumption DEF Accept, TriggerShutdown, HeadlessInv, TypeOK, TransportTypeOK
<1>9. \A s \in Requests \ {r} : /\ conn'[s] = conn[s] /\ answer'[s] = answer[s]
                                /\ slot'[s] = slot[s] /\ kind'[s] = kind[s]
  BY <1>2, <1>7, <1>8
<1>10. \/ conn'[r] \in {"parsed", "waiting"} /\ answer'[r] = NoAnswer
          /\ (conn'[r] = "waiting" => slot'[r] = "Shutdown")
       \/ conn'[r] = "done" /\ answer'[r] # NoAnswer /\ Outcome(answer'[r]) \in {"refused", "info"}
  BY <1>2, <1>3, <1>6, <1>7
<1>11. TypeOK'
  <2>1. "Shutdown" \in SlotStates /\ "none" \in SlotStates /\ {"parsed", "waiting", "done"} \subseteq ConnStates
    BY DEF SlotStates, Replies, ConnStates
  <2>2. /\ conn' \in [Requests -> ConnStates] /\ answer' \in [Requests -> Answers \cup {NoAnswer}]
        /\ slot' \in [Requests -> SlotStates] /\ kind' \in [Requests -> AllKinds \cup {NoKind}]
    BY <1>2, <1>6, <1>7, <1>8, <2>1
  <2>3. QED
    BY <1>4, <1>8, <2>2 DEF HeadlessInv, TypeOK, TransportTypeOK
<1>12. HandInv'
  BY <1>3, <1>4, <1>5, <1>9 DEF HeadlessInv, HandInv
<1>13. CountsInv'
  BY <1>3, <1>4, <1>5, <1>9 DEF HeadlessInv, CountsInv, RecordedBeforeNext
<1>14. Tells("Shutdown", 0)
  BY DEF Tells, Outcome, NoAnswer
<1>15. AnswersInv'
  BY <1>3, <1>4, <1>5, <1>9, <1>10, <1>14 DEF HeadlessInv, AnswersInv
<1>16. Promise!Submit(r)
  <2>1. {s \in Requests : conn'[s] # "idle"} = {s \in Requests : conn[s] # "idle"} \cup {r}
    BY <1>9, <1>10
  <2>2. Outcome(answer'[r]) \in {"none", "refused", "info"}
    BY <1>10 DEF Outcome, NoAnswer
  <2>3. [s \in Requests |-> Outcome(answer'[s])]
          = [[s \in Requests |-> Outcome(answer[s])] EXCEPT ![r] = Outcome(answer'[r])]
    BY <1>9
  <2>4. QED
    BY <1>3, <1>4, <2>1, <2>2, <2>3 DEF Promise!Submit
<1>17. QED
  BY <1>11, <1>12, <1>13, <1>15, <1>16 DEF Promised, HeadlessInv, Promise!Next

\* What the server thread does with a request, and the passing of time.
LEMMA PromiseServer ==
  ASSUME HeadlessInv, NEW r \in Requests, Server(r) \/ Clock(r)
  PROVE  Promised
<1> USE DEF connVars, channelVars, modeVars, mainVars
<1>1. UNCHANGED <<kind, ran, mainVars, receiver, listening, modeVars>>
  BY DEF Server, ServerStep, Send, Deliver, SenderDropped, Timeout, Clock, Elapse
<1>2. CASE Clock(r)
  <2>1. UNCHANGED <<conn, answer, slot, queue>> /\ due' \in SUBSET Requests
    BY <1>2 DEF Clock, Elapse, HeadlessInv, TypeOK, TransportTypeOK
  <2>2. Queued' = Queued /\ (NoDuplicates' <=> NoDuplicates)
    BY <2>1 DEF Queued, NoDuplicates
  <2>3. TypeOK'
    BY <1>1, <2>1 DEF HeadlessInv, TypeOK, TransportTypeOK
  <2>4. HandInv' /\ CountsInv' /\ AnswersInv'
    BY <1>1, <2>1, <2>2 DEF HeadlessInv, HandInv, CountsInv, AnswersInv, RecordedBeforeNext
  <2>5. QED
    BY <1>1, <2>1, <2>3, <2>4 DEF Promised, HeadlessInv, Promise!vars
<1>3. CASE Send(r) /\ receiver
  <2>1. /\ conn \in [Requests -> ConnStates] /\ slot \in [Requests -> SlotStates]
    BY DEF HeadlessInv, TypeOK, TransportTypeOK
  <2>2. conn[r] = "parsed" /\ r \notin Queued /\ ran[r] = 0 /\ r # current
    BY <1>3 DEF Send, HeadlessInv, HandInv, CountsInv
  <2>3. /\ conn' = [conn EXCEPT ![r] = "waiting"] /\ slot' = [slot EXCEPT ![r] = "open"]
        /\ UNCHANGED <<answer, due>> /\ queue' = Append(queue, r)
    BY <1>3 DEF Send
  <2>4. Queued' = Queued \cup {r} /\ NoDuplicates' /\ queue' \in Seq(Requests) /\ Queued \subseteq Requests
    BY <2>2, <2>3, QueueAppend, QueuedType DEF HeadlessInv, HandInv
  <2>5. /\ conn'[r] = "waiting" /\ slot'[r] = "open"
        /\ \A s \in Requests \ {r} : conn'[s] = conn[s] /\ slot'[s] = slot[s]
        /\ conn' \in [Requests -> ConnStates] /\ slot' \in [Requests -> SlotStates]
    BY <2>1, <2>3 DEF ConnStates, SlotStates
  <2>6. TypeOK'
    BY <1>1, <2>3, <2>4, <2>5 DEF HeadlessInv, TypeOK, TransportTypeOK
  <2>7. HandInv'
    BY <1>1, <2>2, <2>4, <2>5 DEF HeadlessInv, HandInv
  <2>8. CountsInv'
    BY <1>1, <2>2, <2>4, <2>5 DEF HeadlessInv, CountsInv, RecordedBeforeNext
  <2>9. AnswersInv'
    BY <1>1, <2>2, <2>3, <2>4, <2>5 DEF HeadlessInv, AnswersInv
  <2>10. {s \in Requests : conn'[s] # "idle"} = {s \in Requests : conn[s] # "idle"}
    BY <2>2, <2>5
  <2>11. QED
    BY <1>1, <2>3, <2>6, <2>7, <2>8, <2>9, <2>10 DEF Promised, HeadlessInv, Promise!vars
<1>4. ASSUME NEW a \in Answers, Finish(r, a), conn[r] \in {"parsed", "waiting"},
             UNCHANGED <<queue, due>>,
             Tells(a, ran[r]), r \in Queued /\ kind[r] # "session" => Outcome(a) = "open"
      PROVE  Promised
  BY <1>1, <1>4, PromiseAnswer
<1>5. /\ {"SessionFallback", "UNAVAILABLE", "HANDLER_DROPPED", "TIMED_OUT"} \subseteq Answers
      /\ Tells("SessionFallback", 0) /\ Tells("UNAVAILABLE", 0) /\ Tells("HANDLER_DROPPED", 0)
      /\ Outcome("TIMED_OUT") = "open" /\ \A n : Tells("TIMED_OUT", n)
  BY DEF Answers, ServerAnswers, Tells, Outcome, NoAnswer
<1>6. CASE Send(r) /\ ~receiver
  <2>1. ran[r] = 0 /\ r \notin Queued
    BY <1>6 DEF Send, HeadlessInv, HandInv, CountsInv
  <2>2. Finish(r, "SessionFallback") \/ Finish(r, "UNAVAILABLE")
    BY <1>6 DEF Send
  <2>3. conn[r] = "parsed" /\ UNCHANGED <<queue, due>>
    BY <1>6 DEF Send
  <2>4. QED
    BY <1>4, <1>5, <2>1, <2>2, <2>3
<1>7. CASE Deliver(r)
  <2>1. conn[r] = "waiting" /\ slot[r] \in Replies /\ Finish(r, slot[r]) /\ UNCHANGED <<queue, due>>
    BY <1>7 DEF Deliver
  <2>2. slot[r] # "open" /\ slot[r] \in Answers
    BY <2>1 DEF Replies, Answers
  <2>3. Tells(slot[r], ran[r]) /\ r \notin Queued
    BY <2>1, <2>2 DEF HeadlessInv, AnswersInv
  <2>4. QED
    BY <1>4, <2>1, <2>2, <2>3
<1>8. CASE SenderDropped(r)
  <2>1. conn[r] = "waiting" /\ slot[r] = "dropped" /\ UNCHANGED <<queue, due>>
    BY <1>8 DEF SenderDropped
  <2>2. r \notin Queued /\ Tells("dropped", ran[r])
    BY <2>1 DEF HeadlessInv, AnswersInv
  <2>3. ran[r] = 0
    BY <2>2 DEF Tells, Outcome, NoAnswer
  <2>4. Finish(r, "SessionFallback") \/ Finish(r, "HANDLER_DROPPED")
    BY <1>8 DEF SenderDropped
  <2>5. QED
    BY <1>4, <1>5, <2>1, <2>2, <2>3, <2>4
<1>9. CASE Timeout(r)
  <2>1. conn[r] = "waiting" /\ UNCHANGED <<queue, due>>
    BY <1>9 DEF Timeout
  <2>2. CASE kind[r] = "session"
    <3>1. ran[r] = 0 /\ Finish(r, "SessionFallback")
      BY <1>9, <2>2 DEF Timeout, HeadlessInv, CountsInv
    <3>2. QED
      BY <1>4, <1>5, <2>1, <2>2, <3>1
  <2>3. CASE kind[r] # "session"
    <3>1. Finish(r, "TIMED_OUT")
      BY <1>9, <2>3 DEF Timeout
    <3>2. QED
      BY <1>4, <1>5, <2>1, <3>1
  <2>4. QED
    BY <2>2, <2>3
<1>10. QED
  BY <1>2, <1>3, <1>6, <1>7, <1>8, <1>9 DEF Server, ServerStep, Send

-----------------------------------------------------------------------------
(* The main thread.                                                        *)

\* Nothing is run or answered: what is on the reply channels agrees with what was run.
LEMMA PromiseKept ==
  ASSUME HeadlessInv, UNCHANGED <<conn, kind, answer, ran, due, listening, inAlternateMode>>,
         TypeOK', HandInv', CountsInv', Queued' \subseteq Queued,
         \A s \in Requests :
           \/ slot'[s] = slot[s]
           \/ s \notin Queued' /\ (conn[s] = "waiting" => Tells(slot'[s], ran[s]))
  PROVE  Promised
<1>1. Queued \subseteq Requests
  BY QueuedType DEF HeadlessInv
<1>2. AnswersInv'
  BY <1>1 DEF HeadlessInv, AnswersInv
<1>3. UNCHANGED Promise!vars
  BY DEF Promise!vars
<1>4. QED
  BY <1>2, <1>3 DEF Promised, HeadlessInv

\* The queue's sender is dropped with the receiving end: clients learn that their code was
\* not run.
LEMMA PromiseStop ==
  ASSUME HeadlessInv, pc \in {"starting", "checking"}, pc' = "stopping",
         receiver' = FALSE, queue' = <<>>,
         slot' = [r \in Requests |-> IF r \in Queued THEN Sent(r, "dropped") ELSE slot[r]],
         UNCHANGED <<connVars, listening, modeVars, current, saved, ran>>
  PROVE  Promised
<1> USE DEF connVars, modeVars
<1>1. Queued' = {} /\ NoDuplicates'
  BY QueueEmptied
<1>2. TypeOK'
  <2>1. \A r \in Requests : Sent(r, "dropped") \in SlotStates
    BY DEF Sent, SlotStates, HeadlessInv, TypeOK, TransportTypeOK
  <2>2. slot' \in [Requests -> SlotStates] /\ queue' \in Seq(Requests)
    BY <2>1 DEF HeadlessInv, TypeOK, TransportTypeOK
  <2>3. QED
    BY <2>2 DEF HeadlessInv, TypeOK, TransportTypeOK, Locations
<1>3. HandInv'
  BY <1>1 DEF HeadlessInv, HandInv
<1>4. CountsInv'
  BY <1>1 DEF HeadlessInv, CountsInv, RecordedBeforeNext
<1>5. Tells("dropped", 0) /\ \A r \in Requests \cap Queued : ran[r] = 0
  BY DEF Tells, Outcome, NoAnswer, HeadlessInv, CountsInv
<1>6. \A s \in Requests :
        \/ slot'[s] = slot[s]
        \/ s \notin Queued' /\ (conn[s] = "waiting" => Tells(slot'[s], ran[s]))
  BY <1>1, <1>5 DEF Sent
<1>7. QED
  BY <1>1, <1>2, <1>3, <1>4, <1>6, PromiseKept

\* The head of the queue is answered unrun, or evaluated.
LEMMA PromiseTake ==
  ASSUME HeadlessInv, Take
  PROVE  Promised
<1> DEFINE h == Head(queue)
<1> USE DEF connVars, modeVars
<1>1. /\ h \in Queued /\ Queued' \subseteq Queued \ {h} /\ NoDuplicates' /\ queue' \in Seq(Requests)
      /\ Queued \subseteq Requests
  BY QueueTail, QueuedType DEF HeadlessInv, HandInv, Take
<1>2. /\ UNCHANGED <<conn, kind, answer, due, receiver, listening, modeVars, saved>>
      /\ pc = "polling" /\ current = NoReq
  BY DEF Take, HeadlessInv, HandInv
<1>3. /\ ran[h] = 0 /\ slot \in [Requests -> SlotStates] /\ ran \in [Requests -> Nat]
      /\ conn[h] \in {"waiting", "done"}
  BY <1>1 DEF HeadlessInv, CountsInv, HandInv, TypeOK, TransportTypeOK
<1>4. CASE /\ \E v \in {"Session", "R_EVAL_NOT_ALLOWED"} : Reply(h, v)
           /\ UNCHANGED <<pc, current, ran>>
  <2>1. PICK v \in {"Session", "R_EVAL_NOT_ALLOWED"} : Reply(h, v)
    BY <1>4
  <2>2. Tells(v, 0) /\ v \in SlotStates
    BY DEF Tells, Outcome, NoAnswer, SlotStates, Replies
  <2>3. slot' \in [Requests -> SlotStates]
    BY <1>1, <1>3, <2>1, <2>2 DEF Reply, Sent
  <2>4. TypeOK'
    BY <1>1, <1>2, <1>4, <2>3 DEF HeadlessInv, TypeOK, TransportTypeOK
  <2>5. HandInv'
    BY <1>1, <1>2, <1>4 DEF HeadlessInv, HandInv
  <2>6. CountsInv'
    BY <1>1, <1>2, <1>4 DEF HeadlessInv, CountsInv, RecordedBeforeNext
  <2>7. \A s \in Requests :
          \/ slot'[s] = slot[s]
          \/ s \notin Queued' /\ (conn[s] = "waiting" => Tells(slot'[s], ran[s]))
    BY <1>1, <1>3, <2>1, <2>2 DEF Reply, Sent
  <2>8. QED
    BY <1>1, <1>2, <1>4, <2>4, <2>5, <2>6, <2>7, PromiseKept
<1>5. CASE /\ kind[h] \notin {"session", "denied"} /\ pc' = "evaluating" /\ current' = h
           /\ ran' = [ran EXCEPT ![h] = @ + 1] /\ slot' = slot
  <2>1. ran' = [ran EXCEPT ![h] = 1] /\ ran' \in [Requests -> Nat]
    BY <1>1, <1>3, <1>5
  <2>2. ran'[h] = 1 /\ \A r \in Requests \ {h} : ran'[r] = ran[r]
    BY <1>1, <1>3, <2>1
  <2>3. TypeOK'
    BY <1>1, <1>2, <1>5, <2>1 DEF HeadlessInv, TypeOK, TransportTypeOK, Locations
  <2>4. HandInv'
    BY <1>1, <1>2, <1>5 DEF HeadlessInv, HandInv
  <2>5. CountsInv'
    BY <1>1, <1>2, <1>3, <1>5, <2>2 DEF HeadlessInv, CountsInv, RecordedBeforeNext
  <2>6. AnswersInv'
    BY <1>1, <1>2, <1>5, <2>2 DEF HeadlessInv, AnswersInv
  <2>7. Outcome(answer[h]) \in {"none", "open"}
    BY <1>1, <1>3, <1>5 DEF HeadlessInv, AnswersInv, Outcome, NoAnswer
  <2>8. Promise!Run(h)
    BY <1>1, <1>2, <1>3, <2>1, <2>7 DEF Promise!Run
  <2>9. QED
    BY <1>1, <2>3, <2>4, <2>5, <2>6, <2>8 DEF Promised, HeadlessInv, Promise!Next
<1>6. QED
  BY <1>4, <1>5 DEF Take

\* The reply of the evaluation goes out.
LEMMA PromiseEvaluated ==
  ASSUME HeadlessInv, Evaluated
  PROVE  Promised
<1> USE DEF connVars, modeVars, channelVars
<1>1. PICK v \in {"Evaluate", "UserInput", "UserInputFailed"} : Reply(current, v)
  BY DEF Evaluated
<1>2. /\ current \in Requests /\ current \notin Queued /\ ran[current] = 1
      /\ slot \in [Requests -> SlotStates]
  BY DEF Evaluated, HeadlessInv, HandInv, CountsInv, TypeOK, TransportTypeOK
<1>3. /\ UNCHANGED <<connVars, channelVars, modeVars, current, saved, ran>>
      /\ pc' = "saving" /\ pc = "evaluating"
  BY DEF Evaluated
<1>4. Queued' = Queued /\ (NoDuplicates' <=> NoDuplicates)
  BY <1>3 DEF Queued, NoDuplicates
<1>5. Tells(v, 1) /\ v \in SlotStates
  BY DEF Tells, Outcome, NoAnswer, SlotStates, Replies
<1>6. TypeOK'
  <2>1. slot' \in [Requests -> SlotStates]
    BY <1>1, <1>2, <1>5 DEF Reply, Sent
  <2>2. QED
    BY <1>3, <2>1 DEF HeadlessInv, TypeOK, TransportTypeOK, Locations
<1>7. HandInv' /\ CountsInv'
  BY <1>3, <1>4 DEF HeadlessInv, HandInv, CountsInv, RecordedBeforeNext
<1>8. \A s \in Requests :
        \/ slot'[s] = slot[s]
        \/ s \notin Queued' /\ (conn[s] = "waiting" => Tells(slot'[s], ran[s]))
  BY <1>1, <1>2, <1>4, <1>5 DEF Reply, Sent
<1>9. QED
  BY <1>3, <1>4, <1>6, <1>7, <1>8, PromiseKept

\* The server goes away, with the process or before it.
LEMMA PromiseLost ==
  ASSUME HeadlessInv, JoinServer \/ Vanish
  PROVE  Promised
<1> DEFINE served == {r \in Requests : conn[r] \in {"parsed", "waiting"}}
<1> USE DEF modeVars
<1>1. /\ conn \in [Requests -> ConnStates] /\ answer \in [Requests -> Answers \cup {NoAnswer}]
      /\ slot \in [Requests -> SlotStates]
  BY DEF HeadlessInv, TypeOK, TransportTypeOK
<1>2. /\ DropConnections /\ pc' = "done" /\ UNCHANGED <<kind, due, modeVars, current, saved, ran>>
      /\ UNCHANGED <<queue, receiver>> \/ (queue' = <<>> /\ receiver' = FALSE)
  BY DEF JoinServer, Vanish
<1>3. /\ conn' = [r \in Requests |-> IF r \in served THEN "done" ELSE conn[r]]
      /\ answer' = [r \in Requests |-> IF r \in served THEN "CONNECTION_LOST" ELSE answer[r]]
      /\ slot' = [r \in Requests |-> IF r \in served THEN "none" ELSE slot[r]]
      /\ listening' = FALSE
  BY <1>2 DEF DropConnections
<1>4. /\ \A r \in Requests : conn'[r] = IF r \in served THEN "done" ELSE conn[r]
      /\ \A r \in Requests : answer'[r] = IF r \in served THEN "CONNECTION_LOST" ELSE answer[r]
      /\ \A r \in Requests : conn'[r] \in {"idle", "done"}
      /\ \A r \in Requests : conn'[r] = "idle" <=> conn[r] = "idle"
  BY <1>1, <1>3 DEF ConnStates
<1>5. /\ Queued' \subseteq Queued /\ (NoDuplicates => NoDuplicates') /\ Queued \subseteq Requests
      /\ queue' \in Seq(Requests)
  <2>1. CASE queue' = queue
    BY <2>1, QueuedType DEF Queued, NoDuplicates, HeadlessInv, TypeOK, TransportTypeOK
  <2>2. CASE queue' = <<>>
    BY <2>2, QueueEmptied, QueuedType DEF HeadlessInv
  <2>3. QED
    BY <1>2, <2>1, <2>2
<1>6. TypeOK'
  <2>1. /\ conn' \in [Requests -> ConnStates] /\ answer' \in [Requests -> Answers \cup {NoAnswer}]
        /\ slot' \in [Requests -> SlotStates]
    BY <1>1, <1>3 DEF ConnStates, SlotStates, Answers, ServerAnswers
  <2>2. QED
    BY <1>2, <1>3, <1>5, <2>1 DEF HeadlessInv, TypeOK, TransportTypeOK, Locations
<1>7. HandInv'
  BY <1>2, <1>4, <1>5 DEF HeadlessInv, HandInv
<1>8. CountsInv'
  BY <1>2, <1>4, <1>5 DEF HeadlessInv, CountsInv, RecordedBeforeNext
<1>9. Outcome("CONNECTION_LOST") = "open" /\ NoAnswer # "CONNECTION_LOST"
  BY DEF Outcome, NoAnswer
<1>10. AnswersInv'
  BY <1>2, <1>4, <1>5, <1>9 DEF HeadlessInv, AnswersInv
<1>11. \A r \in served : conn[r] # "idle" /\ Outcome(answer[r]) = "none"
  BY DEF HeadlessInv, AnswersInv, Outcome, NoAnswer
<1>12. [r \in Requests |-> Outcome(answer'[r])]
        = [r \in Requests |-> IF r \in served THEN "open" ELSE [s \in Requests |-> Outcome(answer[s])][r]]
  BY <1>4, <1>9
<1>13. {r \in Requests : conn'[r] # "idle"} = {r \in Requests : conn[r] # "idle"}
  BY <1>4
<1> HIDE DEF served
<1>14. served \in SUBSET Requests
  BY DEF served
<1>15. Promise!Lose(served)
  BY <1>2, <1>11, <1>12, <1>13, <1>14 DEF Promise!Lose
<1>16. QED
  BY <1>6, <1>7, <1>8, <1>10, <1>14, <1>15 DEF Promised, HeadlessInv, Promise!Next

\* The steps that touch no channel.
LEMMA PromiseQuiet ==
  ASSUME HeadlessInv,
         \/ Started /\ pc' = "checking"
         \/ Signal \/ EnterLoop \/ Save \/ LoopBack \/ UNCHANGED vars
  PROVE  Promised
<1> USE DEF transportVars, connVars, modeVars, channelVars, mainVars, vars
<1>1. UNCHANGED <<conn, kind, answer, slot, ran, due, queue, receiver, listening, inAlternateMode>>
  BY DEF Started, Signal, EnterLoop, Save, LoopBack
<1>2. Queued' = Queued /\ (NoDuplicates' <=> NoDuplicates)
  BY <1>1 DEF Queued, NoDuplicates
<1>3. CASE Save
  <2>1. current \in Requests
    BY <1>3 DEF Save, HeadlessInv, HandInv, TypeOK
  <2>2. TypeOK'
    BY <1>1, <1>3, <2>1 DEF Save, HeadlessInv, TypeOK, TransportTypeOK, Locations
  <2>3. HandInv' /\ CountsInv'
    BY <1>1, <1>2, <1>3, QueuedType DEF Save, HeadlessInv, HandInv, CountsInv, RecordedBeforeNext
  <2>4. QED
    BY <1>1, <1>2, <2>2, <2>3, PromiseKept
<1>4. CASE ~Save
  <2>1. /\ UNCHANGED <<current, saved>> /\ shutdownRequested' \in BOOLEAN
        /\ \/ pc' = pc
           \/ pc = "starting" /\ pc' = "checking"
           \/ pc = "checking" /\ pc' = "polling"
           \/ pc = "polling" /\ pc' = "checking"
    BY <1>4 DEF Started, Signal, EnterLoop, LoopBack, HeadlessInv, TypeOK, TransportTypeOK
  <2>2. TypeOK'
    BY <1>1, <2>1 DEF HeadlessInv, TypeOK, TransportTypeOK, Locations
  <2>3. HandInv' /\ CountsInv'
    BY <1>1, <1>2, <2>1 DEF HeadlessInv, HandInv, CountsInv, RecordedBeforeNext
  <2>4. QED
    BY <1>1, <1>2, <2>2, <2>3, PromiseKept
<1>5. QED
  BY <1>3, <1>4

LEMMA PromisedStep ==
  ASSUME HeadlessInv, [Next]_vars
  PROVE  Promised
<1>1. CASE LeaveLoop \/ (Started /\ pc' = "stopping")
  BY <1>1, PromiseStop DEF LeaveLoop, Started
<1>2. CASE Started
  BY <1>1, <1>2, PromiseQuiet DEF Started
<1>3. QED
  BY <1>1, <1>2, PromiseQuiet, PromiseTake, PromiseEvaluated, PromiseLost, PromiseAccept,
     PromiseServer DEF Next, MainRuns, Terminated

LEMMA InitHolds == Init => HeadlessInv /\ Promise!Init
<1> SUFFICES ASSUME Init PROVE HeadlessInv /\ Promise!Init
  OBVIOUS
<1> USE DEF Init, TransportInit
<1>1. Queued = {} /\ NoDuplicates /\ queue \in Seq(Requests)
  BY DEF Queued, NoDuplicates
<1>2. TypeOK
  BY <1>1 DEF TypeOK, TransportTypeOK, Locations, ConnStates, SlotStates
<1>3. HandInv /\ CountsInv /\ AnswersInv
  BY <1>1 DEF HandInv, CountsInv, AnswersInv, RecordedBeforeNext
<1>4. Outcome(NoAnswer) = "none"
  BY DEF Outcome, NoAnswer
<1>5. Promise!Init
  BY <1>4 DEF Promise!Init
<1>6. QED
  BY <1>2, <1>3, <1>5 DEF HeadlessInv

-----------------------------------------------------------------------------
(* The theorems.                                                           *)

\* Although the reply leaves before the history entry is written, no code is run while that of
\* an earlier request is unrecorded.
THEOREM RecordedInOrder == Spec => []RecordedBeforeNext
<1>1. HeadlessInv /\ [Next]_vars => HeadlessInv'
  BY PromisedStep DEF Promised
<1>2. HeadlessInv => RecordedBeforeNext
  BY DEF HeadlessInv, CountsInv
<1>3. QED
  BY <1>1, <1>2, InitHolds, PTL DEF Spec

\* The headless session implements the promise to its clients too: at most one run, success only
\* after it, none after a refusal, and a shutdown that overtakes a request says that it did not
\* run.
THEOREM HeadlessKeepsPromise == Spec => KeepsPromise
<1>1. HeadlessInv /\ [Next]_vars => HeadlessInv'
  BY PromisedStep DEF Promised
<1>2. HeadlessInv /\ [Next]_vars => [Promise!Next]_Promise!vars
  BY PromisedStep DEF Promised
<1>3. QED
  BY <1>1, <1>2, InitHolds, PTL DEF Spec, KeepsPromise, Promise!Spec
=============================================================================
