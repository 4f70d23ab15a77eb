----------------------------- MODULE IpcPromise -----------------------------
(***************************************************************************)
(* What arf promises the client of an IPC request, whichever main thread   *)
(* serves it: the client's code runs at most once; a successful answer     *)
(* means that it ran, an error that refuses the request that it never      *)
(* will, and only an answer that leaves the outcome open (a timeout, a     *)
(* lost connection, a server that stopped) allows either.                  *)
(***************************************************************************)
EXTENDS Naturals

CONSTANT Requests

VARIABLES
  submitted, \* the requests clients have sent
  outcome,   \* per request: what its answer tells the client
  ran        \* per request: how often its code was handed to R

vars == <<submitted, outcome, ran>>

Outcomes == {"none", "success", "refused", "info", "open"}

Init ==
  /\ submitted = {}
  /\ outcome = [r \in Requests |-> "none"]
  /\ ran = [r \in Requests |-> 0]

\* A request may be answered at once, but not with success.
Submit(r) ==
  /\ r \notin submitted
  /\ submitted' = submitted \cup {r}
  /\ \E o \in {"none", "refused", "info"} : outcome' = [outcome EXCEPT ![r] = o]
  /\ UNCHANGED ran

Run(r) ==
  /\ r \in submitted
  /\ ran[r] = 0
  /\ outcome[r] \in {"none", "open"}
  /\ ran' = [ran EXCEPT ![r] = 1]
  /\ UNCHANGED <<submitted, outcome>>

Answer(r, o) ==
  /\ r \in submitted
  /\ outcome[r] = "none"
  /\ o = "success" => ran[r] = 1
  /\ o \in {"refused", "info"} => ran[r] = 0
  /\ outcome' = [outcome EXCEPT ![r] = o]
  /\ UNCHANGED <<submitted, ran>>

\* The server goes away: every request it still serves is left open.
Lose(rs) ==
  /\ \A r \in rs : r \in submitted /\ outcome[r] = "none"
  /\ outcome' = [r \in Requests |-> IF r \in rs THEN "open" ELSE outcome[r]]
  /\ UNCHANGED <<submitted, ran>>

Next ==
  \/ \E r \in Requests : Submit(r) \/ Run(r) \/ \E o \in Outcomes \ {"none"} : Answer(r, o)
  \/ \E rs \in SUBSET Requests : Lose(rs)

Spec == Init /\ [][Next]_vars
=============================================================================
