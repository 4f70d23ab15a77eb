----------------------------- MODULE HistoryTools -----------------------------
(***************************************************************************)
(* What works on the histories besides the console's own record: the       *)
(* import and export commands (HistoryImport), the reader of radian's      *)
(* files, the history browser and a client's history query; and, standing  *)
(* alone as well, arf ipc (IpcClient) and the evaluation policy.  They run *)
(* in processes or at times of their own and share no state, so a          *)
(* behaviour is one of one of them, the others being at rest.              *)
(***************************************************************************)
EXTENDS HistoryImport, RadianHistory, HistoryBrowser, HistorySearch, IpcClient, EvalPolicy

VARIABLE part \* the part that runs

toolVars == <<part, importVars, radianVars, storeVars, browserVars, searchVars,
              clientVars, policyVars>>

ImportAtRest ==
  /\ ImportInit
  /\ source = CHOOSE s \in Sources : TRUE
  /\ history = CHOOSE db \in Databases : TRUE
  /\ files = Targets
NoStore == rows = {} /\ lastRow = 0 /\ deletes = 0
BrowserAtRest ==
  /\ bMode = "gone" /\ bEntries = <<>> /\ bFiltered = <<>> /\ bQuery = {}
  /\ bCursor = 0 /\ bScroll = 0 /\ bCount = 0 /\ bHeight = MinRows /\ bChosen = {}
SearchAtRest ==
  /\ qRuntime = "unavailable" /\ qAsked = Nothing /\ qPage = NoPage
  /\ qMatched = <<>> /\ qAnswer = Unanswered /\ qStayed = {}
ClientAtRest ==
  /\ kCommand = [verb |-> "list", pid |-> AnyPid, code |-> "none", limit |-> <<>>]
  /\ kRequest = [style |-> "http", form |-> "request", size |-> 1]
  /\ kAlive = {} /\ ConnectionUnused

\* All parts but the one that runs.
AtRest(busy) ==
  /\ busy = "import" \/ ImportAtRest
  /\ busy = "radian" \/ RadianInit
  /\ busy \in {"browser", "search"} \/ NoStore
  /\ busy = "browser" \/ BrowserAtRest
  /\ busy = "search" \/ SearchAtRest
  /\ busy = "client" \/ ClientAtRest
  /\ busy = "policy" \/ PolicyInit

Init ==
  /\ part \in {"import", "radian", "browser", "search", "client", "policy"} /\ AtRest(part)
  /\ CASE part = "import" -> ImportInit
       [] part = "radian" -> RadianInit
       [] part = "browser" -> SharedInit /\ BrowserInit
       [] part = "search" -> SharedInit /\ SearchInit
       [] part = "client" -> ClientInit
       [] part = "policy" -> PolicyInit

RunImport ==
  /\ part = "import" /\ ImportNext
  /\ UNCHANGED <<part, radianVars, storeVars, browserVars, searchVars, clientVars, policyVars>>
RunRadian ==
  /\ part = "radian" /\ RadianNext
  /\ UNCHANGED <<part, importVars, storeVars, browserVars, searchVars, clientVars, policyVars>>
RunBrowser ==
  /\ part = "browser" /\ BrowserNext
  /\ UNCHANGED <<part, importVars, radianVars, searchVars, clientVars, policyVars>>
RunSearch ==
  /\ part = "search" /\ SearchNext
  /\ UNCHANGED <<part, importVars, radianVars, browserVars, clientVars, policyVars>>
RunClient ==
  /\ part = "client" /\ ClientNext
  /\ UNCHANGED <<part, importVars, radianVars, storeVars, browserVars, searchVars, policyVars>>
RunPolicy ==
  /\ part = "policy" /\ PolicyNext
  /\ UNCHANGED <<part, importVars, radianVars, storeVars, browserVars, searchVars, clientVars>>

Next == RunImport \/ RunRadian \/ RunBrowser \/ RunSearch \/ RunClient \/ RunPolicy

Spec == Init /\ [][Next]_toolVars
=============================================================================
