------------------------------- MODULE Console -------------------------------
(***************************************************************************)
(* Parts of the console that share no state with each other while they     *)
(* run: what happens on the threads around R (ConsoleIO), the line editor  *)
(* (LineEditor), what Tab offers (Completer), the start and the restart of *)
(* the program (StartUp), the record of its commands (CommandLifecycle),   *)
(* the prompt (ReplLoop), the pager with the help browser (Pager) and the  *)
(* pages they show (Pages).                                                *)
(* A behaviour is one of one of them, the others being at rest.            *)
(***************************************************************************)
EXTENDS ConsoleIO, LineEditor, StartUp, CommandLifecycle, Completer, ReplLoop,
  Pager, Pages

VARIABLE part \* the part that runs

vars == <<part, ioVars, editorVars, startVars, lifecycleVars, completerVars, loopVars,
          pagerVars, pagesVars>>

\* A part at rest: nothing is called and nothing is loaded, and what it would look at has
\* no value.
NoValue == NotGiven
IOAtRest ==
  /\ stack = <<>> /\ awaiting = 0 /\ flag = NoFlag /\ suspended = FALSE /\ handler = NoFlag
  /\ pieces = FALSE /\ spinner = NoSpinner /\ sink = NoValue
  /\ echo = [source |-> 0, mixed |-> FALSE]
  /\ cmd = 0 /\ presses = 0 /\ writes = 0 /\ unwound = {}
StartAtRest ==
  /\ world = NoValue /\ cli = NoValue /\ env = NoValue /\ snapshot = NoValue
  /\ savedEcho = NoMode /\ rSource = NoValue
  /\ original = NoValue /\ inherited = NoValue /\ switched = NoValue
  /\ changes = 0 /\ reexecs = 0 /\ echoes = TRUE /\ mode = "console" /\ image = "ended"
LifecycleAtRest == LifecycleInit /\ forget = CHOOSE c \in ForgetConfigs : TRUE
CompleterAtRest ==
  /\ settings = NoValue /\ session = NoValue /\ cache = NoValue /\ filledFor = NoValue
  /\ exportsOf = NoValue /\ fuzzyCache = NoValue /\ packageCache = NoValue
  /\ programs = NoValue /\ unchanged = 0 /\ offered = Nothing
LoopAtRest ==
  /\ LoopInit /\ start = (CHOOSE s \in Starts : TRUE)
  /\ columns = CHOOSE w \in TerminalWidths : TRUE
PagerAtRest ==
  PagerInit /\ pScreen = "prompt" /\ pSize = CHOOSE s \in TerminalSizes : TRUE
PagesAtRest == PagesEmpty /\ mInput = <<>> \* neither a document nor a line or table

\* All parts but the one that runs.
AtRest(busy) ==
  /\ busy = "io" \/ IOAtRest
  /\ busy = "editor" \/ EditorInit
  /\ busy = "start" \/ StartAtRest
  /\ busy = "lifecycle" \/ LifecycleAtRest
  /\ busy = "completer" \/ CompleterAtRest
  /\ busy = "loop" \/ LoopAtRest
  /\ busy = "pager" \/ PagerAtRest
  /\ busy = "pages" \/ PagesAtRest

Init ==
  /\ part \in {"io", "editor", "start", "lifecycle", "completer", "loop", "pager",
              "pages"}
  /\ AtRest(part)
  /\ CASE part = "io" -> IOInit
       [] part = "editor" -> EditorInit
       [] part = "start" -> StartInit
       [] part = "lifecycle" -> LifecycleInit
       [] part = "completer" -> CompleterInit
       [] part = "loop" -> LoopInit
       [] part = "pager" -> PagerInit
       [] part = "pages" -> PagesInit

RunIO ==
  /\ part = "io" /\ IONext
  /\ UNCHANGED <<part, editorVars, startVars, lifecycleVars, completerVars, loopVars,
                 pagerVars, pagesVars>>
RunEditor ==
  /\ part = "editor" /\ EditorNext
  /\ UNCHANGED <<part, ioVars, startVars, lifecycleVars, completerVars, loopVars,
                 pagerVars, pagesVars>>
RunStart ==
  /\ part = "start" /\ StartNext
  /\ UNCHANGED <<part, ioVars, editorVars, lifecycleVars, completerVars, loopVars,
                 pagerVars, pagesVars>>
RunLifecycle ==
  /\ part = "lifecycle" /\ LifecycleNext
  /\ UNCHANGED <<part, ioVars, editorVars, startVars, completerVars, loopVars,
                 pagerVars, pagesVars>>
RunCompleter ==
  /\ part = "completer" /\ CompleterNext
  /\ UNCHANGED <<part, ioVars, editorVars, startVars, lifecycleVars, loopVars,
                 pagerVars, pagesVars>>
RunLoop ==
  /\ part = "loop" /\ LoopNext
  /\ UNCHANGED <<part, ioVars, editorVars, startVars, lifecycleVars, completerVars,
                 pagerVars, pagesVars>>
RunPager ==
  /\ part = "pager" /\ PagerNext
  /\ UNCHANGED <<part, ioVars, editorVars, startVars, lifecycleVars, completerVars,
                 loopVars, pagesVars>>
RunPages ==
  /\ part = "pages" /\ PagesNext
  /\ UNCHANGED <<part, ioVars, editorVars, startVars, lifecycleVars, completerVars,
                 loopVars, pagerVars>>

Next ==
  \/ RunIO \/ RunEditor \/ RunStart \/ RunLifecycle \/ RunCompleter \/ RunLoop \/ RunPager
  \/ RunPages

Spec == Init /\ [][Next]_vars
=============================================================================
