------------------------------ MODULE ReplLoop ------------------------------
(***************************************************************************)
(* The prompt: what a line does that is entered there, with R or without   *)
(* (repl/read_console.rs, Repl::run_standalone), the meta commands and     *)
(* their completion, what the prompt tells of the last command, and R's    *)
(* option width, which follows the terminal. What becomes of the line in   *)
(* the history is CommandLifecycle's, of a client's request IpcRepl's.     *)
(***************************************************************************)
EXTENDS Naturals, Sequences, FiniteSets

CONSTANTS
  Directories, HomeDirectory, \* the directories there are
  MaxStack,          \* bound: directories pushed
  TerminalWidths,    \* the columns a terminal may have
  Unreadable,        \* its size cannot be read
  Starts,            \* what is found at the start: R, rig, a formatter, and the mode wanted
  OtherLines         \* meta commands a user may type besides those Tab offers

ASSUME ReplLoopAssumption ==
  /\ HomeDirectory \in Directories /\ MaxStack \in Nat
  /\ TerminalWidths \subseteq Nat \ {0} /\ Unreadable \notin Nat
  /\ Starts \subseteq [r : BOOLEAN, rig : BOOLEAN, formatter : BOOLEAN,
                       mode : {"off", "on", "format"}]

VARIABLES
  start,       \* one of Starts: r_initialized, rig_enabled(), is_formatter_available(..)
  stage,       \* "start", "R", "prompt", or "gone"
  asked,       \* PromptKind of the prompt
  shellMode,   \* prompt_config.is_shell_enabled()
  reprexMode, backend, \* ReprexRuntime: mode, and whether it has a formatter
  flagged,     \* the mode as the output callback knows it (set_reprex_mode)
  directory, dirStack, \* the working directory, and ReplState.dir_stack
  failedLast,  \* last_command_failed
  clock,       \* last_command_start is set
  duration,    \* last_command_duration is set
  awaited,     \* pending_history_context is a command
  raised,      \* command_had_error()
  overheard,   \* history: code that no command called has failed since a command prompt
  account,     \* history: what has been entered last, and how it ended
  columns,     \* the width of the terminal
  known,       \* LAST_TERMINAL_WIDTH
  width        \* R's option width

promptVars == <<failedLast, clock, duration, awaited, raised, overheard, account>>
widthVars  == <<columns, known, width>>
modeVars2  == <<shellMode, reprexMode, backend, flagged>>
placeVars  == <<directory, dirStack>>
loopVars == <<start, stage, asked, promptVars, widthVars, modeVars2, placeVars>>

MIN_R_WIDTH == 20
MAX_R_WIDTH == 10000
ReprexModes == {"off", "on", "format"}

-----------------------------------------------------------------------------
(* The meta commands Tab offers.                                           *)

META_COMMANDS ==
  {"help", "h", "info", "session", "shell", "r", "system", "reprex", "commands", "cmds",
   "restart", "restart!", "switch", "switch!", "changelog", "history", "cd", "pushd", "popd",
   "ipc", "quit", "exit"}
takes_argument == {"system", "reprex", "switch", "switch!", "history", "cd", "pushd", "ipc"}

shell_mode_exclusions == {"shell", "system", "restart", "reprex", "switch", "h", "help"}
Excluded ==
  IF shellMode THEN shell_mode_exclusions
  ELSE {"r"} \cup (IF start.rig THEN {} ELSE {"switch"})

SecondWords(command) ==
  CASE command = "history" -> {"browse", "clear", "schema"}
    [] command = "ipc" -> {"start", "stop", "status", "send-policy"}
    [] command = "reprex" -> ReprexModes
    [] command \in {"switch", "switch!"} -> {"version"}
    [] command \in {"cd", "pushd"} -> {"directory"}
    [] OTHER -> {}

ThirdWords(command, word) ==
  CASE command = "history" /\ word = "clear" -> {"r", "shell", "all"}
    [] command = "history" /\ word = "browse" -> {"r", "shell"}
    [] command = "ipc" /\ word = "send-policy" -> {"prompt", "allow"}
    [] OTHER -> {}

\* Mutant: a sub-command is offered as a command of its own.
complete_commands_Renamed(words) ==
  CASE Len(words) = 0 -> (META_COMMANDS \ Excluded) \cup {"browse"}
    [] Len(words) = 1 -> SecondWords(words[1])
    [] Len(words) = 2 -> ThirdWords(words[1], words[2])
    [] OTHER -> {}

\* What is offered behind these words.
complete_commands(words) ==
  CASE Len(words) = 0 -> META_COMMANDS \ Excluded
    [] Len(words) = 1 -> SecondWords(words[1])
    [] Len(words) = 2 -> ThirdWords(words[1], words[2])
    [] OTHER -> {}

\* A suggestion is followed by a blank where more has to come.
append_whitespace(words) ==
  \/ Len(words) = 1 /\ words[1] \in takes_argument
  \/ Len(words) = 2 /\ words[2] = "send-policy"

\* The lines that Tab leads to, one suggestion after the other. Without R there is no
\* completion.
OfferedLines ==
  LET longer(lines) == UNION {{Append(l, w) : w \in complete_commands(l)} : l \in lines}
      one == longer({<<>>})
      two == longer(one)
  IN IF ~start.r THEN {}
     ELSE {l \in one \cup two \cup longer(two) : ~append_whitespace(l)}

-----------------------------------------------------------------------------
(* The meta commands the prompt knows.                                     *)

Word(words, i) == IF i <= Len(words) THEN words[i] ELSE ""

\* process_history_browse and process_history_clear
HistoryTarget(words, targets) ==
  IF Word(words, 3) \in targets \cup {"", "r", "R", "shell"} THEN "done" ELSE "unknown"

\* What a meta command comes to: it has an effect of its own, named after it, or it says
\* how it is used, that it cannot be had, or that it is not known.
process_meta_command(words) ==
  LET command == Word(words, 1)
      second  == Word(words, 2)
  IN CASE command = "reprex" ->
            IF Len(words) = 2 /\ second \in ReprexModes THEN "reprex" ELSE "usage"
       [] command = "shell" -> "shell"
       [] command \in {"r", "R"} -> "r"
       [] command = "system" -> IF Len(words) > 1 THEN "done" ELSE "usage"
       [] command \in {"restart", "restart!"} -> "restart"
       [] command \in {"switch", "switch!"} ->
            IF ~start.rig THEN "refused" ELSE IF Len(words) > 1 THEN "restart" ELSE "usage"
       [] command = "history" ->
            (CASE second = "browse" -> HistoryTarget(words, {})
               [] second = "clear" -> HistoryTarget(words, {"all"})
               [] second = "schema" -> "done"
               [] second = "" -> "usage"
               [] OTHER -> "unknown")
       [] command \in {"help", "h", "info", "session", "changelog"} -> "done"
       [] command = "cd" -> "cd"
       [] command = "pushd" -> IF Len(words) > 1 THEN "pushd" ELSE "usage"
       [] command = "popd" -> "popd"
       [] command = "ipc" ->
            (CASE second \in {"", "start", "stop", "status"} -> "done"
               [] second = "send-policy" ->
                    IF Word(words, 3) \in {"allow", "prompt"} THEN "done" ELSE "usage"
               [] OTHER -> "unknown")
       [] command \in {"commands", "cmds", ""} -> "done"
       [] command \in {"quit", "exit"} -> "quit"
       [] OTHER -> "unknown"
-----------------------------------------------------------------------------
LoopTypeOK ==
  /\ start \in Starts
  /\ stage \in {"start", "R", "prompt", "gone"}
  /\ asked \in {"command", "continuation", "other"}
  /\ reprexMode \in ReprexModes
  /\ {shellMode, backend, flagged, failedLast, clock, duration, awaited, raised, overheard}
       \subseteq BOOLEAN
  /\ directory \in Directories /\ dirStack \in Seq(Directories)
  /\ account \in [what : {"nothing", "empty", "blank", "code", "rejected"},
                  failed : BOOLEAN, overheard : BOOLEAN, meta : BOOLEAN]
  /\ columns \in TerminalWidths \cup {Unreadable}
  /\ known \in 0..MAX_R_WIDTH /\ width \in 1..MAX_R_WIDTH

\* A mode that needs a formatter is replaced when none is found (main.rs).
ModeAtStart(s) == IF s.mode = "format" /\ ~s.formatter THEN "on" ELSE s.mode

LoopInit ==
  /\ start \in Starts /\ stage = "start" /\ asked = "command"
  /\ shellMode = FALSE
  /\ reprexMode = ModeAtStart(start) /\ flagged = (reprexMode # "off")
  /\ backend = start.formatter
  /\ directory = HomeDirectory /\ dirStack = <<>>
  /\ failedLast = FALSE /\ clock = FALSE /\ duration = FALSE
  /\ awaited = FALSE /\ raised = FALSE /\ overheard = FALSE
  /\ account = [what |-> "nothing", failed |-> FALSE, overheard |-> FALSE, meta |-> FALSE]
  /\ columns \in TerminalWidths \cup {Unreadable}
  /\ known = 0 /\ width = 80
-----------------------------------------------------------------------------
(* R's width.                                                              *)

Clamped(w) ==
  IF w < MIN_R_WIDTH THEN MIN_R_WIDTH ELSE IF w > MAX_R_WIDTH THEN MAX_R_WIDTH ELSE w

\* The width to set: the terminal's, or 80 as long as none was ever known.
Wanted == Clamped(IF columns = Unreadable THEN 80 ELSE columns)

\* R is told when the width differs from the one it was told last; told is whether it
\* could be.
sync_r_width(told) ==
  IF known = Wanted \/ (columns = Unreadable /\ known # 0) \/ ~told
  THEN UNCHANGED <<known, width>>
  ELSE known' = Wanted /\ width' = Wanted

\* The loop starts; without R it is run_standalone.
StartLoop ==
  /\ stage = "start"
  /\ IF start.r
     THEN stage' = "R" /\ \E told \in BOOLEAN : sync_r_width(told)
     ELSE stage' = "prompt" /\ UNCHANGED <<known, width>>
  /\ UNCHANGED <<start, asked, promptVars, columns, modeVars2, placeVars>>

\* The idle callback of the R editor; the shell editor's does not look.
IdlePoll(told) ==
  /\ start.r /\ stage = "prompt" /\ ~shellMode /\ sync_r_width(told)
  /\ UNCHANGED <<start, stage, asked, promptVars, columns, modeVars2, placeVars>>

Resize ==
  /\ stage # "gone"
  /\ columns' \in (TerminalWidths \cup {Unreadable}) \ {columns}
  /\ UNCHANGED <<start, stage, asked, promptVars, known, width, modeVars2,
                 placeVars>>
-----------------------------------------------------------------------------
(* R between two prompts.                                                  *)

\* The running code sets the option, or changes the directory.
CodeSets ==
  /\ stage = "R" /\ awaited
  /\ \/ /\ width' \in {Clamped(w) : w \in TerminalWidths}
        /\ UNCHANGED directory
     \/ directory' \in Directories /\ UNCHANGED width
  /\ UNCHANGED <<start, stage, asked, promptVars, columns, known, modeVars2, dirStack>>

\* The command ends in an error, which the handler in R's option error notes.
CodeFails ==
  /\ stage = "R" /\ awaited
  /\ raised' = TRUE /\ account' = [account EXCEPT !.failed = TRUE]
  /\ UNCHANGED <<start, stage, asked, failedLast, clock, duration, awaited, overheard, widthVars,
                 modeVars2, placeVars>>

\* So does code that no command called: R's event handlers, at the prompt too, and what
\* prints the value of a client's silent evaluate.  The handler cannot tell it apart.
OtherCodeFails ==
  /\ start.r /\ stage \in {"R", "prompt"}
  /\ raised' = TRUE /\ overheard' = TRUE
  /\ UNCHANGED <<start, stage, asked, failedLast, clock, duration, awaited, account, widthVars,
                 modeVars2, placeVars>>

\* Mutant: the start of the last command is kept.
set_command_duration_Kept == duration' = clock /\ UNCHANGED clock

\* The time from the start to now; the start is used up.
set_command_duration == duration' = clock /\ clock' = FALSE

\* R asks for more: a command prompt ends what was running and tells of it.
Prompts(kind) ==
  /\ stage = "R" /\ (kind = "command" \/ awaited)
  /\ stage' = "prompt" /\ asked' = kind
  /\ IF kind = "command"
     THEN /\ failedLast' = (awaited /\ raised)
          /\ set_command_duration
          /\ awaited' = FALSE /\ raised' = FALSE /\ overheard' = FALSE
          /\ account' = [account EXCEPT !.overheard = overheard, !.meta = FALSE]
     ELSE UNCHANGED promptVars
  /\ UNCHANGED <<start, widthVars, modeVars2, placeVars>>
-----------------------------------------------------------------------------
(* A line that is no meta command.                                         *)

Prompting == stage = "prompt"
InREditor == Prompting /\ start.r /\ ~shellMode

\* An answer to R's own question goes to R as it is.
AnswerR ==
  /\ InREditor /\ asked = "other" /\ stage' = "R"
  /\ UNCHANGED <<start, asked, promptVars, widthVars, modeVars2, placeVars>>

\* Code is given to R; whatever is not empty starts the clock.
GiveCode(what) ==
  /\ stage' = "R"
  /\ clock' = (clock \/ what # "empty")
  /\ awaited' = (awaited \/ (asked = "command" /\ what = "code"))
  /\ account' = IF asked = "command"
                THEN [account EXCEPT !.what = what, !.failed = FALSE] ELSE account
  /\ UNCHANGED <<start, asked, failedLast, duration, raised, overheard, widthVars, modeVars2,
                 placeVars>>

\* Code, or nothing but blanks or pasted output, passes the formatter, if there is one.
EnterLine(what) ==
  /\ InREditor /\ asked # "other"
  /\ reprexMode = "format" => backend
  /\ GiveCode(what)

\* The formatter is missing, or turns the code down: it is not run.
LineRejected ==
  /\ InREditor /\ asked # "other" /\ reprexMode = "format"
  /\ IF asked = "command"
     THEN /\ failedLast' = TRUE /\ duration' = FALSE
          /\ account' = [what |-> "rejected", failed |-> TRUE, overheard |-> FALSE,
                        meta |-> FALSE]
     ELSE UNCHANGED <<failedLast, duration, account>>
  /\ UNCHANGED <<start, stage, asked, clock, awaited, raised, overheard, widthVars, modeVars2,
                 placeVars>>

\* A client's code, at a command prompt.
ClientLine ==
  /\ InREditor /\ asked = "command" /\ GiveCode("code")

\* Ctrl+C gives R an empty line; in shell mode it leads back to R mode, and so do Ctrl+D
\* and the words exit and logout. All other lines there are for the shell.
CtrlC ==
  /\ InREditor /\ stage' = "R"
  /\ account' = IF asked = "command" THEN [account EXCEPT !.what = "empty"] ELSE account
  /\ UNCHANGED <<start, asked, failedLast, clock, duration, awaited, raised, overheard, widthVars,
                 modeVars2, placeVars>>

LeaveShellMode ==
  /\ Prompting /\ start.r /\ shellMode /\ shellMode' = FALSE
  /\ UNCHANGED <<start, stage, asked, promptVars, widthVars, reprexMode, backend, flagged,
                 placeVars>>

\* Ctrl+D and errors of the editor; without R also in what calls itself shell mode.
EndOfInput ==
  /\ Prompting /\ ~(start.r /\ shellMode) /\ stage' = "gone"
  /\ UNCHANGED <<start, asked, promptVars, widthVars, modeVars2, placeVars>>
-----------------------------------------------------------------------------
(* A meta command.                                                         *)

\* Whatever it does, the time of the last command is no longer shown.
AfterMeta ==
  /\ duration' = FALSE /\ account' = [account EXCEPT !.meta = TRUE]
  /\ UNCHANGED <<start, asked, failedLast, clock, awaited, raised, overheard, widthVars>>

\* A known mode; format only with a formatter, unless it is the mode already.
set_mode(mode) == reprexMode' = mode /\ flagged' = (mode # "off")
MetaReprex(mode) ==
  /\ IF mode # "format" \/ reprexMode = "format"
     THEN set_mode(mode) /\ UNCHANGED backend
     ELSE IF start.formatter THEN set_mode(mode) /\ backend' = TRUE
     ELSE UNCHANGED <<reprexMode, flagged, backend>>
  /\ UNCHANGED <<stage, shellMode, placeVars>>

set_shell(enabled) ==
  /\ shellMode' = enabled
  /\ UNCHANGED <<stage, reprexMode, backend, flagged, placeVars>>

\* A change of directory succeeds, is refused, or succeeds but cannot tell where it has
\* led to.
ChdirResults == {"done", "refused", "lost"}
Chdir(target, result) == directory' = IF result = "refused" THEN directory ELSE target

meta_cd == \E d \in Directories, r \in ChdirResults : Chdir(d, r) /\ UNCHANGED dirStack
meta_pushd ==
  /\ Len(dirStack) < MaxStack
  /\ \E d \in Directories, r \in ChdirResults :
       /\ Chdir(d, r)
       /\ dirStack' = IF r = "done" THEN Append(dirStack, directory) ELSE dirStack
meta_popd ==
  IF dirStack = <<>> THEN UNCHANGED placeVars
  ELSE \E r \in ChdirResults :
         /\ Chdir(dirStack[Len(dirStack)], r)
         /\ dirStack' = IF r = "refused" THEN dirStack
                        ELSE SubSeq(dirStack, 1, Len(dirStack) - 1)

\* handle_meta_command_result and process_meta_command's effects
MetaLine(words) ==
  LET result == process_meta_command(words)
      stays  == stage' = stage /\ UNCHANGED modeVars2
  IN /\ Prompting /\ (asked # "other" \/ shellMode)
     /\ AfterMeta
     /\ \/ result = "reprex" /\ MetaReprex(words[2])
        \/ result = "shell" /\ set_shell(TRUE)
        \/ result = "r" /\ set_shell(FALSE)
        \/ result = "cd" /\ meta_cd /\ stays
        \/ result = "pushd" /\ meta_pushd /\ stays
        \/ result = "popd" /\ meta_popd /\ stays
        \/ result = "quit" /\ stage' = "gone" /\ UNCHANGED <<modeVars2, placeVars>>
        \/ /\ result = "restart" /\ stage' \in {"gone", stage}
           /\ UNCHANGED <<modeVars2, placeVars>>
        \/ result \in {"done", "usage", "unknown", "refused"} /\ stays /\ UNCHANGED placeVars

MetaCommand == \E words \in OfferedLines \cup OtherLines : MetaLine(words)
-----------------------------------------------------------------------------
LoopNext ==
  \/ StartLoop \/ Resize \/ (\E told \in BOOLEAN : IdlePoll(told))
  \/ CodeSets \/ CodeFails \/ OtherCodeFails \/ \E k \in {"command", "continuation", "other"} : Prompts(k)
  \/ AnswerR \/ (\E w \in {"code", "blank", "empty"} : EnterLine(w)) \/ LineRejected
  \/ ClientLine \/ CtrlC \/ LeaveShellMode \/ EndOfInput \/ MetaCommand

LoopSpec == LoopInit /\ [][LoopNext]_loopVars
-----------------------------------------------------------------------------
(* What the prompt shows: nothing of R in shell mode.                      *)
build_main_prompt ==
  [status |-> ~shellMode /\ failedLast, duration |-> ~shellMode /\ duration,
   indicator |-> IF shellMode THEN "off" ELSE reprexMode]

\* The prompt's account of the last command can be believed, through nested prompts,
\* rejected code, empty lines, meta commands and excursions to the shell: whenever what
\* was to be run last has failed it says so, and it says so of a command that succeeded
\* only if code that no command called has failed since the prompt it was typed at. It
\* shows a time exactly if something other than an empty line has just been run; and the
\* mode it names is the one in which R's output is written, which a formatter can serve.
PromptTells ==
  Prompting /\ start.r /\ asked = "command" /\ ~shellMode =>
    LET shown == build_main_prompt
    IN /\ shown.status <=> \/ account.what = "rejected"
                           \/ account.what = "code" /\ (account.failed \/ account.overheard)
       /\ shown.duration <=> account.what \in {"code", "blank"} /\ ~account.meta
       /\ flagged <=> shown.indicator # "off"
       /\ shown.indicator = "format" => backend

\* What Tab completes, the prompt accepts: the table of the completion, written down
\* apart from the dispatch and cut differently in each mode, leads to no line that is
\* unknown or incomplete.
OfferedIsAccepted ==
  Prompting => \A l \in OfferedLines : process_meta_command(l) \notin {"unknown", "usage"}
=============================================================================
