---------------------------- MODULE ConsoleProofs -----------------------------
(***************************************************************************)
(* Proofs about five parts of Console.                                     *)
(* ReplLoop, for any directories, terminals and starts, and whatever meta  *)
(* commands are typed: what the prompt tells of the last command and of    *)
(* the mode is true, and what Tab completes is accepted.                   *)
(* StartUp, the chain of images that restarts and :switch make: a switch   *)
(* starts clean, no image is replaced twice by its start, and the R that   *)
(* starts is the one the documented precedence names.                      *)
(* Completer, for any session, line and age of the caches: what Tab offers *)
(* comes up with the session.                                              *)
(* Pager, for any topics, texts and sizes of the terminal: both screens    *)
(* show what they claim to.                                                *)
(* LineEditor, for any keys, however many arrive together: the shadow that *)
(* arf keeps of the line it cannot see is that line, while it says so.     *)
(***************************************************************************)
EXTENDS ReplLoop, StartUp, Completer, Pager, LineEditor, Inductions, FunctionTheorems,
  SequenceTheorems

USE ReplLoopAssumption

-----------------------------------------------------------------------------
(* What the state can be, as the types say it one by one.                  *)

Flags ==
  /\ shellMode \in BOOLEAN /\ backend \in BOOLEAN /\ flagged \in BOOLEAN
  /\ failedLast \in BOOLEAN /\ clock \in BOOLEAN /\ duration \in BOOLEAN
  /\ awaited \in BOOLEAN /\ raised \in BOOLEAN /\ overheard \in BOOLEAN

Accounts ==
  [what : {"nothing", "empty", "blank", "code", "rejected"}, failed : BOOLEAN,
   overheard : BOOLEAN, meta : BOOLEAN]

Places == directory \in Directories /\ dirStack \in Seq(Directories)

Widths ==
  /\ columns \in TerminalWidths \cup {Unreadable}
  /\ known \in 0..MAX_R_WIDTH /\ width \in 1..MAX_R_WIDTH

Modes ==
  /\ start \in Starts
  /\ stage \in {"start", "R", "prompt", "gone"}
  /\ asked \in {"command", "continuation", "other"}
  /\ reprexMode \in ReprexModes

LEMMA TypeParts ==
  LoopTypeOK <=> Modes /\ Flags /\ Places /\ account \in Accounts /\ Widths
BY DEF LoopTypeOK, Modes, Flags, Places, Accounts, Widths

-----------------------------------------------------------------------------
(* Types.                                                                  *)

LEMMA ClampedWidth ==
  ASSUME NEW w \in Nat
  PROVE  Clamped(w) \in 20..MAX_R_WIDTH
BY DEF Clamped, MIN_R_WIDTH, MAX_R_WIDTH

LEMMA TypeInit == LoopInit => LoopTypeOK
<1> SUFFICES ASSUME LoopInit PROVE LoopTypeOK OBVIOUS
<1>1. Modes BY DEF LoopInit, Modes, ModeAtStart, ReprexModes
<1>2. Flags BY DEF LoopInit, Flags
<1>3. Places BY DEF LoopInit, Places
<1>4. account \in Accounts BY DEF LoopInit, Accounts
<1>5. Widths BY DEF LoopInit, Widths, MAX_R_WIDTH
<1> QED BY <1>1, <1>2, <1>3, <1>4, <1>5, TypeParts

LEMMA SyncType ==
  ASSUME Widths, NEW told, sync_r_width(told), UNCHANGED columns
  PROVE  Widths'
<1>1. Wanted \in 20..MAX_R_WIDTH
  <2>1. 80 \in Nat /\ (columns # Unreadable => columns \in Nat) BY DEF Widths
  <2> QED BY <2>1, ClampedWidth DEF Wanted
<1>2. \A w \in 20..MAX_R_WIDTH : w \in 1..MAX_R_WIDTH /\ w \in 0..MAX_R_WIDTH
  BY DEF MAX_R_WIDTH
<1> HIDE DEF Wanted
<1> QED BY <1>1, <1>2 DEF Widths, sync_r_width

\* The only command with an effect on the mode has a second word that is one.
LEMMA ReprexNamesAMode ==
  ASSUME NEW words, process_meta_command(words) = "reprex"
  PROVE  words[2] \in ReprexModes
<1>1. CASE Word(words, 1) = "reprex"
  <2>1. Len(words) = 2 /\ Word(words, 2) \in ReprexModes
    BY <1>1 DEF process_meta_command
  <2> QED BY <2>1 DEF Word
<1>2. CASE Word(words, 1) # "reprex"
  BY <1>2 DEF process_meta_command, HistoryTarget
<1> QED BY <1>1, <1>2

LEMMA PlacesStep ==
  ASSUME Places, meta_cd \/ meta_pushd \/ meta_popd
  PROVE  Places'
<1>1. CASE meta_cd BY <1>1 DEF meta_cd, Chdir, Places
<1>2. CASE meta_pushd
  <2>1. PICK d \in Directories, r \in ChdirResults :
          /\ Chdir(d, r)
          /\ dirStack' = IF r = "done" THEN Append(dirStack, directory) ELSE dirStack
    BY <1>2 DEF meta_pushd
  <2> QED BY <2>1 DEF Chdir, Places
<1>3. CASE meta_popd
  <2>1. CASE dirStack = <<>> BY <1>3, <2>1 DEF meta_popd, Places, placeVars
  <2>2. CASE dirStack # <<>>
    <3>1. PICK r \in ChdirResults :
            /\ Chdir(dirStack[Len(dirStack)], r)
            /\ dirStack' = IF r = "refused" THEN dirStack
                           ELSE SubSeq(dirStack, 1, Len(dirStack) - 1)
      BY <1>3, <2>2 DEF meta_popd
    <3>2. dirStack \in Seq(Directories) BY DEF Places
    <3>3. dirStack[Len(dirStack)] \in Directories BY <2>2, <3>2
    <3>4. SubSeq(dirStack, 1, Len(dirStack) - 1) \in Seq(Directories) BY <2>2, <3>2
    <3> QED BY <3>1, <3>2, <3>3, <3>4 DEF Chdir, Places
  <2> QED BY <2>1, <2>2
<1> QED BY <1>1, <1>2, <1>3

LEMMA TypeStep ==
  ASSUME LoopTypeOK, LoopNext
  PROVE  LoopTypeOK'
<1>1. Modes /\ Flags /\ Places /\ account \in Accounts /\ Widths BY TypeParts
<1> USE <1>1
<1> SUFFICES Modes' /\ Flags' /\ Places' /\ account' \in Accounts /\ Widths'
  BY TypeParts DEF LoopTypeOK, Modes, Flags, Places, Accounts, Widths
<1>2. CASE StartLoop
  <2>1. UNCHANGED <<promptVars, modeVars2, placeVars, start, asked, columns>>
        /\ stage' \in {"R", "prompt"}
    BY <1>2 DEF StartLoop
  <2>2. Widths'
    <3>1. CASE UNCHANGED <<known, width>> BY <2>1, <3>1 DEF Widths
    <3>2. CASE \E told \in BOOLEAN : sync_r_width(told) BY <2>1, <3>2, SyncType
    <3> QED BY <1>2, <3>1, <3>2 DEF StartLoop
  <2> QED BY <2>1, <2>2 DEF promptVars, modeVars2, placeVars, Modes, Flags, Places
<1>3. ASSUME NEW told \in BOOLEAN, IdlePoll(told)
      PROVE  Modes' /\ Flags' /\ Places' /\ account' \in Accounts /\ Widths'
  <2>1. Widths' BY <1>3, SyncType DEF IdlePoll
  <2> QED BY <1>3, <2>1 DEF IdlePoll, promptVars, modeVars2, placeVars, Modes, Flags, Places
<1>4. CASE Resize
  BY <1>4 DEF Resize, promptVars, modeVars2, placeVars, Modes, Flags, Places, Widths
<1>5. CASE CodeSets
  <2>1. \A w \in TerminalWidths : Clamped(w) \in 1..MAX_R_WIDTH
    <3>1. \A w \in TerminalWidths : Clamped(w) \in 20..MAX_R_WIDTH BY ClampedWidth
    <3>2. \A w \in 20..MAX_R_WIDTH : w \in 1..MAX_R_WIDTH BY DEF MAX_R_WIDTH
    <3> QED BY <3>1, <3>2
  <2>2. Widths' /\ Places' BY <1>5, <2>1 DEF CodeSets, Widths, Places
  <2> QED BY <1>5, <2>2 DEF CodeSets, promptVars, modeVars2, Modes, Flags
<1>6. CASE CodeFails \/ OtherCodeFails
  <2>1. account' \in Accounts BY <1>6 DEF CodeFails, OtherCodeFails, Accounts
  <2>2. Flags' BY <1>6 DEF CodeFails, OtherCodeFails, modeVars2, Flags
  <2> QED
    BY <1>6, <2>1, <2>2 DEF CodeFails, OtherCodeFails, widthVars, modeVars2, placeVars, Modes,
                            Places, Widths
<1>7. ASSUME NEW k \in {"command", "continuation", "other"}, Prompts(k)
      PROVE  Modes' /\ Flags' /\ Places' /\ account' \in Accounts /\ Widths'
  <2>1. Flags' /\ account' \in Accounts
    BY <1>7 DEF Prompts, set_command_duration, promptVars, modeVars2, Flags, Accounts
  <2> QED BY <1>7, <2>1 DEF Prompts, widthVars, modeVars2, placeVars, Modes, Places, Widths
<1>8. CASE AnswerR \/ EndOfInput
  BY <1>8 DEF AnswerR, EndOfInput, promptVars, widthVars, modeVars2, placeVars, Modes, Flags,
              Places, Widths
<1>9. ASSUME NEW w \in {"code", "blank", "empty"}, GiveCode(w)
      PROVE  Modes' /\ Flags' /\ Places' /\ account' \in Accounts /\ Widths'
  <2>1. Flags' BY <1>9 DEF GiveCode, modeVars2, Flags
  <2>2. account' \in Accounts BY <1>9 DEF GiveCode, Accounts
  <2> QED BY <1>9, <2>1, <2>2 DEF GiveCode, widthVars, modeVars2, placeVars, Modes, Places, Widths
<1>10. CASE LineRejected
  <2>1. Flags' BY <1>10 DEF LineRejected, modeVars2, Flags
  <2>2. account' \in Accounts
    <3>1. [what |-> "rejected", failed |-> TRUE, overheard |-> FALSE, meta |-> FALSE] \in Accounts BY DEF Accounts
    <3> HIDE DEF Accounts
    <3> QED BY <1>10, <3>1 DEF LineRejected
  <2> QED BY <1>10, <2>1, <2>2 DEF LineRejected, widthVars, modeVars2, placeVars, Modes, Places, Widths
<1>11. CASE CtrlC
  <2>1. account' \in Accounts BY <1>11 DEF CtrlC, Accounts
  <2>2. /\ stage' = "R" /\ UNCHANGED <<start, asked, failedLast, clock, duration, awaited, raised,
                                       overheard, columns, known, width, directory, dirStack>>
        /\ UNCHANGED <<shellMode, reprexMode, backend, flagged>>
    BY <1>11 DEF CtrlC, widthVars, modeVars2, placeVars
  <2>3. Flags' /\ Modes' BY <2>2 DEF Flags, Modes
  <2>4. Places' /\ Widths' BY <2>2 DEF Places, Widths
  <2> QED BY <2>1, <2>3, <2>4
<1>12. CASE LeaveShellMode
  <2>1. /\ shellMode' = FALSE
        /\ UNCHANGED <<start, stage, asked, failedLast, clock, duration, awaited, raised, overheard,
                       account, columns, known, width, reprexMode, backend, flagged, directory,
                       dirStack>>
    BY <1>12 DEF LeaveShellMode, promptVars, widthVars, placeVars
  <2>2. Flags' /\ Modes' BY <2>1 DEF Flags, Modes
  <2>3. Places' /\ Widths' BY <2>1 DEF Places, Widths
  <2> QED BY <2>1, <2>2, <2>3
<1>13. ASSUME NEW words, MetaLine(words)
       PROVE  Modes' /\ Flags' /\ Places' /\ account' \in Accounts /\ Widths'
  <2>1. /\ account' \in Accounts /\ Widths' /\ duration' = FALSE
        /\ UNCHANGED <<start, asked, failedLast, clock, awaited, raised, overheard>>
    BY <1>13 DEF MetaLine, AfterMeta, widthVars, Accounts, Widths
  <2>2. Places'
    <3>1. CASE UNCHANGED placeVars BY <3>1 DEF placeVars, Places
    <3>2. CASE meta_cd \/ meta_pushd \/ meta_popd BY <3>2, PlacesStep
    <3> QED BY <1>13, <3>1, <3>2 DEF MetaLine, MetaReprex, set_shell
  <2>3. /\ stage' \in {"start", "R", "prompt", "gone"} /\ reprexMode' \in ReprexModes
        /\ shellMode' \in BOOLEAN /\ backend' \in BOOLEAN /\ flagged' \in BOOLEAN
    <3>1. stage \in {"start", "R", "prompt", "gone"} /\ reprexMode \in ReprexModes
          /\ shellMode \in BOOLEAN /\ backend \in BOOLEAN /\ flagged \in BOOLEAN
      BY DEF Modes, Flags
    <3>2. CASE UNCHANGED modeVars2 /\ stage' \in {stage, "gone"} BY <3>1, <3>2 DEF modeVars2
    <3>3. CASE process_meta_command(words) = "reprex" /\ MetaReprex(words[2])
      <4>1. words[2] \in ReprexModes
        BY <3>3, ReprexNamesAMode
      <4> QED BY <3>1, <3>3, <4>1 DEF MetaReprex, set_mode
    <3>4. CASE \E e \in BOOLEAN : set_shell(e) BY <3>1, <3>4 DEF set_shell
    <3> QED BY <1>13, <3>2, <3>3, <3>4 DEF MetaLine
  <2> QED BY <2>1, <2>2, <2>3 DEF Modes, Flags
<1> QED
  BY <1>2, <1>3, <1>4, <1>5, <1>6, <1>7, <1>8, <1>9, <1>10, <1>11, <1>12, <1>13
  DEF LoopNext, EnterLine, ClientLine, MetaCommand

-----------------------------------------------------------------------------
(* The prompt.                                                             *)

\* Code that was entered at a command prompt runs, is timed and may fail until the next
\* command prompt, which tells of it; an error that has been noted is the command's or was
\* overheard.  The mode is the one that R's output is written in.
RunningInv == awaited = TRUE /\ clock = TRUE /\ account.what = "code"
NotedInv == raised <=> (awaited /\ account.failed) \/ overheard
PromptInv ==
  /\ NotedInv
  /\ stage = "R" =>
       /\ awaited <=> account.what = "code"
       /\ clock <=> account.what \in {"code", "blank"}
       /\ account.what # "rejected"
  /\ stage = "prompt" /\ asked # "command" => RunningInv
  /\ stage \in {"start", "prompt"} /\ asked = "command" =>
       /\ ~awaited /\ ~clock
       /\ failedLast <=> \/ account.what = "rejected"
                         \/ account.what = "code" /\ (account.failed \/ account.overheard)
       /\ duration <=> account.what \in {"code", "blank"} /\ ~account.meta
  /\ stage = "start" => asked = "command" /\ account.what = "nothing"
ModeInv ==
  /\ flagged <=> reprexMode # "off"
  /\ reprexMode = "format" => backend

LoopInv == LoopTypeOK /\ PromptInv /\ ModeInv

LEMMA LoopInvInit == LoopInit => LoopInv
<1> SUFFICES ASSUME LoopInit PROVE LoopInv OBVIOUS
<1>1. LoopTypeOK BY TypeInit
<1>2. PromptInv
  <2>1. account.what = "nothing" BY DEF LoopInit
  <2> QED BY <2>1 DEF LoopInit, PromptInv, NotedInv
<1>3. ModeInv BY DEF LoopInit, ModeInv, ModeAtStart
<1> QED BY <1>1, <1>2, <1>3 DEF LoopInv

LEMMA ModeStep ==
  ASSUME LoopTypeOK, ModeInv, LoopNext
  PROVE  ModeInv'
<1>1. CASE UNCHANGED modeVars2 BY <1>1 DEF ModeInv, modeVars2
<1>2. CASE UNCHANGED <<reprexMode, backend, flagged>> BY <1>2 DEF ModeInv
<1>3. CASE \E m : MetaReprex(m)
  <2>1. PICK m : MetaReprex(m) BY <1>3
  <2>2. CASE m # "format" \/ reprexMode = "format"
    BY <2>1, <2>2 DEF MetaReprex, set_mode, ModeInv
  <2>3. CASE m = "format" /\ start.formatter
    BY <2>1, <2>3 DEF MetaReprex, set_mode, ModeInv
  <2>4. CASE m = "format" /\ reprexMode # "format" /\ ~start.formatter
    BY <2>1, <2>4 DEF MetaReprex, ModeInv
  <2> QED BY <2>2, <2>3, <2>4
<1> QED
  BY <1>1, <1>2, <1>3 DEF LoopNext, StartLoop, Resize, IdlePoll, CodeSets, CodeFails, OtherCodeFails,
     Prompts, AnswerR, EnterLine, GiveCode, LineRejected, ClientLine, CtrlC, LeaveShellMode, EndOfInput,
     MetaCommand, MetaLine, set_shell

LEMMA PromptStep ==
  ASSUME LoopTypeOK, PromptInv, LoopNext
  PROVE  PromptInv'
<1>1. Modes /\ Flags /\ account \in Accounts BY TypeParts
<1> USE <1>1 DEF Modes, Flags, Accounts, PromptInv, RunningInv, NotedInv
<1>2. CASE UNCHANGED <<stage, asked, promptVars>> BY <1>2 DEF promptVars
<1>3. CASE StartLoop BY <1>3 DEF StartLoop, promptVars
<1>4. CASE CodeFails \/ OtherCodeFails BY <1>4 DEF CodeFails, OtherCodeFails
<1>5. ASSUME NEW k \in {"command", "continuation", "other"}, Prompts(k) PROVE PromptInv'
  <2>1. CASE k = "command" BY <1>5, <2>1 DEF Prompts, set_command_duration
  <2>2. CASE k # "command" BY <1>5, <2>2 DEF Prompts, promptVars
  <2> QED BY <2>1, <2>2
<1>6. CASE AnswerR BY <1>6 DEF AnswerR, InREditor, Prompting, promptVars
<1>7. ASSUME NEW what \in {"code", "blank", "empty"}, stage = "prompt", GiveCode(what)
      PROVE  PromptInv'
  <2>1. CASE asked = "command" BY <1>7, <2>1 DEF GiveCode
  <2>2. CASE asked # "command" BY <1>7, <2>2 DEF GiveCode
  <2> QED BY <2>1, <2>2
<1>8. CASE LineRejected BY <1>8 DEF LineRejected, InREditor, Prompting
<1>9. CASE CtrlC BY <1>9 DEF CtrlC, InREditor, Prompting
<1>10. CASE EndOfInput BY <1>10 DEF EndOfInput, promptVars
<1>11. ASSUME NEW words, MetaLine(words) PROVE PromptInv'
  <2>1. /\ stage = "prompt" /\ stage' \in {"prompt", "gone"} /\ duration' = FALSE
        /\ account' = [account EXCEPT !.meta = TRUE]
        /\ UNCHANGED <<asked, failedLast, clock, awaited, raised, overheard>>
    BY <1>11 DEF MetaLine, AfterMeta, Prompting, MetaReprex, set_shell
  <2> QED BY <2>1
<1> QED
  BY <1>2, <1>3, <1>4, <1>5, <1>6, <1>7, <1>8, <1>9, <1>10, <1>11
  DEF LoopNext, Resize, IdlePoll, CodeSets, EnterLine, ClientLine, InREditor, Prompting,
      LeaveShellMode, MetaCommand

LEMMA LoopInvStep == LoopInv /\ [LoopNext]_loopVars => LoopInv'
<1> SUFFICES ASSUME LoopInv, [LoopNext]_loopVars PROVE LoopInv' OBVIOUS
<1>1. CASE LoopNext BY <1>1, TypeStep, PromptStep, ModeStep DEF LoopInv
<1>2. CASE UNCHANGED loopVars
  BY <1>2 DEF LoopInv, LoopTypeOK, PromptInv, RunningInv, NotedInv, ModeInv, loopVars, promptVars, widthVars,
              modeVars2, placeVars
<1> QED BY <1>1, <1>2

-----------------------------------------------------------------------------
(* What Tab completes.                                                     *)

\* What a line of one, two or three words comes to.
LEMMA OneWord ==
  ASSUME NEW w \in META_COMMANDS \ takes_argument
  PROVE  process_meta_command(<<w>>) \notin {"unknown", "usage"}
<1> DEFINE l == <<w>>
<1>1. Word(l, 1) = w /\ Word(l, 2) = "" /\ Len(l) = 1 BY DEF Word
<1> HIDE DEF l
<1>2. process_meta_command(l) \notin {"unknown", "usage"}
  BY <1>1 DEF process_meta_command, META_COMMANDS, takes_argument
<1> QED BY <1>2 DEF l

LEMMA TwoWords ==
  ASSUME NEW w \in META_COMMANDS, NEW v \in SecondWords(w), v # "send-policy"
  PROVE  process_meta_command(<<w, v>>) \notin {"unknown", "usage"}
<1> DEFINE l == <<w, v>>
<1>1. Word(l, 1) = w /\ Word(l, 2) = v /\ Word(l, 3) = "" /\ Len(l) = 2
  BY DEF Word
<1>2. Len(l) > 1 OBVIOUS
<1> HIDE DEF l
<1>3. process_meta_command(l) \notin {"unknown", "usage"}
  <2>1. CASE w = "history"
    BY <1>1, <2>1 DEF process_meta_command, HistoryTarget, SecondWords
  <2>2. CASE w = "ipc" BY <1>1, <2>2 DEF process_meta_command, SecondWords
  <2>3. CASE w = "reprex" BY <1>1, <2>3 DEF process_meta_command, SecondWords
  <2>4. CASE w \in {"switch", "switch!"} BY <1>1, <1>2, <2>4 DEF process_meta_command
  <2>5. CASE w \in {"cd", "pushd"} BY <1>1, <1>2, <2>5 DEF process_meta_command
  <2> QED BY <2>1, <2>2, <2>3, <2>4, <2>5 DEF SecondWords
<1> QED BY <1>3 DEF l

LEMMA ThreeWords ==
  ASSUME NEW w \in META_COMMANDS, NEW v \in SecondWords(w), NEW u \in ThirdWords(w, v)
  PROVE  process_meta_command(<<w, v, u>>) \notin {"unknown", "usage"}
<1> DEFINE l == <<w, v, u>>
<1>1. Word(l, 1) = w /\ Word(l, 2) = v /\ Word(l, 3) = u /\ Len(l) = 3 BY DEF Word
<1> HIDE DEF l
<1>2. process_meta_command(l) \notin {"unknown", "usage"}
  <2>1. CASE w = "history" /\ v = "clear"
    BY <1>1, <2>1 DEF process_meta_command, HistoryTarget, ThirdWords
  <2>2. CASE w = "history" /\ v = "browse"
    BY <1>1, <2>2 DEF process_meta_command, HistoryTarget, ThirdWords
  <2>3. CASE w = "ipc" /\ v = "send-policy"
    BY <1>1, <2>3 DEF process_meta_command, ThirdWords
  <2> QED BY <2>1, <2>2, <2>3 DEF ThirdWords
<1> QED BY <1>2 DEF l

LEMMA AddWord ==
  ASSUME NEW w, NEW v, NEW u
  PROVE  /\ Append(<<>>, w) = <<w>>
         /\ Append(<<w>>, v) = <<w, v>>
         /\ Append(<<w, v>>, u) = <<w, v, u>>
<1> DEFINE S == {w, v, u}
<1>1. /\ <<>> \in Seq(S) /\ <<w>> \in Seq(S) /\ <<w, v>> \in Seq(S) /\ <<w, v, u>> \in Seq(S)
      /\ w \in S /\ v \in S /\ u \in S
  OBVIOUS
<1> HIDE DEF S
<1>2. /\ Append(<<>>, w) \in Seq(S) /\ Append(<<w>>, v) \in Seq(S)
      /\ Append(<<w, v>>, u) \in Seq(S)
  BY <1>1
<1>3. Append(<<>>, w) = <<w>> BY <1>1
<1>4. Append(<<w>>, v) = <<w, v>>
  <2> DEFINE a == Append(<<w>>, v)
             b == <<w, v>>
  <2>1. Len(a) = 2 /\ a[1] = w /\ a[2] = v /\ a \in Seq(S) BY <1>1, <1>2
  <2>2. Len(b) = 2 /\ b[1] = w /\ b[2] = v /\ b \in Seq(S) BY <1>1
  <2> HIDE DEF a, b
  <2>3. Len(a) = Len(b) /\ \A i \in 1..Len(a) : a[i] = b[i] BY <2>1, <2>2
  <2>4. a = b BY <2>1, <2>2, <2>3, SeqEqual
  <2> QED BY <2>4 DEF a, b
<1>5. Append(<<w, v>>, u) = <<w, v, u>>
  <2> DEFINE a == Append(<<w, v>>, u)
             b == <<w, v, u>>
  <2>1. Len(a) = 3 /\ a[1] = w /\ a[2] = v /\ a[3] = u /\ a \in Seq(S) BY <1>1, <1>2
  <2>2. Len(b) = 3 /\ b[1] = w /\ b[2] = v /\ b[3] = u /\ b \in Seq(S) BY <1>1
  <2> HIDE DEF a, b
  <2>3. Len(a) = Len(b) /\ \A i \in 1..Len(a) : a[i] = b[i] BY <2>1, <2>2
  <2>4. a = b BY <2>1, <2>2, <2>3, SeqEqual
  <2> QED BY <2>4 DEF a, b
<1> QED BY <1>3, <1>4, <1>5

\* The lines have one, two or three words, and nothing more has to come.
LEMMA OfferedForms ==
  ASSUME NEW l \in OfferedLines
  PROVE  \/ \E w \in META_COMMANDS \ takes_argument : l = <<w>>
         \/ \E w \in META_COMMANDS : \E v \in SecondWords(w) : v # "send-policy" /\ l = <<w, v>>
         \/ \E w \in META_COMMANDS : \E v \in SecondWords(w) : \E u \in ThirdWords(w, v) :
              l = <<w, v, u>>
<1> DEFINE longer(lines) == UNION {{Append(k, w) : w \in complete_commands(k)} : k \in lines}
           one == longer({<<>>})
           two == longer(one)
           three == longer(two)
<1>1. l \in one \cup two \cup three /\ ~append_whitespace(l) BY DEF OfferedLines
<1>2. \A k \in one : \E w \in META_COMMANDS : k = <<w>>
  <2> SUFFICES ASSUME NEW k \in one PROVE \E w \in META_COMMANDS : k = <<w>> OBVIOUS
  <2>1. PICK w \in complete_commands(<<>>) : k = Append(<<>>, w) OBVIOUS
  <2>2. Len(<<>>) = 0 /\ Append(<<>>, w) = <<w>> BY AddWord
  <2> QED BY <2>1, <2>2 DEF complete_commands
<1>3. \A k \in two : \E w \in META_COMMANDS : \E v \in SecondWords(w) : k = <<w, v>>
  <2> SUFFICES ASSUME NEW k \in two
               PROVE  \E w \in META_COMMANDS : \E v \in SecondWords(w) : k = <<w, v>>
    OBVIOUS
  <2>1. PICK j \in one : \E v \in complete_commands(j) : k = Append(j, v) OBVIOUS
  <2>2. PICK v \in complete_commands(j) : k = Append(j, v) BY <2>1
  <2>3. PICK w \in META_COMMANDS : j = <<w>> BY <1>2
  <2>4. Len(<<w>>) = 1 /\ <<w>>[1] = w OBVIOUS
  <2>5. v \in SecondWords(w) BY <2>2, <2>3, <2>4 DEF complete_commands
  <2> QED BY <2>2, <2>3, <2>5, AddWord
<1>4. \A k \in three : \E w \in META_COMMANDS : \E v \in SecondWords(w) :
        \E u \in ThirdWords(w, v) : k = <<w, v, u>>
  <2> SUFFICES ASSUME NEW k \in three
               PROVE  \E w \in META_COMMANDS : \E v \in SecondWords(w) :
                        \E u \in ThirdWords(w, v) : k = <<w, v, u>>
    OBVIOUS
  <2>1. PICK j \in two : \E u \in complete_commands(j) : k = Append(j, u) OBVIOUS
  <2>2. PICK u \in complete_commands(j) : k = Append(j, u) BY <2>1
  <2>3. PICK w \in META_COMMANDS : \E v \in SecondWords(w) : j = <<w, v>> BY <1>3
  <2>4. PICK v \in SecondWords(w) : j = <<w, v>> BY <2>3
  <2>5. Len(<<w, v>>) = 2 /\ <<w, v>>[1] = w /\ <<w, v>>[2] = v OBVIOUS
  <2>6. u \in ThirdWords(w, v) BY <2>2, <2>4, <2>5 DEF complete_commands
  <2> QED BY <2>2, <2>4, <2>6, AddWord
<1>5. ASSUME NEW w \in META_COMMANDS, l = <<w>> PROVE w \notin takes_argument
  BY <1>1, <1>5 DEF append_whitespace
<1>6. ASSUME NEW w, NEW v, l = <<w, v>> PROVE v # "send-policy"
  BY <1>1, <1>6 DEF append_whitespace
<1> HIDE DEF one, two, three
<1> QED BY <1>1, <1>2, <1>3, <1>4, <1>5, <1>6

-----------------------------------------------------------------------------
(* The theorems.                                                           *)

\* The inductive invariant holds of every behaviour.
THEOREM LoopInvariant == LoopSpec => []LoopInv
BY LoopInvInit, LoopInvStep, PTL DEF LoopSpec

\* Every variable keeps to its type, whatever is typed and however wide the terminal is.
THEOREM LoopTypeCorrect == LoopSpec => []LoopTypeOK
<1>1. LoopInv => LoopTypeOK BY DEF LoopInv
<1> QED BY <1>1, LoopInvariant, PTL

\* What the prompt tells of the last command, of its time and of the mode is so, through
\* nested prompts, rejected code, meta commands and excursions to the shell: no failure is
\* kept from the user, and a success passes for one only where the flag of the error
\* handler was raised by code that no command called (repl/read_console.rs,
\* arf-libr/src/sys/error_state.rs).
THEOREM PromptIsRight == LoopSpec => []PromptTells
<1> DEFINE Failed == \/ account.what = "rejected"
                     \/ account.what = "code" /\ (account.failed \/ account.overheard)
           Timed == account.what \in {"code", "blank"} /\ ~account.meta
           Shown == build_main_prompt
<1>1. LoopInv => PromptTells
  <2> SUFFICES ASSUME LoopInv, stage = "prompt", asked = "command", ~shellMode
               PROVE  /\ Shown.status <=> Failed
                      /\ Shown.duration <=> Timed
                      /\ flagged <=> Shown.indicator # "off"
                      /\ Shown.indicator = "format" => backend
    BY DEF PromptTells, Prompting
  <2>1. /\ Shown.status <=> failedLast
        /\ Shown.duration <=> duration
        /\ Shown.indicator = reprexMode
    BY TypeParts DEF build_main_prompt, LoopInv, Flags
  <2>2. PromptInv /\ stage \in {"start", "prompt"} BY DEF LoopInv
  <2>3. (failedLast <=> Failed) /\ (duration <=> Timed)
    BY <2>2, Zenon DEF PromptInv
  <2>4. /\ flagged <=> Shown.indicator # "off"
        /\ Shown.indicator = "format" => backend
    BY <2>1 DEF LoopInv, ModeInv
  <2> HIDE DEF Failed, Timed, Shown
  <2> QED BY <2>1, <2>3, <2>4, Zenon
<1> QED BY <1>1, LoopInvariant, PTL

\* Every line that Tab leads to, in either mode and with or without rig, is one that the
\* dispatch knows and finds complete (completion/meta.rs against repl/meta_command.rs).
THEOREM TabIsAccepted == LoopSpec => []OfferedIsAccepted
<1>1. OfferedIsAccepted BY OfferedForms, OneWord, TwoWords, ThreeWords DEF OfferedIsAccepted
<1> QED BY <1>1, PTL

-----------------------------------------------------------------------------
(* From one image to the next (StartUp).                                   *)

HIDE ReplLoopAssumption

Before == {"start", "options", "library", "init"}

\* What env and rSource are made of.
Shapes ==
  /\ env = [rHome |-> env.rHome, ld |-> env.ld, rvar |-> env.rvar, carrier |-> env.carrier]
  /\ rSource = [status |-> rSource.status, r |-> rSource.r]
  /\ world \in Worlds /\ original \in {Unset, User}
  /\ cli = [home |-> cli.home, version |-> cli.version, overrides |-> cli.overrides]

\* The variables as they were before the first image are never lost: they are in the
\* snapshot, and between two images in the carrier, or still in the environment.
OriginalKept ==
  /\ image = "start" => capture_startup_env = original
  /\ image # "start" => snapshot = original
  /\ mode # "console" /\ image \in Before => env.rvar = original /\ env.carrier \notin Values

\* The R of the :switch that started this image, and the library that goes with it.
WantedR   == resolve_version(world, switched)
Selected == find_r_library(world, WantedR)

SwitchInv ==
  /\ rSource.status = "rig" => cli.home = NotGiven
  /\ switched # NotGiven =>
       /\ mode = "console" /\ cli.home = NotGiven /\ cli.version = switched
       /\ image \in Before => env.rvar = original /\ env.ld \in {<<>>, <<Selected>>}
       /\ image \in {"library", "init"} => env.rHome = WantedR
       /\ image = "init" => Selected = NoR \/ env.ld = <<Selected>>

StartInv == Shapes /\ OriginalKept /\ SwitchInv

LEMMA StartBegins == StartInit => StartInv
<1> SUFFICES ASSUME StartInit PROVE StartInv OBVIOUS
<1>1. PICK l \in Launches :
        /\ mode = l.mode /\ cli = l.cli /\ original = l.rvar
        /\ env = [rHome |-> l.rHome, ld |-> <<>>, rvar |-> l.rvar, carrier |-> l.carrier]
  BY DEF StartInit
<1>2. l.rvar \in {Unset, User} /\ l.carrier \in {NoCarrier, BadCarrier} /\ l.cli \in Cli
  BY StartUpAssumption DEF LaunchType
<1>3. l.carrier \notin Values BY <1>2, StartUpAssumption
<1>4. image = "start" /\ rSource = NoSource /\ switched = NotGiven /\ world \in Worlds
  BY DEF StartInit
<1>5. Shapes
  <2>1. cli = [home |-> cli.home, version |-> cli.version, overrides |-> cli.overrides]
    BY <1>1, <1>2 DEF Cli
  <2>2. rSource = [status |-> rSource.status, r |-> rSource.r] BY <1>4 DEF NoSource
  <2>3. env = [rHome |-> env.rHome, ld |-> env.ld, rvar |-> env.rvar, carrier |-> env.carrier]
    BY <1>1
  <2> QED BY <1>1, <1>2, <1>4, <2>1, <2>2, <2>3 DEF Shapes
<1>6. OriginalKept BY <1>1, <1>3, <1>4 DEF OriginalKept, capture_startup_env
<1>7. SwitchInv BY <1>4 DEF SwitchInv, NoSource
<1> QED BY <1>5, <1>6, <1>7 DEF StartInv

\* A step that leaves the environment, the request and the world alone.
LEMMA StartStays ==
  ASSUME StartInv, UNCHANGED <<world, mode, cli, env, snapshot, original, switched>>,
         rSource' = rSource, image # "start", image' # "start",
         image' \in Before => image \in Before,
         image' \in {"library", "init"} => image \in {"library", "init"},
         image' = "init" => Selected = NoR \/ env.ld = <<Selected>>
  PROVE  StartInv'
<1>1. Shapes' BY DEF StartInv, Shapes
<1>3. OriginalKept' BY DEF StartInv, OriginalKept
<1>4. WantedR' = WantedR /\ Selected' = Selected BY DEF WantedR, Selected
<1>5. SwitchInv' BY <1>4 DEF StartInv, SwitchInv
<1> QED BY <1>1, <1>3, <1>5 DEF StartInv

LEMMA BeginKeeps ==
  ASSUME StartInv, Begin
  PROVE  StartInv'
<1>1. /\ image = "start" /\ image' \in {"ended", "options"} /\ snapshot' = original
      /\ env' = [env EXCEPT !.carrier = NoCarrier]
      /\ UNCHANGED <<world, mode, cli, rSource, original, switched>>
  BY DEF Begin, StartInv, OriginalKept
<1>2. /\ env' = [rHome |-> env.rHome, ld |-> env.ld, rvar |-> env.rvar, carrier |-> NoCarrier]
  BY <1>1 DEF StartInv, Shapes
<1>3. NoCarrier \notin Values BY StartUpAssumption
<1>4. Shapes' BY <1>1, <1>2 DEF StartInv, Shapes
<1>5. OriginalKept' BY <1>1, <1>2, <1>3 DEF StartInv, OriginalKept, Before
<1>6. WantedR' = WantedR /\ Selected' = Selected BY <1>1 DEF WantedR, Selected
<1>7. SwitchInv' BY <1>1, <1>2, <1>6 DEF StartInv, SwitchInv, Before
<1> QED BY <1>4, <1>5, <1>7 DEF StartInv

\* Which R is selected, as far as it does not take the providers.
LEMMA SelectionIs ==
  ASSUME NEW w, NEW c
  PROVE  /\ c.home # NotGiven => resolve_r_source(w, c).status \in {"error", "explicit"}
         /\ c.home = NotGiven /\ c.version # NotGiven =>
              \/ resolve_r_source(w, c).status = "error"
              \/ /\ resolve_r_source(w, c).status = "rig"
                 /\ resolve_r_source(w, c).home = resolve_version(w, c.version)
<1>1. CASE c.home # NotGiven BY <1>1 DEF resolve_r_source, Resolution, Refused
<1>2. CASE c.home = NotGiven /\ c.version # NotGiven
  <2>1. PICK s : resolve_r_source(w, c) = FromRig(w, c.version, s) BY <1>2 DEF resolve_r_source
  <2>2. \/ FromRig(w, c.version, s) = Resolution("rig", resolve_version(w, c.version), s)
        \/ FromRig(w, c.version, s) = Refused
    BY DEF FromRig
  <2>3. /\ Refused.status = "error"
        /\ Resolution("rig", resolve_version(w, c.version), s).status = "rig"
        /\ Resolution("rig", resolve_version(w, c.version), s).home = resolve_version(w, c.version)
    BY DEF Resolution, Refused
  <2> QED BY <1>2, <2>1, <2>2, <2>3
<1> QED BY <1>1, <1>2

LEMMA SetUpRKeeps ==
  ASSUME StartInv, SetUpR
  PROVE  StartInv'
<1> DEFINE r == resolve_r_source(world, cli)
<1>1. image = "options" /\ UNCHANGED <<world, mode, cli, snapshot, original, switched>>
  BY DEF SetUpR
<1>2. \/ image' = "ended" /\ UNCHANGED <<env, rSource>>
      \/ /\ r.status # "error" /\ image' = "library"
         /\ rSource' = [NoSource EXCEPT !.status = r.status]
         /\ env' = IF r.status = "path" THEN env ELSE [env EXCEPT !.rHome = r.home]
  BY DEF SetUpR
<1>3. /\ cli.home # NotGiven => r.status \in {"error", "explicit"}
      /\ cli.home = NotGiven /\ cli.version # NotGiven =>
           r.status = "error" \/ (r.status = "rig" /\ r.home = resolve_version(world, cli.version))
  BY SelectionIs
<1> HIDE DEF r
<1>4. CASE image' = "ended" /\ UNCHANGED <<env, rSource>>
  BY <1>1, <1>4, StartStays DEF Before
<1>5. CASE /\ r.status # "error" /\ image' = "library"
           /\ rSource' = [NoSource EXCEPT !.status = r.status]
           /\ env' = IF r.status = "path" THEN env ELSE [env EXCEPT !.rHome = r.home]
  <2>1. rSource' = [status |-> r.status, r |-> NoR] BY <1>5 DEF NoSource
  <2>2. \E h : /\ env' = [rHome |-> h, ld |-> env.ld, rvar |-> env.rvar, carrier |-> env.carrier]
               /\ r.status = "path" \/ h = r.home
    <3>1. CASE r.status = "path" BY <1>5, <3>1 DEF StartInv, Shapes
    <3>2. CASE r.status # "path" BY <1>5, <3>2 DEF StartInv, Shapes
    <3> QED BY <3>1, <3>2
  <2>3. Shapes' BY <1>1, <2>1, <2>2 DEF StartInv, Shapes
  <2>4. OriginalKept' BY <1>1, <1>5, <2>2 DEF StartInv, OriginalKept, Before
  <2>5. WantedR' = WantedR /\ Selected' = Selected BY <1>1 DEF WantedR, Selected
  <2>6. SwitchInv'
    <3>1. rSource'.status = "rig" => cli'.home = NotGiven BY <1>1, <1>3, <2>1
    <3>2. ASSUME switched' # NotGiven
          PROVE  /\ mode' = "console" /\ cli'.home = NotGiven /\ cli'.version = switched'
                 /\ env'.rvar = original' /\ env'.ld \in {<<>>, <<Selected'>>}
                 /\ env'.rHome = WantedR'
      <4>1. /\ mode = "console" /\ cli.home = NotGiven /\ cli.version = switched
            /\ env.rvar = original /\ env.ld \in {<<>>, <<Selected>>}
        BY <1>1, <3>2 DEF StartInv, SwitchInv, Before
      <4>2. r.status = "rig" /\ r.home = WantedR BY <1>1, <1>3, <1>5, <3>2, <4>1 DEF WantedR
      <4> QED BY <1>1, <2>2, <2>5, <4>1, <4>2
    <3> QED BY <1>5, <3>1, <3>2 DEF SwitchInv
  <2> QED BY <2>3, <2>4, <2>6 DEF StartInv
<1> QED BY <1>2, <1>4, <1>5

\* Where the library is on the path, and R's home is set, the path has it alone.
LEMMA LibraryIs ==
  ASSUME StartInv, image = "library", switched # NotGiven
  PROVE  Library = Selected /\ (OnLibraryPath(Library) => env.ld = <<Selected>>)
<1>1. env.rHome = WantedR /\ env.ld \in {<<>>, <<Selected>>} BY DEF StartInv, SwitchInv, Before
<1>2. Library = Selected BY <1>1 DEF Library, Selected
<1>3. ToSet(<<>>) = {} BY DEF ToSet
<1> QED BY <1>1, <1>2, <1>3 DEF OnLibraryPath

LEMMA LibraryPathReadyKeeps ==
  ASSUME StartInv, LibraryPathReady
  PROVE  StartInv'
<1>1. /\ image = "library" /\ image' = "init"
      /\ Library = NoR \/ OnLibraryPath(Library)
      /\ UNCHANGED <<world, mode, cli, env, snapshot, rSource, original, switched>>
  BY DEF LibraryPathReady
<1>2. CASE switched = NotGiven
  <2>1. Shapes' BY <1>1 DEF StartInv, Shapes
  <2>2. OriginalKept' BY <1>1 DEF StartInv, OriginalKept, Before
  <2>3. SwitchInv' BY <1>1, <1>2 DEF StartInv, SwitchInv
  <2> QED BY <2>1, <2>2, <2>3 DEF StartInv
<1>3. CASE switched # NotGiven
  <2>1. Selected = NoR \/ env.ld = <<Selected>> BY <1>1, <1>3, LibraryIs
  <2> QED BY <1>1, <2>1, StartStays DEF Before
<1> QED BY <1>2, <1>3

\* What an image starts with is what the one before it has left.
LEMMA ImageStarts ==
  ASSUME StartInv, UNCHANGED <<world, original>>, NewImage, snapshot' = snapshot,
         snapshot = original, NEW h, NEW p, NEW v, NEW c,
         env' = [rHome |-> h, ld |-> p, rvar |-> v, carrier |-> c],
         cli' = [home |-> cli'.home, version |-> cli'.version, overrides |-> cli'.overrides],
         c = original \/ (v = original /\ c \notin Values),
         mode' = "console" \/ (v = original /\ c \notin Values),
         switched' # NotGiven =>
           /\ mode' = "console" /\ cli'.home = NotGiven /\ cli'.version = switched'
           /\ v = original /\ p \in {<<>>, <<Selected'>>}
  PROVE  StartInv'
<1>1. image' = "start" /\ rSource' = NoSource BY DEF NewImage
<1>2. Shapes' BY <1>1 DEF StartInv, Shapes, NoSource
<1>3. original \in Values BY DEF StartInv, Shapes, Values
<1>4. OriginalKept' BY <1>1, <1>3 DEF OriginalKept, capture_startup_env
<1>5. SwitchInv' BY <1>1 DEF SwitchInv, NoSource
<1> QED BY <1>2, <1>4, <1>5 DEF StartInv

LEMMA ReExecKeeps ==
  ASSUME StartInv, ReExec \/ ReExecFails
  PROVE  StartInv'
<1>1. /\ image = "library" /\ Library # NoR /\ ~OnLibraryPath(Library) /\ snapshot = original
      /\ UNCHANGED <<world, mode, cli, snapshot, original, switched>>
  BY DEF ReExec, ReExecFails, StartInv, OriginalKept
<1>2. /\ WithLibraryPath = [rHome |-> env.rHome, ld |-> <<Library>> \o env.ld,
                            rvar |-> env.rvar, carrier |-> env.carrier]
      /\ WithCarrier(WithLibraryPath) = [rHome |-> env.rHome, ld |-> <<Library>> \o env.ld,
                                         rvar |-> env.rvar, carrier |-> snapshot]
  <2> DEFINE p == <<Library>> \o env.ld
  <2>1. WithLibraryPath = [env EXCEPT !.ld = p] BY DEF WithLibraryPath
  <2> HIDE DEF p
  <2>2. WithLibraryPath = [rHome |-> env.rHome, ld |-> p, rvar |-> env.rvar,
                           carrier |-> env.carrier]
    BY <2>1 DEF StartInv, Shapes
  <2>3. WithCarrier(WithLibraryPath) = [rHome |-> env.rHome, ld |-> p, rvar |-> env.rvar,
                                        carrier |-> snapshot]
    BY <2>2 DEF WithCarrier
  <2> QED BY <2>2, <2>3 DEF p
<1>8. cli' = [home |-> cli'.home, version |-> cli'.version, overrides |-> cli'.overrides]
  BY <1>1 DEF StartInv, Shapes
<1>3. WantedR' = WantedR /\ Selected' = Selected BY <1>1 DEF WantedR, Selected
<1>4. ASSUME switched # NotGiven
      PROVE  /\ <<Library>> \o env.ld = <<Selected>> /\ env.rvar = original
             /\ mode = "console" /\ cli.home = NotGiven /\ cli.version = switched
             /\ env.rHome = WantedR
  <2>1. /\ env.ld \in {<<>>, <<Selected>>} /\ env.rvar = original /\ env.rHome = WantedR
        /\ mode = "console" /\ cli.home = NotGiven /\ cli.version = switched
    BY <1>1, <1>4 DEF StartInv, SwitchInv, Before
  <2>2. Library = Selected BY <1>1, <1>4, LibraryIs
  <2>3. env.ld # <<Selected>>
    <3>1. Selected \in ToSet(<<Selected>>) BY DEF ToSet
    <3> QED BY <1>1, <2>2, <3>1 DEF OnLibraryPath
  <2>4. <<Library>> \o <<>> = <<Library>> OBVIOUS
  <2> QED BY <2>1, <2>2, <2>3, <2>4
<1>5. mode # "console" => env.rvar = original /\ env.carrier \notin Values
  BY <1>1 DEF StartInv, OriginalKept, Before
<1>6. CASE ReExec
  <2>1. NewImage /\ env' = IF mode = "console" THEN WithCarrier(WithLibraryPath) ELSE WithLibraryPath
    BY <1>6 DEF ReExec
  <2>2. CASE mode = "console"
    BY <1>1, <1>2, <1>3, <1>4, <1>8, <2>1, <2>2, ImageStarts
  <2>3. CASE mode # "console"
    BY <1>1, <1>2, <1>3, <1>4, <1>5, <1>8, <2>1, <2>3, ImageStarts
  <2> QED BY <2>2, <2>3
<1>7. CASE ReExecFails
  <2>1. /\ env' = [rHome |-> env.rHome, ld |-> <<Library>> \o env.ld,
                   rvar |-> env.rvar, carrier |-> env.carrier]
        /\ image' = "init" /\ rSource' = rSource
    BY <1>2, <1>7 DEF ReExecFails
  <2>2. Shapes' BY <1>1, <2>1 DEF StartInv, Shapes
  <2>3. OriginalKept' BY <1>1, <1>5, <2>1 DEF OriginalKept
  <2>4. SwitchInv' BY <1>1, <1>3, <1>4, <2>1 DEF StartInv, SwitchInv
  <2> QED BY <2>2, <2>3, <2>4 DEF StartInv
<1> QED BY <1>6, <1>7

\* When R runs, or the session is over, nothing but the snapshot is left to keep.
LEMMA RunningKeeps ==
  ASSUME StartInv, UNCHANGED <<mode, cli, snapshot, original, switched>>,
         image # "start", image' \in {"running", "ended"}, world' \in Worlds,
         NEW h, NEW v, env' = [rHome |-> h, ld |-> env.ld, rvar |-> v, carrier |-> env.carrier],
         rSource' = [status |-> rSource.status, r |-> rSource'.r]
  PROVE  StartInv'
<1>1. Shapes' BY DEF StartInv, Shapes
<1>2. OriginalKept' BY DEF StartInv, OriginalKept, Before
<1>3. rSource'.status = rSource.status OBVIOUS
<1>4. SwitchInv' BY <1>3 DEF StartInv, SwitchInv, Before
<1> QED BY <1>1, <1>2, <1>4 DEF StartInv

LEMMA HomeAndVariables ==
  ASSUME env = [rHome |-> env.rHome, ld |-> env.ld, rvar |-> env.rvar, carrier |-> env.carrier],
         env' = set_r_path_vars_from_wrapper(HomeFollows(env))
  PROVE  /\ env'.ld = env.ld
         /\ \E h, v : env' = [rHome |-> h, ld |-> env.ld, rvar |-> v, carrier |-> env.carrier]
<1>1. PICK h : HomeFollows(env) = [rHome |-> h, ld |-> env.ld, rvar |-> env.rvar,
                                   carrier |-> env.carrier]
  BY DEF HomeFollows
<1>2. PICK v : env' = [HomeFollows(env) EXCEPT !.rvar = v]
  BY DEF set_r_path_vars_from_wrapper
<1>3. env' = [rHome |-> h, ld |-> env.ld, rvar |-> v, carrier |-> env.carrier]
  BY <1>1, <1>2
<1>4. env'.ld = env.ld BY <1>3
<1> QED BY <1>3, <1>4

LEMMA SessionKeeps ==
  ASSUME StartInv, InitializeR \/ SetVariable \/ WorldChanges \/ EndSession
  PROVE  StartInv'
<1>1. /\ UNCHANGED <<mode, cli, snapshot, original, switched>> /\ image # "start"
      /\ image' \in {"running", "ended"} /\ world' \in Worlds
  BY DEF InitializeR, SetVariable, WorldChanges, EndSession, initialize_r_unix, StartInv, Shapes
<1>2. rSource' = [status |-> rSource.status, r |-> rSource'.r]
  <2>1. rSource' = rSource \/ rSource' = [rSource EXCEPT !.r = Library]
    BY DEF InitializeR, SetVariable, WorldChanges, EndSession, initialize_r_unix
  <2>2. rSource = [status |-> rSource.status, r |-> rSource.r] BY DEF StartInv, Shapes
  <2> QED BY <2>1, <2>2
<1>3. \E h, v : env' = [rHome |-> h, ld |-> env.ld, rvar |-> v, carrier |-> env.carrier]
  <2>1. env = [rHome |-> env.rHome, ld |-> env.ld, rvar |-> env.rvar, carrier |-> env.carrier]
    BY DEF StartInv, Shapes
  <2>2. CASE env' = env BY <2>1, <2>2
  <2>3. CASE env' = [env EXCEPT !.rvar = Session] BY <2>1, <2>3
  <2>4. CASE env' = set_r_path_vars_from_wrapper(HomeFollows(env)) BY <2>1, <2>4, HomeAndVariables
  <2> QED BY <2>2, <2>3, <2>4 DEF InitializeR, SetVariable, WorldChanges, EndSession
<1> QED BY <1>1, <1>2, <1>3, RunningKeeps

LEMMA RestartKeeps ==
  ASSUME StartInv, Restart
  PROVE  StartInv'
<1>1. /\ NewImage /\ switched' = NotGiven /\ snapshot = original /\ mode' = "console"
      /\ UNCHANGED <<world, mode, cli, snapshot, original>>
  BY DEF Restart, StartInv, OriginalKept
<1>2. env' = [rHome |-> env.rHome, ld |-> env.ld, rvar |-> env.rvar, carrier |-> snapshot]
  BY DEF Restart, WithCarrier, StartInv, Shapes
<1>3. cli' = [home |-> cli'.home, version |-> cli'.version, overrides |-> cli'.overrides]
  BY <1>1 DEF StartInv, Shapes
<1> QED BY <1>1, <1>2, <1>3, ImageStarts

LEMMA SwitchKeeps ==
  ASSUME StartInv, NEW request \in SwitchRequests, Switch(request)
  PROVE  StartInv'
<1>1. /\ NewImage /\ switched' = request /\ snapshot = original /\ mode' = "console"
      /\ UNCHANGED <<world, mode, snapshot, original>>
      /\ cli.home = NotGiven /\ cli' = [cli EXCEPT !.version = request]
  BY DEF Switch, StartInv, OriginalKept, SwitchInv, rig_enabled
<1>2. env' = [rHome |-> NoR, ld |-> <<>>, rvar |-> snapshot, carrier |-> snapshot]
  BY DEF Switch, WithCarrier, env_changes_for_switch
<1>3. cli = [home |-> cli.home, version |-> cli.version, overrides |-> cli.overrides]
  BY DEF StartInv, Shapes
<1>4. cli' = [home |-> NotGiven, version |-> request, overrides |-> cli.overrides]
  BY <1>1, <1>3
<1> QED BY <1>1, <1>2, <1>4, ImageStarts

LEMMA StartStep ==
  ASSUME StartInv, StartNext
  PROVE  StartInv'
BY BeginKeeps, SetUpRKeeps, LibraryPathReadyKeeps, ReExecKeeps, SessionKeeps, RestartKeeps,
   SwitchKeeps DEF StartNext

LEMMA StartStutters ==
  ASSUME StartInv, UNCHANGED startVars
  PROVE  StartInv'
BY DEF startVars, terminal, StartInv, Shapes, OriginalKept, SwitchInv, WantedR, Selected,
       capture_startup_env

LEMMA StartInvariant == StartSpec => []StartInv
<1>1. StartInv /\ [StartNext]_startVars => StartInv' BY StartStep, StartStutters
<1> QED BY <1>1, StartBegins, PTL DEF StartSpec

LEMMA SwitchedStarts ==
  ASSUME StartInv, StartNext, switched # NotGiven, Starting,
         resolve_version(world, switched) \in world.lib
  PROVE  /\ rSource'.r = resolve_version(world, switched)
         /\ env.rvar = original /\ env.ld = <<rSource'.r>>
<1>1. image = "init" /\ image' = "running" /\ world \in WorldType
  BY StartUpAssumption DEF Starting, StartInv, Shapes
<1>2. InitializeR
  BY <1>1 DEF StartNext, Begin, SetUpR, LibraryPathReady, ReExec, ReExecFails, SetVariable,
              WorldChanges, Restart, EndSession, Switch
<1>3. WantedR \in world.lib /\ env.rHome = WantedR /\ env.rvar = original
      /\ (Selected = NoR \/ env.ld = <<Selected>>)
  BY <1>1 DEF StartInv, SwitchInv, Before, WantedR
<1>4. WantedR # NoR
  <2>1. world.lib \subseteq Homes BY <1>1 DEF WorldType
  <2> QED BY <1>3, <2>1, SourceAssumption
<1>5. Library = WantedR /\ Selected = WantedR
  BY <1>3 DEF Library, Selected, find_r_library
<1>6. rSource' = [rSource EXCEPT !.r = Library]
  BY <1>2, <1>4, <1>5 DEF InitializeR, initialize_r_unix
<1>7. rSource'.r = Library
  <2>1. rSource = [status |-> rSource.status, r |-> rSource.r] BY DEF StartInv, Shapes
  <2> QED BY <1>6, <2>1
<1> QED BY <1>3, <1>4, <1>5, <1>7 DEF WantedR

LEMMA SwitchedImageBegins ==
  ASSUME StartInv, StartNext, switched # NotGiven, image = "start"
  PROVE  image' # "ended"
<1>1. cli.home = NotGiven BY DEF StartInv, SwitchInv
<1>2. ~Conflict BY <1>1 DEF Conflict
<1>3. Begin
  BY DEF StartNext, Begin, SetUpR, LibraryPathReady, ReExec, ReExecFails, InitializeR, SetVariable,
         WorldChanges, Restart, EndSession, Switch
<1> QED BY <1>2, <1>3 DEF Begin

\* :switch (restart_process with a version): after any start, any changes of the session to
\* the environment, and any restarts and switches before it, the image that begins does not
\* refuse its command line, and the R asked for starts with its own library alone on the
\* path and with the variables as they were before the first image (env_changes_for_switch,
\* capture_startup_env).
THEOREM SwitchIsClean == StartSpec => SwitchStartsClean
<1> DEFINE Clean == switched # NotGiven =>
       /\ Starting /\ resolve_version(world, switched) \in world.lib =>
            /\ rSource'.r = resolve_version(world, switched)
            /\ env.rvar = original /\ env.ld = <<rSource'.r>>
       /\ image = "start" => image' # "ended"
<1>1. StartInv /\ [StartNext]_startVars => [Clean]_startVars
  BY SwitchedStarts, SwitchedImageBegins
<1> QED BY <1>1, StartInvariant, PTL DEF StartSpec, SwitchStartsClean

\* What SetUpR will set R_HOME to, and an image that has replaced one with the library on
\* its path finds the same library, and it is there.
HomeToBe ==
  IF resolve_r_source(world, cli).status = "path" THEN env.rHome ELSE resolve_r_source(world, cli).home
OnceInv ==
  /\ reexecs \in {0, 1} /\ env.ld \in Seq(Homes \cup {NoR})
  /\ image \in {"start", "options"} /\ reexecs = 1 => OnLibraryPath(find_r_library(world, HomeToBe))
  /\ image = "library" => env.rHome = HomeToBe
  /\ image = "library" /\ reexecs = 1 => OnLibraryPath(Library)

LEMMA PathGrows ==
  ASSUME StartInv, OnceInv
  PROVE  /\ <<Library>> \o env.ld \in Seq(Homes \cup {NoR})
         /\ Library \in ToSet(<<Library>> \o env.ld)
<1>1. world \in WorldType BY StartUpAssumption DEF StartInv, Shapes
<1>2. Library \in Homes \cup {NoR} BY <1>1 DEF Library, find_r_library, WorldType
<1> DEFINE lib == Library
           ld == env.ld
<1>3. lib \in Homes \cup {NoR} /\ ld \in Seq(Homes \cup {NoR}) BY <1>2 DEF OnceInv
<1> HIDE DEF lib, ld
<1>4. <<lib>> \o ld \in Seq(Homes \cup {NoR}) BY <1>3
<1>5. 1 \in DOMAIN (<<lib>> \o ld) /\ (<<lib>> \o ld)[1] = lib BY <1>3
<1>6. lib \in ToSet(<<lib>> \o ld) BY <1>5 DEF ToSet
<1> QED BY <1>4, <1>6 DEF lib, ld

LEMMA OnceStays ==
  ASSUME OnceInv, UNCHANGED <<world, cli, reexecs>>, image \in Before,
         env'.rHome = env.rHome, env'.ld = env.ld,
         \/ image' \in {"init", "running", "ended"}
         \/ image = "start" /\ image' = "options"
  PROVE  OnceInv'
BY DEF OnceInv, HomeToBe, OnLibraryPath

LEMMA OnceStep ==
  ASSUME StartInv, OnceInv, StartNext
  PROVE  OnceInv'
<1>1. env = [rHome |-> env.rHome, ld |-> env.ld, rvar |-> env.rvar, carrier |-> env.carrier]
  BY DEF StartInv, Shapes
<1>2. CASE Begin
  <2>1. env' = [env EXCEPT !.carrier = NoCarrier] BY <1>2 DEF Begin
  <2>2. env'.rHome = env.rHome /\ env'.ld = env.ld BY <1>1, <2>1
  <2>3. /\ UNCHANGED <<world, cli, reexecs>> /\ image = "start" /\ image' \in {"ended", "options"}
    BY <1>2 DEF Begin
  <2> QED BY <2>2, <2>3, OnceStays DEF Before
<1>3. CASE SetUpR
  <2>1. image = "options" /\ UNCHANGED <<world, cli, reexecs>> BY <1>3 DEF SetUpR
  <2>2. CASE image' = "ended" /\ UNCHANGED env BY <2>1, <2>2 DEF OnceInv
  <2>3. CASE /\ image' = "library"
             /\ env' = IF resolve_r_source(world, cli).status = "path" THEN env
                       ELSE [env EXCEPT !.rHome = resolve_r_source(world, cli).home]
    <3>1. env'.ld = env.ld /\ env'.rHome = HomeToBe
      <4>1. CASE resolve_r_source(world, cli).status = "path" BY <2>3, <4>1 DEF HomeToBe
      <4>2. CASE resolve_r_source(world, cli).status # "path"
        BY <1>1, <2>3, <4>2 DEF HomeToBe
      <4> QED BY <4>1, <4>2
    <3>2. HomeToBe' = HomeToBe BY <2>1, <3>1 DEF HomeToBe
    <3>3. reexecs = 1 => OnLibraryPath(find_r_library(world, HomeToBe)) BY <2>1 DEF OnceInv
    <3>4. reexecs' = 1 => OnLibraryPath(Library)'
      BY <2>1, <3>1, <3>3 DEF OnLibraryPath, Library
    <3> QED BY <2>1, <2>3, <3>1, <3>2, <3>4 DEF OnceInv
  <2>4. \/ image' = "ended" /\ UNCHANGED env
        \/ /\ image' = "library"
           /\ env' = IF resolve_r_source(world, cli).status = "path" THEN env
                     ELSE [env EXCEPT !.rHome = resolve_r_source(world, cli).home]
    BY <1>3 DEF SetUpR
  <2> QED BY <2>2, <2>3, <2>4
<1>4. CASE ReExec
  <2>1. /\ image = "library" /\ ~OnLibraryPath(Library) /\ UNCHANGED <<world, cli>>
        /\ image' = "start" /\ reexecs' = reexecs + 1
    BY <1>4 DEF ReExec, NewImage
  <2>2. reexecs = 0 /\ env.rHome = HomeToBe BY <2>1 DEF OnceInv
  <2>3. env'.rHome = env.rHome /\ env'.ld = <<Library>> \o env.ld
    <3> DEFINE p == <<Library>> \o env.ld
    <3>1. env' = WithCarrier(WithLibraryPath) \/ env' = WithLibraryPath BY <1>4 DEF ReExec
    <3>2. WithLibraryPath = [env EXCEPT !.ld = p] BY DEF WithLibraryPath
    <3> HIDE DEF p
    <3>3. WithLibraryPath = [rHome |-> env.rHome, ld |-> p, rvar |-> env.rvar,
                             carrier |-> env.carrier]
      BY <1>1, <3>2
    <3>4. WithCarrier(WithLibraryPath) = [rHome |-> env.rHome, ld |-> p, rvar |-> env.rvar,
                                          carrier |-> snapshot]
      BY <3>3 DEF WithCarrier
    <3>5. env'.rHome = env.rHome /\ env'.ld = p BY <3>1, <3>3, <3>4
    <3> QED BY <3>5 DEF p
  <2>4. HomeToBe' = HomeToBe BY <2>1, <2>3 DEF HomeToBe
  <2>5. find_r_library(world, HomeToBe) = Library BY <2>2 DEF Library
  <2>6. /\ Library \in ToSet(<<Library>> \o env.ld)
        /\ <<Library>> \o env.ld \in Seq(Homes \cup {NoR})
    BY PathGrows
  <2>7. OnLibraryPath(find_r_library(world, HomeToBe))'
    BY <2>1, <2>3, <2>4, <2>5, <2>6 DEF OnLibraryPath
  <2> QED BY <2>1, <2>2, <2>3, <2>6, <2>7 DEF OnceInv
<1>5. CASE LibraryPathReady \/ InitializeR \/ ReExecFails
  <2>1. /\ image' \in {"init", "running", "ended"} /\ UNCHANGED <<world, cli, reexecs>>
        /\ env' = env \/ env' = WithLibraryPath
           \/ env' = set_r_path_vars_from_wrapper(HomeFollows(env))
    BY <1>5 DEF LibraryPathReady, ReExecFails, InitializeR, initialize_r_unix
  <2>2. CASE env' = env BY <2>1, <2>2 DEF OnceInv
  <2>3. CASE env' = WithLibraryPath
    <3> DEFINE p == <<Library>> \o env.ld
    <3>1. env' = [env EXCEPT !.ld = p] /\ p \in Seq(Homes \cup {NoR})
      BY <2>3, PathGrows DEF WithLibraryPath
    <3> HIDE DEF p
    <3>2. env'.ld = p BY <1>1, <3>1
    <3> QED BY <2>1, <3>1, <3>2 DEF OnceInv
  <2>4. CASE env' = set_r_path_vars_from_wrapper(HomeFollows(env))
    <3>1. env'.ld = env.ld BY <1>1, <2>4, HomeAndVariables
    <3> QED BY <2>1, <3>1 DEF OnceInv
  <2> QED BY <2>1, <2>2, <2>3, <2>4
<1>6. CASE SetVariable \/ WorldChanges \/ EndSession
  <2>1. /\ image' \in {"running", "ended"} /\ UNCHANGED reexecs
        /\ env' = env \/ env' = [env EXCEPT !.rvar = Session]
    BY <1>6 DEF SetVariable, WorldChanges, EndSession
  <2>2. env'.ld = env.ld BY <1>1, <2>1
  <2> QED BY <2>1, <2>2 DEF OnceInv
<1>7. CASE Restart \/ \E request \in SwitchRequests : Switch(request)
  <2>1. /\ image' = "start" /\ reexecs' = 0
        /\ env' = WithCarrier(env) \/ env' = WithCarrier(env_changes_for_switch)
    BY <1>7 DEF Restart, Switch, NewImage
  <2>2. env'.ld = env.ld \/ env'.ld = <<>>
    BY <1>1, <2>1 DEF WithCarrier, env_changes_for_switch
  <2>3. <<>> \in Seq(Homes \cup {NoR}) OBVIOUS
  <2>4. env'.ld \in Seq(Homes \cup {NoR}) BY <2>2, <2>3 DEF OnceInv
  <2>5. image' # "library" /\ reexecs' # 1 /\ reexecs' \in {0, 1} BY <2>1
  <2> QED BY <2>4, <2>5 DEF OnceInv
<1> QED BY <1>2, <1>3, <1>4, <1>5, <1>6, <1>7 DEF StartNext

\* ensure_ld_library_path: after however many starts, restarts and switches, and whatever the
\* session, the user and other programs have changed between them, the image that finds the
\* directory missing is followed by one that finds it there: no image replaces itself twice.
THEOREM ReexecsOnce == StartSpec => []ReexecOnce
<1>1. StartInit => OnceInv
  <2> SUFFICES ASSUME StartInit PROVE OnceInv OBVIOUS
  <2>1. env.ld = <<>> /\ image = "start" /\ reexecs = 0 BY DEF StartInit
  <2> QED BY <2>1 DEF OnceInv
<1>2. OnceInv /\ UNCHANGED startVars => OnceInv'
  BY DEF startVars, terminal, OnceInv, HomeToBe, OnLibraryPath, Library
<1>3. OnceInv => ReexecOnce BY DEF OnceInv, ReexecOnce
<1>4. StartInv /\ OnceInv /\ [StartNext]_startVars => OnceInv' BY OnceStep, <1>2
<1> QED BY <1>1, <1>3, <1>4, StartInvariant, PTL DEF StartSpec

\* One override after the other: before the first usable one there is no R, with it the loop
\* ends.
Turn(acc, p) == TryProvider(world, acc, p)
Untried == [home |-> NoR, evaluated |-> FALSE, ended |-> FALSE]
Tried ==
  [home : {NoR} \cup {resolve_version(world, p) : p \in Provider}, evaluated : BOOLEAN,
   ended : BOOLEAN]

TriedUpTo(acc, n) ==
  IF UsableProviders \cap 1..n = {}
  THEN acc.home = NoR /\ (world.rig = "ok" => ~acc.ended)
  ELSE acc.home = resolve_version(world, world.overrides[Min(UsableProviders)]) /\ acc.ended

LEMMA TurnIs ==
  ASSUME NEW acc \in Tried, NEW p \in Provider
  PROVE  /\ Turn(acc, p) \in Tried
         /\ acc.ended \/ p.kind = "absent" => Turn(acc, p) = acc
         /\ ~acc.ended /\ p.kind # "absent" => 
              /\ p.kind # "spec" \/ world.rig # "ok" => Turn(acc, p).home = acc.home
              /\ p.kind # "spec" => ~Turn(acc, p).ended
              /\ p.kind = "spec" /\ world.rig = "ok" =>
                   /\ Turn(acc, p).home = resolve_version(world, p)
                   /\ Turn(acc, p).ended <=> resolve_version(world, p) # NoR
<1> DEFINE H == {NoR} \cup {resolve_version(world, q) : q \in Provider}  v == resolve_version(world, p)
<1>1. /\ acc = [home |-> acc.home, evaluated |-> acc.evaluated, ended |-> acc.ended]
      /\ acc.home \in H /\ acc.evaluated \in BOOLEAN /\ acc.ended \in BOOLEAN /\ v \in H
  BY DEF Tried
<1>2. p.kind \in {"unsupported", "absent", "unreadable", "invalid", "named", "spec"}
  BY DEF Provider
<1>3. Tried = [home : H, evaluated : BOOLEAN, ended : BOOLEAN] BY DEF Tried
<1>4. Turn(acc, p) =
        IF acc.ended \/ p.kind = "absent" THEN acc
        ELSE IF p.kind \in {"unsupported", "unreadable", "invalid", "named"}
             THEN [home |-> acc.home, evaluated |-> TRUE, ended |-> acc.ended]
        ELSE IF world.rig # "ok" THEN [home |-> acc.home, evaluated |-> TRUE, ended |-> TRUE]
        ELSE [home |-> v, evaluated |-> TRUE, ended |-> v # NoR]
  <2>1. CASE acc.ended \/ p.kind = "absent" BY <2>1 DEF Turn, TryProvider
  <2>2. CASE /\ ~(acc.ended \/ p.kind = "absent")
             /\ p.kind \in {"unsupported", "unreadable", "invalid", "named"}
    <3>1. Turn(acc, p) = [acc EXCEPT !.evaluated = TRUE] BY <2>2 DEF Turn, TryProvider
    <3> QED BY <1>1, <2>2, <3>1
  <2>3. CASE ~(acc.ended \/ p.kind = "absent") /\ p.kind = "spec" /\ world.rig # "ok"
    <3>1. Turn(acc, p) = [acc EXCEPT !.evaluated = TRUE, !.ended = TRUE]
      BY <2>3 DEF Turn, TryProvider
    <3> QED BY <1>1, <2>3, <3>1
  <2>4. CASE ~(acc.ended \/ p.kind = "absent") /\ p.kind = "spec" /\ world.rig = "ok"
    <3>1. Turn(acc, p) = [acc EXCEPT !.evaluated = TRUE, !.ended = v # NoR, !.home = v]
      BY <2>4 DEF Turn, TryProvider
    <3> HIDE DEF v
    <3> QED BY <1>1, <2>4, <3>1
  <2> QED BY <1>2, <2>1, <2>2, <2>3, <2>4
<1> HIDE DEF H, v
<1> DEFINE t == Turn(acc, p)
<1>5. t \in Tried
  <2>1. CASE t = acc BY <2>1
  <2>2. CASE t = [home |-> acc.home, evaluated |-> TRUE, ended |-> acc.ended]
    BY <1>1, <1>3, <2>2
  <2>3. CASE t = [home |-> acc.home, evaluated |-> TRUE, ended |-> TRUE] BY <1>1, <1>3, <2>3
  <2>4. CASE t = [home |-> v, evaluated |-> TRUE, ended |-> v # NoR] BY <1>1, <1>3, <2>4
  <2> QED BY <1>4, <2>1, <2>2, <2>3, <2>4
<1>6. acc.ended \/ p.kind = "absent" => t = acc BY <1>4
<1>7. ASSUME ~acc.ended, p.kind # "absent"
      PROVE  /\ p.kind # "spec" \/ world.rig # "ok" => t.home = acc.home
             /\ p.kind # "spec" => ~t.ended
             /\ p.kind = "spec" /\ world.rig = "ok" => t.home = v /\ (t.ended <=> v # NoR)
  <2> HIDE DEF t
  <2>1. CASE p.kind # "spec"
    <3>1. t = [home |-> acc.home, evaluated |-> TRUE, ended |-> acc.ended]
      BY <1>2, <1>4, <1>7, <2>1 DEF t
    <3> QED BY <1>7, <2>1, <3>1
  <2>2. CASE p.kind = "spec" /\ world.rig # "ok"
    <3>1. t = [home |-> acc.home, evaluated |-> TRUE, ended |-> TRUE] BY <1>4, <1>7, <2>2 DEF t
    <3> QED BY <2>2, <3>1
  <2>3. CASE p.kind = "spec" /\ world.rig = "ok"
    <3>1. t = [home |-> v, evaluated |-> TRUE, ended |-> v # NoR] BY <1>4, <1>7, <2>3 DEF t
    <3> QED BY <2>3, <3>1
  <2> QED BY <2>1, <2>2, <2>3
<1> HIDE DEF t
<1> QED BY <1>5, <1>6, <1>7 DEF t, v

LEMMA OverridesFold ==
  ASSUME world \in WorldType, NEW N, N = Len(world.overrides)
  PROVE  \E h : /\ \A n \in 0..N : h[1..n] \in Tried
                /\ h[1..0] = Untried
                /\ \A n \in 1..N : h[1..n] = Turn(h[1..n - 1], world.overrides[n])
                /\ setup_r_via_overrides(world) = h[1..N]
<1> DEFINE p == world.overrides
           g == [x \in Tried \X Provider |-> Turn(x[1], x[2])]
           Rule(h, s) == IF s = {} THEN Untried ELSE TryProvider(world, h[s \ {Max(s)}], p[Max(s)])
           Is(h) == h = [s \in SUBSET (1..N) |-> Rule(h, s)]
<1>1. p \in Seq(Provider) /\ N \in Nat /\ p \in [1..N -> Provider] /\ DOMAIN p = 1..N
  BY DEF WorldType
<1>2. g \in [Tried \X Provider -> Tried] BY TurnIs
<1>3. Untried \in Tried BY DEF Untried, Tried
<1>4. \A acc \in Tried, q \in Provider : g[<<acc, q>>] = Turn(acc, q) OBVIOUS
<1>5. setup_r_via_overrides(world) = (CHOOSE h : h = [s \in SUBSET DOMAIN p |-> Rule(h, s)])[DOMAIN p]
  BY DEF setup_r_via_overrides, FoldLeft, MapThenFoldSet, Untried
<1>6. setup_r_via_overrides(world) = (CHOOSE h : Is(h))[1..N] BY <1>1, <1>5
<1> HIDE DEF g
<1>7. PICK e \in [SUBSET (1..N) -> Tried] : Folded(e, N, Untried, p, g)
  <2> HIDE DEF p
  <2> QED BY <1>1, <1>2, <1>3, FoldExists
<1>8. ASSUME NEW s \in SUBSET (1..N), s # {} PROVE Max(s) \in s
  <2>1. s \in SUBSET (0..N) BY <1>1
  <2> QED BY <1>1, <1>8, <2>1, GreatestUpTo
<1>9. Is(e)
  <2>1. ASSUME NEW s \in SUBSET (1..N) PROVE e[s] = Rule(e, s)
    <3>1. CASE s = {} BY <1>7, <3>1 DEF Folded
    <3>2. CASE s # {}
      <4>1. Max(s) \in 1..N BY <1>8, <3>2
      <4>2. p[Max(s)] \in Provider /\ s \ {Max(s)} \in SUBSET (1..N) BY <1>1, <4>1
      <4>3. e[s] = g[<<e[s \ {Max(s)}], p[Max(s)]>>] BY <1>7, <3>2 DEF Folded
      <4> QED BY <1>4, <1>7, <3>2, <4>2, <4>3 DEF Turn
    <3> QED BY <3>1, <3>2
  <2> HIDE DEF Rule
  <2> QED BY <1>7, <2>1
<1> HIDE DEF Is
<1> DEFINE h == CHOOSE h : Is(h)
<1>10. Is(h) BY <1>9
<1> HIDE DEF h
<1>11. \A s \in SUBSET (1..N) : h[s] = Rule(h, s) BY <1>10 DEF Is
<1>12. ASSUME NEW n \in 1..N PROVE h[1..n] = Turn(h[1..n - 1], p[n])
  <2>0. N \in Nat /\ n \in Nat /\ 1 <= n /\ n <= N BY <1>1
  <2>1. 1..n \in SUBSET (1..N) /\ n \in 1..n /\ 1..n \in SUBSET (0..N) BY <2>0
  <2>2. Max(1..n) = n
    <3>1. Max(1..n) \in 1..n /\ \A m \in 1..n : m <= Max(1..n) BY <1>1, <2>1, GreatestUpTo
    <3>2. n \in 1..n /\ n \in Nat BY <1>1
    <3> QED BY <3>1, <3>2
  <2>3. (1..n) \ {n} = 1..n - 1 BY <1>1
  <2> QED BY <1>11, <2>1, <2>2, <2>3 DEF Turn
<1>13. h[1..0] = Untried
  <2>1. 1..0 = {} /\ 1..0 \in SUBSET (1..N) OBVIOUS
  <2> QED BY <1>11, <2>1
<1> DEFINE S == {n \in Nat : h[1..n] \in Tried}
<1>14. 0..N \subseteq S
  <2>1. 0 \in S BY <1>3, <1>13
  <2>2. ASSUME NEW n \in 0..N - 1, n \in S PROVE n + 1 \in S
    <3>1. n + 1 \in 1..N /\ n + 1 - 1 = n /\ n + 1 \in Nat BY <1>1
    <3>2. h[1..n + 1] = Turn(h[1..n], p[n + 1]) BY <1>12, <3>1
    <3>3. p[n + 1] \in Provider BY <1>1, <3>1
    <3> HIDE DEF p
    <3> QED BY <2>2, <3>1, <3>2, <3>3, TurnIs
  <2> HIDE DEF S
  <2> QED BY <1>1, <2>1, <2>2, InductionUpTo
<1>15. setup_r_via_overrides(world) = h[1..N] BY <1>6 DEF h
<1> QED BY <1>12, <1>13, <1>14, <1>15

LEMMA OverridesAre ==
  ASSUME world \in WorldType
  PROVE  LET tried == setup_r_via_overrides(world)
         IN IF UsableProviders = {} THEN tried.home = NoR
            ELSE tried.home = resolve_version(world, world.overrides[Min(UsableProviders)])
<1> DEFINE N == Len(world.overrides)  p == world.overrides  U == UsableProviders
<1>1. PICK h : /\ \A n \in 0..N : h[1..n] \in Tried
               /\ h[1..0] = Untried
               /\ \A n \in 1..N : h[1..n] = Turn(h[1..n - 1], p[n])
               /\ setup_r_via_overrides(world) = h[1..N]
  BY OverridesFold
<1>2. p \in Seq(Provider) /\ N \in Nat /\ \A n \in 1..N : p[n] \in Provider
  BY DEF WorldType
<1>3. /\ U \subseteq 1..N
      /\ \A k \in 1..N : k \in U <=> /\ p[k].kind = "spec" /\ world.rig = "ok"
                                     /\ resolve_version(world, p[k]) # NoR
  BY <1>2 DEF UsableProviders
<1>4. U # {} => Min(U) \in U /\ \A k \in U : Min(U) <= k BY <1>2, <1>3, LeastUpTo
<1> DEFINE S == {n \in Nat : TriedUpTo(h[1..n], n)}
<1> HIDE DEF N, p, U
<1>5. \A acc, n : TriedUpTo(acc, n) <=>
        IF U \cap 1..n = {} THEN acc.home = NoR /\ (world.rig = "ok" => ~acc.ended)
        ELSE acc.home = resolve_version(world, p[Min(U)]) /\ acc.ended
  BY DEF TriedUpTo, U, p
<1>6. 0 \in S
  <2>1. U \cap 1..0 = {} BY <1>2, <1>3
  <2> QED BY <1>1, <1>5, <2>1 DEF Untried
<1>7. ASSUME NEW n \in 0..N - 1, n \in S PROVE n + 1 \in S
  <2> DEFINE acc == h[1..n]  new == h[1..n + 1]  q == p[n + 1]
  <2>1. n \in Nat /\ n + 1 \in Nat /\ n + 1 \in 1..N /\ n \in 0..N /\ n + 1 - 1 = n BY <1>2
  <2>2. acc \in Tried /\ q \in Provider /\ new = Turn(acc, q) BY <1>1, <1>2, <2>1
  <2>3. /\ acc.ended \/ q.kind = "absent" => new = acc
        /\ ~acc.ended /\ q.kind # "absent" =>
              /\ q.kind # "spec" \/ world.rig # "ok" => new.home = acc.home
              /\ q.kind # "spec" => ~new.ended
              /\ q.kind = "spec" /\ world.rig = "ok" =>
                   /\ new.home = resolve_version(world, q)
                   /\ new.ended <=> resolve_version(world, q) # NoR
    BY <2>2, TurnIs
  <2>4. TriedUpTo(acc, n) BY <1>7
  <2>5. n + 1 \in U <=> /\ q.kind = "spec" /\ world.rig = "ok"
                        /\ resolve_version(world, q) # NoR
    BY <1>3, <2>1
  <2>6. U \cap 1..n + 1 = (U \cap 1..n) \cup (IF n + 1 \in U THEN {n + 1} ELSE {}) BY <2>1
  <2>7. world.rig # "ok" => U = {} BY <1>3
  <2>8. acc.ended \in BOOLEAN BY <2>2 DEF Tried
  <2> SUFFICES TriedUpTo(new, n + 1) BY <2>1
  <2> HIDE DEF acc, new, q
  <2>9. CASE acc.ended
    <3>1. new = acc BY <2>3, <2>9
    <3>2. CASE U \cap 1..n # {} BY <1>5, <2>4, <2>6, <3>1, <3>2
    <3>3. CASE U \cap 1..n = {}
      <4>1. world.rig # "ok" BY <1>5, <2>4, <2>9, <3>3
      <4>2. U \cap 1..n + 1 = {} BY <2>7, <4>1
      <4> QED BY <1>5, <2>4, <3>1, <3>3, <4>1, <4>2
    <3> QED BY <3>2, <3>3
  <2>10. CASE ~acc.ended /\ n + 1 \notin U
    <3>1. U \cap 1..n = {} /\ acc.home = NoR BY <1>5, <2>4, <2>10
    <3>2. U \cap 1..n + 1 = {} BY <2>6, <2>10, <3>1
    <3>3. new.home = NoR
      <4>1. CASE q.kind = "absent" BY <2>3, <3>1, <4>1
      <4>2. CASE q.kind # "absent" /\ (q.kind # "spec" \/ world.rig # "ok")
        BY <2>3, <2>10, <3>1, <4>2
      <4>3. CASE q.kind = "spec" /\ world.rig = "ok" BY <2>3, <2>5, <2>10, <4>3
      <4> QED BY <4>1, <4>2, <4>3
    <3>4. world.rig = "ok" => ~new.ended
      <4>1. CASE q.kind = "absent" BY <2>3, <2>10, <4>1
      <4>2. CASE q.kind \notin {"absent", "spec"} BY <2>3, <2>10, <4>2
      <4>3. CASE q.kind = "spec" BY <2>3, <2>5, <2>10, <4>3
      <4> QED BY <4>1, <4>2, <4>3
    <3> QED BY <1>5, <3>2, <3>3, <3>4
  <2>11. CASE ~acc.ended /\ n + 1 \in U
    <3>1. U \cap 1..n = {} BY <1>5, <2>4, <2>11
    <3>2. U \cap 1..n + 1 # {} BY <2>6, <2>11
    <3>3. Min(U) = n + 1
      <4>1. Min(U) \in U /\ Min(U) <= n + 1 /\ Min(U) \in 1..N BY <1>3, <1>4, <2>11
      <4>2. Min(U) \notin 1..n BY <3>1, <4>1
      <4> QED BY <1>2, <2>1, <4>1, <4>2
    <3>4. new.home = resolve_version(world, q) /\ new.ended BY <2>3, <2>5, <2>11
    <3>5. q = p[Min(U)] BY <3>3 DEF q
    <3> QED BY <1>5, <3>2, <3>4, <3>5
  <2> QED BY <2>8, <2>9, <2>10, <2>11
<1>8. N \in S
  <2> HIDE DEF S
  <2>1. 0..N \subseteq S BY <1>2, <1>6, <1>7, InductionUpTo
  <2> QED BY <1>2, <2>1
<1>9. TriedUpTo(setup_r_via_overrides(world), N) BY <1>1, <1>8
<1>10. U \cap 1..N = U BY <1>3
<1> QED BY <1>5, <1>9, <1>10 DEF U, p

\* What SetUpR has selected stays selected until R runs, and R_HOME is as it was found, or
\* the home selected.
SelectedInv ==
  /\ image = "options" => env.rHome = inherited
  /\ image \in {"library", "init"} =>
       LET r == resolve_r_source(world, cli)
       IN /\ r.status # "error" /\ rSource.r = NoR
          /\ env.rHome = IF r.status = "path" THEN inherited ELSE r.home

LEMMA SelectedStep ==
  ASSUME StartInv, SelectedInv, StartNext
  PROVE  SelectedInv'
<1>1. env = [rHome |-> env.rHome, ld |-> env.ld, rvar |-> env.rvar, carrier |-> env.carrier]
  BY DEF StartInv, Shapes
<1>2. CASE Begin
  <2>1. env' = [env EXCEPT !.carrier = NoCarrier] /\ inherited' = env.rHome
        /\ image' \in {"ended", "options"}
    BY <1>2 DEF Begin
  <2>2. env'.rHome = env.rHome BY <1>1, <2>1
  <2> QED BY <2>1, <2>2 DEF SelectedInv
<1>3. CASE SetUpR
  <2> DEFINE r == resolve_r_source(world, cli)
  <2>1. UNCHANGED <<world, cli, inherited>> /\ env.rHome = inherited
    BY <1>3 DEF SetUpR, SelectedInv
  <2>2. r' = r BY <2>1
  <2>3. \/ image' = "ended"
        \/ /\ r.status # "error" /\ image' = "library"
           /\ rSource' = [NoSource EXCEPT !.status = r.status]
           /\ env' = IF r.status = "path" THEN env ELSE [env EXCEPT !.rHome = r.home]
    BY <1>3 DEF SetUpR
  <2> HIDE DEF r
  <2>4. CASE image' = "ended" BY <2>4 DEF SelectedInv
  <2>5. CASE /\ r.status # "error" /\ image' = "library"
             /\ rSource' = [NoSource EXCEPT !.status = r.status]
             /\ env' = IF r.status = "path" THEN env ELSE [env EXCEPT !.rHome = r.home]
    <3>1. rSource'.r = NoR BY <2>5 DEF NoSource
    <3>2. env'.rHome = IF r.status = "path" THEN inherited ELSE r.home BY <1>1, <2>1, <2>5
    <3> QED BY <2>1, <2>2, <2>5, <3>1, <3>2 DEF SelectedInv, r
  <2> QED BY <2>3, <2>4, <2>5
<1>4. CASE LibraryPathReady BY <1>4 DEF LibraryPathReady, SelectedInv
<1>5. CASE ReExecFails
  <2> DEFINE p == <<Library>> \o env.ld
  <2>1. env' = [env EXCEPT !.ld = p] BY <1>5 DEF ReExecFails, WithLibraryPath
  <2> HIDE DEF p
  <2>2. env'.rHome = env.rHome BY <1>1, <2>1
  <2>3. image = "library" /\ image' = "init" /\ UNCHANGED <<world, cli, rSource, inherited>>
    BY <1>5 DEF ReExecFails
  <2> QED BY <2>2, <2>3 DEF SelectedInv
<1>6. CASE \/ ReExec \/ InitializeR \/ SetVariable \/ WorldChanges \/ Restart \/ EndSession
           \/ \E request \in SwitchRequests : Switch(request)
  <2>1. image' \in {"start", "running", "ended"}
    BY <1>6 DEF ReExec, InitializeR, initialize_r_unix, SetVariable, WorldChanges, Restart,
                EndSession, Switch, NewImage
  <2> QED BY <2>1 DEF SelectedInv
<1> QED BY <1>2, <1>3, <1>4, <1>5, <1>6 DEF StartNext

\* What rig tells of its default version.
LEMMA DefaultIs ==
  ASSUME NEW w \in WorldType
  PROVE  resolve_version(w, Default)
           = IF w.rig = "ok" /\ w.default \in w.installed \ w.broken THEN w.default ELSE NoR
<1>1. select_version(w, Default) = list_versions(w) \cap {w.default}
  BY DEF select_version, Default
<1>2. w.default \in Versions \cup {NoR} /\ w.installed \subseteq Versions BY DEF WorldType
<1>3. CASE w.rig = "ok" /\ w.default \in w.installed
  <2>1. select_version(w, Default) = {w.default} BY <1>1, <1>3 DEF list_versions
  <2>2. w.default \in Nat BY <1>2, <1>3, SourceAssumption
  <2>3. Max({w.default}) = w.default
    <3>1. {w.default} \in SUBSET (0..w.default) BY <2>2
    <3>2. Max({w.default}) \in {w.default} BY <2>2, <3>1, GreatestUpTo
    <3> QED BY <3>2
  <2>4. resolve_version(w, Default) = resolve_selected(w, w.default)
    BY <2>1, <2>3 DEF resolve_version
  <2> QED BY <1>3, <2>4 DEF resolve_selected
<1>4. CASE ~(w.rig = "ok" /\ w.default \in w.installed)
  <2>1. select_version(w, Default) = {} BY <1>1, <1>4 DEF list_versions
  <2> QED BY <1>4, <2>1 DEF resolve_version
<1> QED BY <1>3, <1>4

LEMMA FromRigIs ==
  ASSUME NEW w, NEW request, NEW state
  PROVE  LET r == FromRig(w, request, state)  home == resolve_version(w, request)
         IN /\ r \in {Refused, Resolution("rig", home, state)}
            /\ r = Refused <=> ~(rig_available(w) /\ home # NoR)
            /\ r # Refused => r.status = "rig" /\ r.home = home /\ r.state = state
            /\ r.status = "error" <=> r = Refused
BY DEF FromRig, Resolution, Refused

\* The R the configuration names, or none.
Configured ==
  IF world.source.kind = "path" THEN world.source.home
  ELSE IF world.rig = "ok" /\ world.default \in world.installed \ world.broken
       THEN world.default
  ELSE NoR

LEMMA FallbackIs ==
  ASSUME world \in WorldType, NEW state,
         setup_r_fallback(world, state).status # "error"
  PROVE  LET r == setup_r_fallback(world, state)
         IN /\ r # Refused /\ r.state = state
            /\ r.status = "path" => world.source.kind # "path" /\ Configured = NoR
            /\ r.status # "path" => r.home = Configured /\ Configured # NoR
<1> DEFINE w == world  r == setup_r_fallback(w, state)  rig == FromRig(w, Default, state)
           home == resolve_version(w, Default)
<1>1. w.source.kind \in {"auto", "rig", "path"} BY DEF WorldType
<1>2. home = IF w.rig = "ok" /\ w.default \in w.installed \ w.broken THEN w.default ELSE NoR
  BY DefaultIs
<1>3. home # NoR => rig_available(w) BY <1>2 DEF rig_available
<1>4. /\ rig = Refused <=> ~(rig_available(w) /\ home # NoR)
      /\ rig # Refused => rig.status = "rig" /\ rig.home = home /\ rig.state = state
      /\ rig.status = "error" <=> rig = Refused
  BY FromRigIs
<1>5. Refused.status = "error" BY DEF Refused, Resolution
<1>6. CASE w.source.kind = "path"
  <2>1. r = IF w.source.home = NoR THEN Refused ELSE Resolution("explicit", w.source.home, state)
    BY <1>6 DEF setup_r_fallback
  <2>2. w.source.home # NoR /\ r = Resolution("explicit", w.source.home, state) BY <1>5, <2>1
  <2>3. r.status = "explicit" /\ r.home = w.source.home /\ r.state = state BY <2>2 DEF Resolution
  <2> QED BY <1>5, <1>6, <2>2, <2>3 DEF Configured
<1>7. CASE w.source.kind # "path"
  <2>1. Configured = home BY <1>2, <1>7 DEF Configured
  <2>2. CASE r = rig
    <3> HIDE DEF rig, home, r
    <3>1. rig # Refused BY <1>4, <2>2 DEF r
    <3> QED BY <1>4, <2>1, <2>2, <3>1 DEF r
  <2>3. CASE r = Resolution("path", NoR, state) /\ rig = Refused
    <3>1. r.status = "path" /\ r.state = state BY <2>3 DEF Resolution
    <3> HIDE DEF rig, home, r
    <3> QED BY <1>3, <1>4, <1>5, <1>7, <2>1, <2>3, <3>1 DEF r
  <2>4. r = rig \/ (r = Resolution("path", NoR, state) /\ rig = Refused)
    BY <1>1, <1>7 DEF setup_r_fallback
  <2> QED BY <2>2, <2>3, <2>4
<1> QED BY <1>6, <1>7

LEMMA VersionSelected ==
  ASSUME NEW w, NEW request, NEW state, FromRig(w, request, state).status # "error"
  PROVE  LET r == FromRig(w, request, state)
         IN /\ r # Refused /\ r.status = "rig" /\ r.state = state
            /\ r.home = resolve_version(w, request) /\ r.home # NoR
BY FromRigIs

LEMMA ProjectVersionIs ==
  ASSUME world \in WorldType, UsableProviders # {}
  PROVE  LET p == world.overrides[Min(UsableProviders)]
         IN /\ resolve_version(world, p) # NoR
            /\ resolve_version(world, p) = NewestOf(p.of \cap world.installed)
<1> DEFINE p == world.overrides[Min(UsableProviders)]  v == resolve_version(world, p)
<1>1. UsableProviders \in SUBSET Nat BY DEF UsableProviders, WorldType
<1>2. Min(UsableProviders) \in UsableProviders BY <1>1, LeastUpTo
<1>3. p.kind = "spec" /\ world.rig = "ok" /\ v # NoR BY <1>2 DEF UsableProviders
<1>4. select_version(world, p) = world.installed \cap p.of
  BY <1>3 DEF select_version, list_versions
<1>5. world.installed \cap p.of = p.of \cap world.installed OBVIOUS
<1> HIDE DEF p
<1>6. select_version(world, p) = p.of \cap world.installed BY <1>4, <1>5
<1>7. v = Max(p.of \cap world.installed) /\ p.of \cap world.installed # {}
  BY <1>3, <1>6 DEF resolve_version, resolve_selected
<1> QED BY <1>3, <1>7 DEF NewestOf, p

\* The R selected is the one of the first tier that names one, and this tier is the reason.
LEMMA SelectionRight ==
  ASSUME world \in WorldType, resolve_r_source(world, cli).status # "error"
  PROVE  LET r == resolve_r_source(world, cli)
         IN /\ r # Refused /\ selected_by(cli, r) = TierName
            /\ r.status = "path" => TierR = find_r_library(world, inherited)
            /\ r.status # "path" => TierR = r.home /\ r.home # NoR
<1> DEFINE r == resolve_r_source(world, cli)  tried == setup_r_via_overrides(world)
           project == world.overrides[Min(UsableProviders)]
<1>0. Refused.status = "error" BY DEF Refused, Resolution
<1>1. CASE cli.home # NotGiven
  <2>1. r = IF cli.home \in {NoR} \cup world.broken THEN Refused
            ELSE Resolution("explicit", cli.home, IF cli.overrides THEN "shadowed_by_cli" ELSE "disabled")
    BY <1>1 DEF resolve_r_source
  <2>2. r.status = "explicit" /\ r.home = cli.home /\ r.home # NoR BY <1>0, <2>1 DEF Resolution
  <2>3. TierR = cli.home /\ TierName = "r_home" /\ selected_by(cli, r) = "r_home"
    BY <1>1 DEF TierR, TierName, selected_by
  <2> QED BY <1>0, <2>2, <2>3
<1>2. CASE cli.home = NotGiven /\ cli.version # NotGiven
  <2>1. PICK s : r = FromRig(world, cli.version, s) BY <1>2 DEF resolve_r_source
  <2>2. /\ r # Refused /\ r.status = "rig" /\ r.home # NoR
        /\ r.home = resolve_version(world, cli.version)
    BY <2>1, VersionSelected
  <2>3. /\ TierR = resolve_version(world, cli.version) /\ TierName = "version_request"
        /\ selected_by(cli, r) = "version_request"
    BY <1>2 DEF TierR, TierName, selected_by
  <2> QED BY <2>2, <2>3
<1>3. CASE /\ cli.home = NotGiven /\ cli.version = NotGiven
           /\ cli.overrides /\ UsableProviders # {}
  <2>1. /\ tried.home = resolve_version(world, project) /\ tried.home # NoR
        /\ tried.home = NewestOf(project.of \cap world.installed)
    BY <1>3, OverridesAre, ProjectVersionIs
  <2>2. r = Resolution("rig", tried.home, "applied") BY <1>3, <2>1 DEF resolve_r_source
  <2>3. r.status = "rig" /\ r.home = tried.home /\ r.state = "applied" BY <2>2 DEF Resolution
  <2>4. TierR = NewestOf(project.of \cap world.installed) /\ TierName = "project_file"
    BY <1>3 DEF TierR, TierName
  <2>5. selected_by(cli, r) = "project_file" BY <1>3, <2>3 DEF selected_by
  <2> QED BY <1>0, <2>1, <2>3, <2>4, <2>5
<1>4. CASE /\ cli.home = NotGiven /\ cli.version = NotGiven
           /\ ~(cli.overrides /\ UsableProviders # {})
  <2>1. \E s : r = setup_r_fallback(world, s) /\ s # "applied"
    <3>1. CASE ~cli.overrides BY <1>4, <3>1 DEF resolve_r_source
    <3>2. CASE cli.overrides
      <4>1. tried.home = NoR BY <1>4, <3>2, OverridesAre
      <4> DEFINE s == CASE tried.evaluated -> "failed"
                        [] world.overrides = <<>> -> "not_configured"
                        [] OTHER -> "no_match"
      <4>2. r = setup_r_fallback(world, s) BY <1>4, <3>2, <4>1 DEF resolve_r_source
      <4>3. s # "applied" OBVIOUS
      <4> QED BY <4>2, <4>3
    <3> QED BY <3>1, <3>2
  <2>2. PICK s : r = setup_r_fallback(world, s) /\ s # "applied" BY <2>1
  <2>3. /\ r # Refused /\ r.state = s
        /\ r.status = "path" => world.source.kind # "path" /\ Configured = NoR
        /\ r.status # "path" => r.home = Configured /\ Configured # NoR
    BY <2>2, FallbackIs
  <2>4. TierName = "default" /\ selected_by(cli, r) = "default"
    BY <1>4, <2>2, <2>3 DEF TierName, selected_by
  <2>5. TierR = IF world.source.kind = "path" THEN world.source.home
                ELSE IF world.rig = "ok" /\ world.default \in world.installed \ world.broken
                     THEN world.default
                ELSE find_r_library(world, inherited)
    BY <1>4 DEF TierR
  <2>6. world.default \in world.installed => world.default # NoR
    BY SourceAssumption DEF WorldType, Homes
  <2> HIDE DEF r
  <2> QED BY <2>3, <2>4, <2>5, <2>6 DEF Configured, r
<1> QED BY <1>1, <1>2, <1>3, <1>4

LEMMA RightRIs ==
  ASSUME StartInv, SelectedInv, StartNext, Starting, TierR \in world.lib \cup {NoR}
  PROVE  LET told == run_resolve(world, cli, inherited)
         IN /\ rSource'.r = TierR /\ told.target = TierR
            /\ told.selected_by = TierName
            /\ told.resolved <=> rSource'.r # NoR
<1> DEFINE r == resolve_r_source(world, cli)  told == run_resolve(world, cli, inherited)
<1>1. image = "init" /\ image' = "running" /\ world \in WorldType
  BY StartUpAssumption DEF Starting, StartInv, Shapes
<1>2. InitializeR
  BY <1>1 DEF StartNext, Begin, SetUpR, LibraryPathReady, ReExec, ReExecFails, SetVariable,
              WorldChanges, Restart, EndSession, Switch
<1>3. /\ r.status # "error" /\ rSource.r = NoR
      /\ env.rHome = IF r.status = "path" THEN inherited ELSE r.home
  BY <1>1 DEF SelectedInv
<1>4. /\ r # Refused /\ selected_by(cli, r) = TierName
      /\ r.status = "path" => TierR = find_r_library(world, inherited)
      /\ r.status # "path" => TierR = r.home /\ r.home # NoR
  BY <1>1, <1>3, SelectionRight
<1>5. Library = TierR
  <2>1. CASE r.status = "path" BY <1>3, <1>4, <2>1 DEF Library
  <2>2. CASE r.status # "path"
    <3>1. TierR \in world.lib /\ env.rHome = TierR BY <1>3, <1>4, <2>2
    <3> QED BY <3>1 DEF Library, find_r_library
  <2> QED BY <2>1, <2>2
<1>6. rSource'.r = Library
  <2>1. CASE Library = NoR BY <1>2, <1>3, <2>1 DEF InitializeR
  <2>2. CASE Library # NoR
    <3>1. rSource' = [rSource EXCEPT !.r = Library]
      BY <1>2, <2>2 DEF InitializeR, initialize_r_unix
    <3>2. rSource = [status |-> rSource.status, r |-> rSource.r] BY DEF StartInv, Shapes
    <3> QED BY <3>1, <3>2
  <2> QED BY <2>1, <2>2
<1> DEFINE target == resolve_path_r_home_for_report(world, r, inherited)
<1>7. told = descriptor(world, cli, r, inherited) BY <1>4 DEF run_resolve
<1>8. /\ told.target = target /\ told.selected_by = selected_by(cli, r)
      /\ told.resolved <=> target # NoR
  <2>1. told = [target |-> target, resolved |-> target # NoR, selected_by |-> selected_by(cli, r),
                provider |-> IF target = NoR THEN "none" ELSE provider(r.status)]
    BY <1>7 DEF descriptor
  <2> HIDE DEF told, target, r
  <2> QED BY <2>1
<1>9. target = TierR BY <1>4 DEF resolve_path_r_home_for_report
<1> HIDE DEF told, target, r
<1> QED BY <1>4, <1>5, <1>6, <1>8, <1>9 DEF told

\* For any installation, configuration, override files and options, through both images of
\* a start and after whatever restarts and switches: the R that runs is the one that the
\* first tier to name one names, and arf r resolve tells this R and this tier
\* (resolve_r_source, ensure_ld_library_path, run_resolve).
THEOREM RightRStarts == StartSpec => RightR
<1> DEFINE Right == Starting /\ TierR \in world.lib \cup {NoR} =>
                      LET told == run_resolve(world, cli, inherited)
                      IN /\ rSource'.r = TierR /\ told.target = TierR
                         /\ told.selected_by = TierName
                         /\ told.resolved <=> rSource'.r # NoR
<1>1. StartInit => SelectedInv BY DEF StartInit, SelectedInv
<1>2. SelectedInv /\ UNCHANGED startVars => SelectedInv' BY DEF startVars, SelectedInv
<1>3. StartInv /\ SelectedInv /\ [StartNext]_startVars => SelectedInv' BY SelectedStep, <1>2
<1>4. StartInv /\ SelectedInv /\ ReexecOnce /\ [StartNext]_startVars => [ReexecOnce /\ Right]_startVars
  BY RightRIs
<1> QED BY <1>1, <1>3, <1>4, StartInvariant, ReexecsOnce, PTL DEF StartSpec, RightR

-----------------------------------------------------------------------------
(* What Tab offers (Completer).                                            *)

LEMMA PrefixPoints ==
  ASSUME NEW s \in Seq(Marks), NEW t \in Seq(Marks)
  PROVE  IsPrefix(s, t) <=> Len(s) <= Len(t) /\ \A i \in 1..Len(s) : s[i] = t[i]
<1>1. Len(s) \in Nat /\ Len(t) \in Nat BY LenProperties
<1>2. SubSeq(s, 1, Len(s)) = s BY SubSeqFull
<1>3. ASSUME Len(s) <= Len(t)
      PROVE  /\ SubSeq(t, 1, Len(s)) \in Seq(Marks) /\ Len(SubSeq(t, 1, Len(s))) = Len(s)
             /\ \A i \in 1..Len(s) : SubSeq(t, 1, Len(s))[i] = t[i]
  <2>1. \A i \in 1..Len(s) : t[i] \in Marks BY <1>1, <1>3, ElementOfSeq
  <2> QED BY <1>1, <2>1, SubSeqProperties
<1>4. ASSUME Len(s) <= Len(t), \A i \in 1..Len(s) : s[i] = t[i]
      PROVE  s = SubSeq(t, 1, Len(s))
  <2>1. \A i \in 1..Len(s) : s[i] = SubSeq(t, 1, Len(s))[i] BY <1>3, <1>4
  <2> QED BY <1>3, <1>4, <2>1, SeqEqual
<1>5. ASSUME Len(s) <= Len(t), s = SubSeq(t, 1, Len(s))
      PROVE  \A i \in 1..Len(s) : s[i] = t[i]
  BY <1>3, <1>5
<1> QED BY <1>2, <1>4, <1>5 DEF IsPrefix

LEMMA ExtensionPoints ==
  ASSUME NEW s \in Seq(Marks), NEW t \in Seq(Marks)
  PROVE  is_prefix_extension(s, t) <=>
           IsPrefix(s, t) /\ \A i \in (Len(s) + 1)..Len(t) : t[i] \notin Structural
<1>1. Len(s) \in Nat /\ Len(t) \in Nat BY LenProperties
<1> DEFINE rest == SubSeq(t, Len(s) + 1, Len(t))
           n == Len(t) - Len(s)
<1>2. SUFFICES ASSUME IsPrefix(s, t)
      PROVE  Identifier(rest) <=> \A i \in (Len(s) + 1)..Len(t) : t[i] \notin Structural
  BY DEF is_prefix_extension
<1>3. n \in Nat BY <1>1, <1>2, PrefixPoints
<1>4. \A i \in (Len(s) + 1)..Len(t) : t[i] \in Marks BY <1>1, ElementOfSeq
<1>5. /\ rest \in Seq(Marks) /\ Len(rest) = n
      /\ \A i \in 1..n : rest[i] = t[Len(s) + i]
  <2>1. /\ rest \in Seq(Marks)
        /\ Len(rest) = IF Len(s) + 1 <= Len(t) THEN Len(t) - (Len(s) + 1) + 1 ELSE 0
        /\ \A i \in 1..(Len(t) - (Len(s) + 1) + 1) : rest[i] = t[Len(s) + 1 + i - 1]
    BY <1>1, <1>4, SubSeqProperties
  <2> HIDE DEF rest
  <2> QED BY <1>1, <1>3, <2>1
<1>6. DOMAIN rest = 1..n BY <1>5, LenProperties
<1> HIDE DEF rest
<1>7. Identifier(rest) <=> \A i \in 1..n : rest[i] \notin Structural
  BY <1>6 DEF Identifier, Range
<1>8. ASSUME NEW i \in (Len(s) + 1)..Len(t), Identifier(rest) PROVE t[i] \notin Structural
  <2>1. i - Len(s) \in 1..n /\ i = Len(s) + (i - Len(s)) BY <1>1
  <2> QED BY <1>5, <1>7, <1>8, <2>1
<1>9. ASSUME NEW i \in 1..n, \A j \in (Len(s) + 1)..Len(t) : t[j] \notin Structural
      PROVE  rest[i] \notin Structural
  <2>1. Len(s) + i \in (Len(s) + 1)..Len(t) /\ rest[i] = t[Len(s) + i] BY <1>1, <1>5
  <2> QED BY <1>9, <2>1
<1> QED BY <1>7, <1>8, <1>9

LEMMA PrefixChain ==
  ASSUME NEW s \in Seq(Marks), NEW t \in Seq(Marks), NEW u \in Seq(Marks),
         IsPrefix(s, t), IsPrefix(t, u)
  PROVE  IsPrefix(s, u)
<1>1. Len(s) \in Nat /\ Len(t) \in Nat /\ Len(u) \in Nat BY LenProperties
<1>2. Len(s) <= Len(t) /\ \A i \in 1..Len(s) : s[i] = t[i] BY PrefixPoints
<1>3. Len(t) <= Len(u) /\ \A i \in 1..Len(t) : t[i] = u[i] BY PrefixPoints
<1> QED BY <1>1, <1>2, <1>3, PrefixPoints

\* What continues a token that continues another one: from either of them on, in
\* identifier characters only.
LEMMA ExtensionChain ==
  ASSUME NEW s \in Seq(Marks), NEW t \in Seq(Marks), NEW u \in Seq(Marks),
         is_prefix_extension(s, t), IsPrefix(t, u)
  PROVE  is_prefix_extension(s, u) <=> is_prefix_extension(t, u)
<1>1. Len(s) \in Nat /\ Len(t) \in Nat /\ Len(u) \in Nat BY LenProperties
<1>2. IsPrefix(s, t) /\ \A i \in (Len(s) + 1)..Len(t) : t[i] \notin Structural BY ExtensionPoints
<1>3. Len(s) <= Len(t) BY <1>2, PrefixPoints
<1>4. Len(t) <= Len(u) /\ \A i \in 1..Len(t) : t[i] = u[i] BY PrefixPoints
<1>5. IsPrefix(s, u) BY <1>2, PrefixChain
<1>6. (\A i \in (Len(s) + 1)..Len(u) : u[i] \notin Structural)
        <=> \A i \in (Len(t) + 1)..Len(u) : u[i] \notin Structural
  <2>1. ASSUME \A i \in (Len(t) + 1)..Len(u) : u[i] \notin Structural, NEW i \in (Len(s) + 1)..Len(u)
        PROVE  u[i] \notin Structural
    <3>1. CASE i <= Len(t) BY <1>1, <1>2, <1>4, <2>1, <3>1
    <3>2. CASE i > Len(t) BY <1>1, <2>1, <3>2
    <3> QED BY <1>1, <3>1, <3>2
  <2> QED BY <1>1, <1>3, <2>1
<1> QED BY <1>5, <1>6, ExtensionPoints

-----------------------------------------------------------------------------
(* What R answers to a line, and what is offered for it, by their parts.   *)

RAnswer(line, s) ==
  IF detect_library_context(line) THEN StartingWith(line.token, s.packages)
  ELSE get_r_builtin_completions(line, s)
         \cup (IF detect_namespace_context(line)
               THEN get_namespace_completions(s.packages) ELSE {})

Plain(names) == {[name |-> n, call |-> FALSE] : n \in names}

FunctionsAt(set, names, s) == IF set.parens THEN names \cap FunctionNames \cap s.names ELSE {}
CallsAt(set, names, s) == {n \in FunctionsAt(set, names, s) : ~has_special_suffix(n)}
SuggestionsAt(set, names, token, s) ==
  {[name |-> n, call |-> n \in CallsAt(set, names, s)] :
     n \in {m \in names : m # token \/ m \in CallsAt(set, names, s)}}

ExportsFitting(token, exports) ==
  {n \in exports : fuzzy_match(parse_namespace_token(token).partial, SubSeq(n, 3, Len(n)))}
ExportsOffered(set, token, exports, s) ==
  {[name |-> n, call |-> n \in FunctionsAt(set, ExportsFitting(token, exports), s)] :
     n \in ExportsFitting(token, exports)}

KeyOf(line) == parse_namespace_token(line.token).key

\* Ideal, with the settings as a parameter and the answer of R as one thing.
IdealAt(set, line, s) ==
  IF line.scope \in {"string", "operand"} THEN Plain(complete_path(line.token, s))
  ELSE IF in_namespace(line) /\ set.fuzzy
       THEN ExportsOffered(set, line.token, ExportsIn(s, KeyOf(line)), s)
  ELSE IF detect_library_context(line) /\ set.fuzzy
       THEN Plain({p \in s.packages : fuzzy_match(line.token, p)})
  ELSE SuggestionsAt(set, StartingWith(line.token, RAnswer(line, s)), line.token, s)

LEMMA SessionNames ==
  ASSUME NEW s \in Sessions
  PROVE  /\ s.names \subseteq Seq(Marks) /\ s.packages \subseteq Seq(Marks)
         /\ get_namespace_completions(s.packages) \subseteq Seq(Marks)
<1>1. s.names \subseteq Seq(Marks) /\ s.packages \subseteq Seq(Marks) BY CompleterAssumption
<1>2. ASSUME NEW p \in s.packages PROVE Append(p, "::") \in Seq(Marks)
  <2>1. p \in Seq(Marks) /\ "::" \in Marks BY <1>1, CompleterAssumption DEF Structural
  <2> QED BY <2>1, AppendProperties
<1> QED BY <1>1, <1>2 DEF get_namespace_completions

\* R offers what begins with the token, so nothing is lost when that is asked for again.
LEMMA AnswerBegins ==
  ASSUME NEW line, NEW s
  PROVE  StartingWith(line.token, get_r_builtin_completions(line, s))
           = get_r_builtin_completions(line, s)
<1>1. \A n \in get_r_builtin_completions(line, s) : IsPrefix(line.token, n)
  BY DEF get_r_builtin_completions, is_prefix_extension
<1> QED BY <1>1 DEF StartingWith

LEMMA StartingWithUnion ==
  \A token, a, b : StartingWith(token, a \cup b) = StartingWith(token, a) \cup StartingWith(token, b)
BY DEF StartingWith

LEMMA StartingWithTwice ==
  \A token, a : StartingWith(token, StartingWith(token, a)) = StartingWith(token, a)
BY DEF StartingWith

LEMMA IdealOfR ==
  ASSUME NEW line, NEW s
  PROVE  StartingWith(line.token, RAnswer(line, s)) =
           IF detect_library_context(line) THEN StartingWith(line.token, s.packages)
           ELSE get_r_builtin_completions(line, s)
                  \cup (IF detect_namespace_context(line)
                        THEN StartingWith(line.token, get_namespace_completions(s.packages))
                        ELSE {})
<1>1. StartingWith(line.token, {}) = {} BY DEF StartingWith
<1>2. CASE detect_library_context(line) BY <1>2, StartingWithTwice DEF RAnswer
<1>3. CASE ~detect_library_context(line) /\ detect_namespace_context(line)
  BY <1>3, AnswerBegins, StartingWithUnion DEF RAnswer
<1>4. CASE ~detect_library_context(line) /\ ~detect_namespace_context(line)
  BY <1>1, <1>4, AnswerBegins, StartingWithUnion DEF RAnswer
<1> QED BY <1>2, <1>3, <1>4

LEMMA IdealIs ==
  ASSUME NEW line \in Lines, NEW s \in Sessions
  PROVE  Ideal(line, s) = IdealAt(settings, line, s)
<1> DEFINE token == line.token
           r == StartingWith(token, RAnswer(line, s))
<1>1. \A names : check_if_functions(names, s) = FunctionsAt(settings, names, s)
  BY DEF check_if_functions, FunctionsAt
<1>2. \A names : Suggestions(names, token, s) = SuggestionsAt(settings, names, token, s)
  BY <1>1 DEF Suggestions, SuggestionsAt, CallsAt
<1>3. CASE line.scope \in {"string", "operand"} BY <1>3 DEF Ideal, IdealAt, Plain
<1>4. CASE in_namespace(line) /\ settings.fuzzy
  <2> DEFINE key == parse_namespace_token(token).key
             partial == parse_namespace_token(token).partial
             fits == {n \in ExportsIn(s, key) : fuzzy_match(partial, SubSeq(n, 3, Len(n)))}
  <2>1. Ideal(line, s) = {[name |-> n, call |-> n \in check_if_functions(fits, s)] : n \in fits}
    BY <1>4 DEF Ideal, in_namespace
  <2>2. fits = ExportsFitting(token, ExportsIn(s, KeyOf(line))) BY DEF ExportsFitting, KeyOf
  <2>3. IdealAt(settings, line, s) = ExportsOffered(settings, token, ExportsIn(s, KeyOf(line)), s)
    BY <1>4 DEF IdealAt, in_namespace
  <2>4. check_if_functions(fits, s) = FunctionsAt(settings, fits, s) BY <1>1
  <2> HIDE DEF fits
  <2> QED BY <2>1, <2>2, <2>3, <2>4 DEF ExportsOffered
<1>5. CASE detect_library_context(line) /\ settings.fuzzy
  BY <1>5 DEF Ideal, IdealAt, Plain, detect_library_context, in_namespace
<1>6. CASE detect_library_context(line) /\ ~settings.fuzzy
  <2>1. r = StartingWith(token, s.packages) BY <1>6, IdealOfR
  <2> QED BY <1>2, <1>6, <2>1 DEF Ideal, IdealAt, detect_library_context, in_namespace
<1>7. CASE /\ line.scope \notin {"string", "operand"} /\ ~detect_library_context(line)
           /\ ~(in_namespace(line) /\ settings.fuzzy)
  <2>1. r = get_r_builtin_completions(line, s)
              \cup (IF detect_namespace_context(line)
                    THEN StartingWith(line.token, get_namespace_completions(s.packages))
                    ELSE {})
    BY <1>7, IdealOfR
  <2> QED BY <1>2, <1>7, <2>1 DEF Ideal, IdealAt, detect_library_context, in_namespace
<1> QED BY <1>3, <1>4, <1>5, <1>6, <1>7

\* A longer token is answered from the answer to a shorter one as R would answer it.
LEMMA CachedAnswer ==
  ASSUME NEW line \in Lines, NEW s \in Sessions,
         NEW old, old.scope = line.scope, old.token \in Seq(Marks), old.token # <<>>,
         old.token = line.token \/ is_prefix_extension(old.token, line.token)
  PROVE  StartingWith(line.token, RAnswer(old, s)) = StartingWith(line.token, RAnswer(line, s))
<1> DEFINE t == line.token
           o == old.token
           spaces == get_namespace_completions(s.packages)
<1>1. t \in Seq(Marks) /\ o \in Seq(Marks) /\ Len(t) \in Nat /\ Len(o) \in Nat \ {0}
  BY CompleterAssumption, LenProperties, EmptySeq
<1>2. IsPrefix(o, t) BY <1>1, PrefixPoints DEF is_prefix_extension
<1>3. \A n \in Seq(Marks) : IsPrefix(t, n) => IsPrefix(o, n) BY <1>1, <1>2, PrefixChain
<1>4. \A names \in SUBSET Seq(Marks) :
        StartingWith(t, StartingWith(o, names)) = StartingWith(t, names)
  BY <1>3 DEF StartingWith
<1>5. CASE detect_library_context(line)
  BY <1>4, <1>5, SessionNames, StartingWithTwice DEF RAnswer, detect_library_context
<1>6. CASE ~detect_library_context(line)
  <2>1. \A n \in Seq(Marks) :
          IsPrefix(t, n) => (is_prefix_extension(o, n) <=> is_prefix_extension(t, n))
    BY <1>1, ExtensionChain
  <2>2. StartingWith(t, get_r_builtin_completions(old, s)) = get_r_builtin_completions(line, s)
    <3>1. \A n \in s.names : IsPrefix(t, n) /\ is_prefix_extension(o, n) <=> is_prefix_extension(t, n)
      BY <2>1, SessionNames DEF is_prefix_extension
    <3>2. \A a \in Arguments : IsPrefix(t, a) => IsPrefix(o, a) BY <1>3, CompleterAssumption
    <3> QED BY <3>1, <3>2 DEF get_r_builtin_completions, StartingWith
  <2>3. ASSUME ~detect_namespace_context(old), detect_namespace_context(line)
        PROVE  StartingWith(t, spaces) = {}
    <3>1. o[Len(o)] \in Structural /\ t[Len(t)] \notin Structural
      BY <1>6, <2>3 DEF detect_namespace_context, detect_library_context
    <3>2. Len(o) <= Len(t) /\ o[Len(o)] = t[Len(o)] BY <1>1, <1>2, PrefixPoints
    <3>3. Len(o) < Len(t) BY <1>1, <3>1, <3>2
    <3>4. ASSUME NEW p \in s.packages, IsPrefix(t, Append(p, "::")) PROVE FALSE
      <4>1. p \in Seq(Marks) /\ Identifier(p) BY CompleterAssumption
      <4>2. /\ Append(p, "::") \in Seq(Marks) /\ Len(Append(p, "::")) = Len(p) + 1
            /\ \A i \in 1..Len(p) : Append(p, "::")[i] = p[i]
            /\ Len(p) \in Nat /\ DOMAIN p = 1..Len(p)
        <5>1. "::" \in Marks BY CompleterAssumption DEF Structural
        <5> QED BY <4>1, <5>1, AppendProperties, LenProperties
      <4>3. Len(t) <= Len(p) + 1 /\ t[Len(o)] = Append(p, "::")[Len(o)]
        <5>1. Len(t) <= Len(Append(p, "::"))
                /\ \A i \in 1..Len(t) : t[i] = Append(p, "::")[i]
          BY <1>1, <3>4, <4>2, PrefixPoints
        <5> QED BY <1>1, <3>2, <4>2, <5>1
      <4>4. Len(o) \in 1..Len(p) BY <1>1, <3>3, <4>2, <4>3
      <4>5. p[Len(o)] \in Structural BY <3>1, <3>2, <4>2, <4>3, <4>4
      <4> QED BY <4>1, <4>2, <4>4, <4>5 DEF Identifier, Range
    <3> QED BY <3>4 DEF StartingWith, get_namespace_completions
  <2>4. ASSUME detect_namespace_context(old) PROVE detect_namespace_context(line)
    <3>1. o[Len(o)] \notin Structural BY <2>4 DEF detect_namespace_context
    <3>2. CASE o = t BY <1>1, <1>6, <3>1, <3>2 DEF detect_namespace_context
    <3>3. CASE o # t
      <4>1. \A i \in (Len(o) + 1)..Len(t) : t[i] \notin Structural
        BY <1>1, <3>3, ExtensionPoints
      <4>2. Len(o) <= Len(t) /\ t[Len(o)] = o[Len(o)] BY <1>1, <1>2, PrefixPoints
      <4>3. t[Len(t)] \notin Structural BY <1>1, <3>1, <4>1, <4>2
      <4> QED BY <1>1, <1>6, <4>2, <4>3, EmptySeq DEF detect_namespace_context
    <3> QED BY <3>2, <3>3
  <2>5. StartingWith(t, {}) = {} BY DEF StartingWith
  <2>6. ~detect_library_context(old) BY <1>6 DEF detect_library_context
  <2>7. StartingWith(t, get_r_builtin_completions(line, s)) = get_r_builtin_completions(line, s)
    BY AnswerBegins
  <2> DEFINE R(l) == get_r_builtin_completions(l, s)
  <2>8. StartingWith(t, R(old) \cup spaces) = R(line) \cup StartingWith(t, spaces)
    BY <2>2, StartingWithUnion
  <2>9. StartingWith(t, R(line) \cup spaces) = R(line) \cup StartingWith(t, spaces)
    BY <2>7, StartingWithUnion
  <2>10. StartingWith(t, R(old) \cup {}) = R(line) BY <2>2
  <2>11. StartingWith(t, R(line) \cup {}) = R(line) BY <2>7
  <2>12. /\ RAnswer(old, s) = IF detect_namespace_context(old) THEN R(old) \cup spaces ELSE R(old) \cup {}
         /\ RAnswer(line, s) = IF detect_namespace_context(line) THEN R(line) \cup spaces
                               ELSE R(line) \cup {}
    BY <1>6, <2>6 DEF RAnswer
  <2> HIDE DEF R, spaces
  <2>13. CASE detect_namespace_context(old) BY <2>4, <2>8, <2>9, <2>12, <2>13
  <2>14. CASE ~detect_namespace_context(old) /\ detect_namespace_context(line)
    BY <2>3, <2>9, <2>10, <2>12, <2>14
  <2>15. CASE ~detect_namespace_context(old) /\ ~detect_namespace_context(line)
    BY <2>10, <2>11, <2>12, <2>15
  <2> QED BY <2>13, <2>14, <2>15
<1> QED BY <1>5, <1>6

-----------------------------------------------------------------------------
(* What the caches tell. Something read n ticks ago tells of the session   *)
(* as it is if that has not changed for more than n ticks.                 *)

ReadSince(age) == age < Lifetime /\ age < unchanged

PackagesInv ==
  packageCache # Nothing =>
    /\ packageCache = [packages |-> packageCache.packages, age |-> packageCache.age]
    /\ packageCache.age \in 0..Lifetime
    /\ ReadSince(packageCache.age) => packageCache.packages = session.packages

ExportsInv ==
  /\ exportsOf = [key \in NamespaceKeys |-> exportsOf[key]]
  /\ \A key \in NamespaceKeys : exportsOf[key] # Nothing =>
       /\ exportsOf[key] = [exports |-> exportsOf[key].exports, age |-> exportsOf[key].age]
       /\ exportsOf[key].age \in 0..Lifetime
       /\ ReadSince(exportsOf[key].age) => exportsOf[key].exports = ExportsIn(session, key)

\* What was made of exports was made of some that may have been as old as they get.
FuzzyInv ==
  fuzzyCache # Nothing =>
    /\ fuzzyCache = [line |-> fuzzyCache.line, suggestions |-> fuzzyCache.suggestions,
                     age |-> fuzzyCache.age]
    /\ fuzzyCache.age \in 0..Debounce
    /\ fuzzyCache.age < Debounce /\ fuzzyCache.age + Lifetime <= unchanged =>
         fuzzyCache.suggestions =
           ExportsOffered(settings, fuzzyCache.line.token,
                          ExportsIn(session, KeyOf(fuzzyCache.line)), session)

CacheInv ==
  /\ filledFor = [scope |-> filledFor.scope, now |-> filledFor.now]
  /\ cache # Nothing =>
       /\ cache = [token |-> cache.token, completions |-> cache.completions, age |-> cache.age]
       /\ cache.age \in 0..Debounce /\ cache.completions # {}
       /\ cache.token \in Seq(Marks) /\ cache.token # <<>>
       /\ filledFor.now = TRUE =>
            cache.completions = RAnswer([scope |-> filledFor.scope, token |-> cache.token], session)

Settled == unchanged + 1 >= Lifetime + Debounce

OfferInv ==
  /\ offered # Nothing => offered.line \in Lines
  /\ /\ offered # Nothing /\ ~offered.cut /\ offered.line.scope # "program" /\ Settled
     /\ offered.from = "cache" => filledFor = [scope |-> offered.line.scope, now |-> TRUE]
     => offered.suggestions = IdealAt(settings, offered.line, session)

WorldInv ==
  /\ settings \in CompletionSettings /\ session \in Sessions /\ unchanged \in 0..Oldest

CompleterInv ==
  WorldInv /\ PackagesInv /\ ExportsInv /\ FuzzyInv /\ CacheInv /\ OfferInv

LEMMA CompleterBegins == CompleterInit => CompleterInv
<1> SUFFICES ASSUME CompleterInit PROVE CompleterInv OBVIOUS
<1> USE DEF CompleterInit
<1>1. Lifetime \in Nat /\ Debounce \in Nat /\ Lifetime # 0 BY CompleterAssumption
<1>2. WorldInv BY <1>1 DEF WorldInv, Oldest
<1>3. PackagesInv BY DEF PackagesInv
<1>4. ExportsInv BY DEF ExportsInv
<1>5. FuzzyInv BY DEF FuzzyInv
<1>6. CacheInv BY DEF CacheInv
<1>7. OfferInv BY DEF OfferInv
<1> QED BY <1>2, <1>3, <1>4, <1>5, <1>6, <1>7 DEF CompleterInv

\* What is kept tells of now, when the session has been the same for long enough.
LEMMA SettledKept ==
  ASSUME WorldInv, unchanged >= Lifetime, NEW e, e.age \in 0..Lifetime, Kept(e)
  PROVE  ReadSince(e.age)
BY CompleterAssumption DEF WorldInv, Kept, ReadSince, Oldest

LEMMA RecordsAreThere ==
  /\ \A a, b : [exports |-> a, age |-> b] # Nothing
  /\ \A a, b : [packages |-> a, age |-> b] # Nothing
BY DEF Nothing

-----------------------------------------------------------------------------
(* The steps of a request.                                                 *)

LEMMA PackagesKept ==
  ASSUME WorldInv, PackagesInv, UNCHANGED <<session, unchanged>>,
         NEW failed, get_installed_packages(failed)
  PROVE  /\ PackagesInv'
         /\ unchanged >= Lifetime => Installed = session.packages
<1>1. CASE Kept(packageCache)
  <2>1. UNCHANGED packageCache BY <1>1 DEF get_installed_packages
  <2>2. PackagesInv' BY <2>1 DEF PackagesInv, ReadSince
  <2>3. unchanged >= Lifetime => packageCache.packages = session.packages
    BY <1>1, SettledKept DEF PackagesInv, Kept
  <2> QED BY <1>1, <2>2, <2>3 DEF Installed
<1>2. CASE ~Kept(packageCache)
  <2>1. Installed = session.packages BY <1>2 DEF Installed
  <2>2. \/ UNCHANGED packageCache
        \/ packageCache' = [packages |-> session.packages, age |-> 0]
    BY <1>2, <2>1 DEF get_installed_packages
  <2>3. PackagesInv'
    <3>1. CASE UNCHANGED packageCache BY <3>1 DEF PackagesInv, ReadSince
    <3>2. CASE packageCache' = [packages |-> session.packages, age |-> 0]
      <4>1. packageCache'.packages = session.packages /\ packageCache'.age = 0 BY <3>2
      <4> QED BY <3>2, <4>1, CompleterAssumption DEF PackagesInv
    <3> QED BY <2>2, <3>1, <3>2
  <2> QED BY <2>1, <2>3
<1> QED BY <1>1, <1>2

ExportsToldBy(key) == IF exportsOf'[key] = Nothing THEN {} ELSE exportsOf'[key].exports

LEMMA ExportsKept ==
  ASSUME WorldInv, ExportsInv, UNCHANGED <<session, unchanged>>,
         NEW key \in NamespaceKeys, ensure_namespace_cached(key)
  PROVE  /\ ExportsInv'
         /\ unchanged >= Lifetime => ExportsToldBy(key) = ExportsIn(session, key)
<1>1. exportsOf = [k \in NamespaceKeys |-> exportsOf[k]] BY DEF ExportsInv
<1>2. CASE Kept(exportsOf[key])
  <2>1. UNCHANGED exportsOf BY <1>2 DEF ensure_namespace_cached
  <2>2. ExportsInv' BY <2>1 DEF ExportsInv, ReadSince
  <2>3. ASSUME unchanged >= Lifetime PROVE exportsOf[key].exports = ExportsIn(session, key)
    <3>1. exportsOf[key] # Nothing /\ exportsOf[key].age \in 0..Lifetime
      BY <1>2 DEF Kept, ExportsInv
    <3>2. ReadSince(exportsOf[key].age) BY <1>2, <2>3, <3>1, SettledKept
    <3> QED BY <3>1, <3>2 DEF ExportsInv
  <2>4. exportsOf[key] # Nothing BY <1>2 DEF Kept
  <2> QED BY <2>1, <2>2, <2>3, <2>4 DEF ExportsToldBy
<1>3. CASE ~Kept(exportsOf[key]) /\ ExportsIn(session, key) = {}
  <2>1. exportsOf' = [exportsOf EXCEPT ![key] = Nothing]
    BY <1>3 DEF ensure_namespace_cached, store_namespace_exports
  <2>2. /\ exportsOf' = [k \in NamespaceKeys |-> exportsOf'[k]]
        /\ exportsOf'[key] = Nothing
        /\ \A k \in NamespaceKeys : k # key => exportsOf'[k] = exportsOf[k]
    BY <1>1, <2>1
  <2>3. ExportsInv' BY <2>2 DEF ExportsInv, ReadSince
  <2> QED BY <1>3, <2>2, <2>3 DEF ExportsToldBy
<1>4. CASE ~Kept(exportsOf[key]) /\ ExportsIn(session, key) # {}
  <2> DEFINE new == [exports |-> ExportsIn(session, key), age |-> 0]
  <2>1. exportsOf' = [k \in DOMAIN exportsOf |->
                        IF k = key THEN new
                        ELSE IF Kept(exportsOf[k]) THEN exportsOf[k] ELSE Nothing]
    BY <1>4 DEF ensure_namespace_cached, store_namespace_exports
  <2>2. DOMAIN exportsOf = NamespaceKeys BY <1>1
  <2>3. new.exports = ExportsIn(session, key) /\ new.age = 0
          /\ new = [exports |-> new.exports, age |-> new.age] /\ new # Nothing
    BY RecordsAreThere
  <2> HIDE DEF new
  <2>4. /\ exportsOf' = [k \in NamespaceKeys |-> exportsOf'[k]]
        /\ exportsOf'[key] = new
        /\ \A k \in NamespaceKeys : k # key => exportsOf'[k] \in {exportsOf[k], Nothing}
    BY <2>1, <2>2
  <2>5. ExportsInv'
    <3>1. ASSUME NEW k \in NamespaceKeys, exportsOf'[k] # Nothing
          PROVE  /\ exportsOf'[k] = [exports |-> exportsOf'[k].exports, age |-> exportsOf'[k].age]
                 /\ exportsOf'[k].age \in 0..Lifetime
                 /\ ReadSince(exportsOf'[k].age) => exportsOf'[k].exports = ExportsIn(session, k)
      <4>1. CASE k = key BY <2>3, <2>4, <4>1, CompleterAssumption
      <4>2. CASE k # key
        <5>1. exportsOf'[k] = exportsOf[k] BY <2>4, <3>1, <4>2
        <5> QED BY <3>1, <5>1 DEF ExportsInv
      <4> QED BY <4>1, <4>2
    <3> QED BY <2>4, <3>1 DEF ExportsInv, ReadSince
  <2> QED BY <2>3, <2>4, <2>5 DEF ExportsToldBy
<1> QED BY <1>2, <1>3, <1>4

LEMMA LineKeys == \A line \in Lines : in_namespace(line) => KeyOf(line) \in NamespaceKeys
BY DEF NamespaceKeys, KeyOf

\* How a request ends: it offers what is ideal, if it has to.
LEMMA OfferMade ==
  ASSUME UNCHANGED <<settings, session, unchanged>>, NEW line \in Lines, NEW from, NEW cut, NEW made,
         Answer(line, from, cut, made),
         ~cut /\ line.scope # "program" /\ Settled
           /\ (from = "cache" => filledFor' = [scope |-> line.scope, now |-> TRUE])
           => made = IdealAt(settings, line, session)
  PROVE  OfferInv'
<1>1. /\ offered'.line = line /\ offered'.from = from /\ offered'.suggestions = made
  BY DEF Answer
<1>2. ~offered'.cut => ~cut BY DEF Answer
<1> QED BY <1>1, <1>2 DEF OfferInv, Settled

\* The caches that a request leaves alone stay as true as they are.
LEMMA CachesStay ==
  ASSUME CompleterInv, UNCHANGED <<settings, session, unchanged>>
  PROVE  /\ WorldInv'
         /\ UNCHANGED packageCache => PackagesInv'
         /\ UNCHANGED exportsOf => ExportsInv'
         /\ UNCHANGED fuzzyCache => FuzzyInv'
         /\ UNCHANGED <<cache, filledFor>> => CacheInv'
<1> USE DEF CompleterInv
<1>1. WorldInv' BY DEF WorldInv
<1>2. ASSUME UNCHANGED packageCache PROVE PackagesInv' BY <1>2 DEF PackagesInv, ReadSince
<1>3. ASSUME UNCHANGED exportsOf PROVE ExportsInv' BY <1>3 DEF ExportsInv, ReadSince
<1>4. ASSUME UNCHANGED fuzzyCache PROVE FuzzyInv' BY <1>4 DEF FuzzyInv
<1>5. ASSUME UNCHANGED <<cache, filledFor>> PROVE CacheInv' BY <1>5 DEF CacheInv
<1> QED BY <1>1, <1>2, <1>3, <1>4, <1>5

LEMMA PathStep ==
  ASSUME CompleterInv, UNCHANGED <<settings, session, unchanged>>, NEW line \in Lines, CompletePath(line)
  PROVE  CompleterInv'
<1> DEFINE made == {[name |-> f, call |-> FALSE] : f \in complete_path(line.token, session)}
<1>1. Answer(line, "disk", FALSE, made)
        /\ UNCHANGED <<cache, filledFor, exportsOf, fuzzyCache, packageCache>>
  BY DEF CompletePath
<1>2. line.scope \in {"string", "operand"}
  BY DEF CompletePath, detect_string_context, InShell, is_command_position
<1>3. made = IdealAt(settings, line, session) BY <1>2 DEF IdealAt, Plain
<1> HIDE DEF made
<1>4. OfferInv' BY <1>1, <1>3, OfferMade
<1> QED BY <1>1, <1>4, CachesStay DEF CompleterInv

LEMMA ProgramStep ==
  ASSUME CompleterInv, UNCHANGED <<settings, session, unchanged>>, NEW line \in Lines,
         CompleteProgram(line)
  PROVE  CompleterInv'
<1>1. PICK made : Answer(line, "programs", FALSE, made) BY DEF CompleteProgram
<1>2. UNCHANGED <<cache, filledFor, exportsOf, fuzzyCache, packageCache>> BY DEF CompleteProgram
<1>3. line.scope = "program" BY DEF CompleteProgram, is_command_position
<1>4. OfferInv' BY <1>1, <1>3, OfferMade
<1> QED BY <1>2, <1>4, CachesStay DEF CompleterInv

LEMMA NamespaceStep ==
  ASSUME CompleterInv, UNCHANGED <<settings, session, unchanged>>, NEW line \in Lines,
         complete_namespace_fuzzy(line)
  PROVE  CompleterInv'
<1> USE DEF CompleterInv
<1> DEFINE key == KeyOf(line)
           ideal == ExportsOffered(settings, line.token, ExportsIn(session, key), session)
<1>1. /\ settings.fuzzy /\ in_namespace(line)
      /\ UNCHANGED <<cache, filledFor, packageCache>>
  BY DEF complete_namespace_fuzzy
<1>2. ideal = IdealAt(settings, line, session) BY <1>1 DEF IdealAt, in_namespace
<1>3. Settled => unchanged >= Lifetime /\ unchanged >= Debounce - 1 + Lifetime
  BY CompleterAssumption DEF Settled, WorldInv, Oldest
<1>4. key \in NamespaceKeys BY <1>1, LineKeys
<1> HIDE DEF ideal
<1>5. CASE FuzzyHit(line)
  <2>1. Answer(line, "exports", FALSE, fuzzyCache.suggestions) /\ UNCHANGED <<exportsOf, fuzzyCache>>
    BY <1>5 DEF complete_namespace_fuzzy
  <2>2. fuzzyCache # Nothing /\ fuzzyCache.line = line /\ fuzzyCache.age < Debounce
    BY <1>5 DEF FuzzyHit
  <2>3. fuzzyCache.age \in Nat BY <2>2, CompleterAssumption DEF FuzzyInv
  <2>4. Settled => fuzzyCache.age + Lifetime <= unchanged
    BY <1>3, <2>2, <2>3, CompleterAssumption DEF WorldInv, Oldest
  <2>5. Settled => fuzzyCache.suggestions = ideal BY <2>2, <2>4 DEF FuzzyInv, ideal
  <2>6. OfferInv' BY <1>2, <2>1, <2>5, OfferMade
  <2> QED BY <1>1, <2>1, <2>6, CachesStay
<1>6. CASE ~FuzzyHit(line)
  <2> DEFINE fits == ExportsFitting(line.token, ExportsToldBy(key))
             made == ExportsOffered(settings, line.token, ExportsToldBy(key), session)
  <2>1. ensure_namespace_cached(key) BY <1>6 DEF complete_namespace_fuzzy, KeyOf
  <2>2. ExportsInv' /\ (unchanged >= Lifetime => ExportsToldBy(key) = ExportsIn(session, key))
    BY <1>4, <2>1, ExportsKept
  <2>3. {[name |-> n, call |-> n \in check_if_functions(fits, session)] : n \in fits} = made
    BY DEF ExportsOffered, check_if_functions, FunctionsAt
  <2>4. Answer(line, "exports", FALSE, made)
          /\ fuzzyCache' = [line |-> line, suggestions |-> made, age |-> 0]
    <3>1. fits = IF exportsOf'[key] = Nothing THEN {}
                 ELSE {n \in exportsOf'[key].exports :
                         fuzzy_match(parse_namespace_token(line.token).partial, SubSeq(n, 3, Len(n)))}
      BY DEF ExportsFitting, ExportsToldBy
    <3> QED BY <1>6, <2>3, <3>1 DEF complete_namespace_fuzzy, KeyOf
  <2>5. unchanged >= Lifetime => made = ideal BY <2>2 DEF ideal
  <2> HIDE DEF made, fits
  <2>6. OfferInv' BY <1>2, <1>3, <2>4, <2>5, OfferMade
  <2>7. FuzzyInv'
    <3>1. fuzzyCache'.line = line /\ fuzzyCache'.suggestions = made /\ fuzzyCache'.age = 0
      BY <2>4
    <3> QED BY <2>4, <2>5, <3>1, CompleterAssumption DEF FuzzyInv, ideal, WorldInv, Oldest
  <2> QED BY <1>1, <2>2, <2>6, <2>7, CachesStay
<1> QED BY <1>5, <1>6

LEMMA LibraryStep ==
  ASSUME CompleterInv, UNCHANGED <<settings, session, unchanged>>, NEW line \in Lines,
         complete_library_fuzzy(line)
  PROVE  CompleterInv'
<1> USE DEF CompleterInv
<1>1. /\ settings.fuzzy /\ detect_library_context(line)
      /\ UNCHANGED <<cache, filledFor, exportsOf, fuzzyCache>>
  BY DEF complete_library_fuzzy
<1>2. PICK failed \in BOOLEAN :
        /\ get_installed_packages(failed)
        /\ Answer(line, "packages", failed,
                  {[name |-> p, call |-> FALSE] :
                     p \in {q \in Installed : ~failed /\ fuzzy_match(line.token, q)}})
  BY DEF complete_library_fuzzy
<1> DEFINE made == {[name |-> p, call |-> FALSE] :
                      p \in {q \in Installed : ~failed /\ fuzzy_match(line.token, q)}}
<1>3. PackagesInv' /\ (unchanged >= Lifetime => Installed = session.packages)
  BY <1>2, PackagesKept
<1>4. Settled => unchanged >= Lifetime BY CompleterAssumption DEF Settled, WorldInv, Oldest
<1>5. ~failed /\ Settled => made = IdealAt(settings, line, session)
  BY <1>1, <1>3, <1>4 DEF IdealAt, Plain, detect_library_context, in_namespace
<1>6. Answer(line, "packages", failed, made) BY <1>2
<1> HIDE DEF made
<1>7. OfferInv' BY <1>5, <1>6, OfferMade
<1> QED BY <1>1, <1>3, <1>7, CachesStay

\* What is for R is offered from R's answer.
LEMMA IdealForR ==
  ASSUME NEW line, ForR(line)
  PROVE  IdealAt(settings, line, session)
           = Suggestions(StartingWith(line.token, RAnswer(line, session)), line.token, session)
<1>1. line.scope \notin {"string", "operand"}
  BY DEF ForR, detect_string_context, InShell
<1>2. ~(in_namespace(line) /\ settings.fuzzy) /\ ~(detect_library_context(line) /\ settings.fuzzy)
  BY DEF ForR
<1>3. \A names : check_if_functions(names, session) = FunctionsAt(settings, names, session)
  BY DEF check_if_functions, FunctionsAt
<1>4. \A names : Suggestions(names, line.token, session)
                   = SuggestionsAt(settings, names, line.token, session)
  BY <1>3 DEF Suggestions, SuggestionsAt, CallsAt
<1> QED BY <1>1, <1>2, <1>4 DEF IdealAt

LEMMA CacheStep ==
  ASSUME CompleterInv, UNCHANGED <<settings, session, unchanged>>, NEW line \in Lines,
         CompleteFromCache(line)
  PROVE  CompleterInv'
<1> USE DEF CompleterInv
<1> DEFINE made == Suggestions(StartingWith(line.token, cache.completions), line.token, session)
           old  == [scope |-> filledFor.scope, token |-> cache.token]
<1>1. /\ ForR(line) /\ should_use_cache(line.token)
      /\ Answer(line, "cache", FALSE, made)
      /\ UNCHANGED <<cache, filledFor, exportsOf, fuzzyCache, packageCache>>
  BY DEF CompleteFromCache
<1>2. /\ cache # Nothing
      /\ cache.token = line.token \/ is_prefix_extension(cache.token, line.token)
  BY <1>1 DEF should_use_cache, extends_cached
<1>3. ASSUME filledFor' = [scope |-> line.scope, now |-> TRUE]
      PROVE  made = IdealAt(settings, line, session)
  <2>1. filledFor.now = TRUE /\ filledFor.scope = line.scope BY <1>1, <1>3
  <2>2. /\ cache.completions = RAnswer(old, session)
        /\ cache.token \in Seq(Marks) /\ cache.token # <<>>
    BY <1>2, <2>1 DEF CacheInv
  <2>3. old.scope = line.scope /\ old.token = cache.token BY <2>1
  <2> HIDE DEF old
  <2>4. session \in Sessions BY DEF WorldInv
  <2>5. StartingWith(line.token, RAnswer(old, session))
          = StartingWith(line.token, RAnswer(line, session))
    BY <1>2, <2>2, <2>3, <2>4, CachedAnswer
  <2> QED BY <1>1, <2>2, <2>5, IdealForR
<1> HIDE DEF made
<1>4. OfferInv' BY <1>1, <1>3, OfferMade
<1> QED BY <1>1, <1>4, CachesStay

LEMMA RStep ==
  ASSUME CompleterInv, UNCHANGED <<settings, session, unchanged>>, NEW line \in Lines,
         CompleteFromR(line)
  PROVE  CompleterInv'
<1> USE DEF CompleterInv
<1> DEFINE builtin(cut) == IF cut THEN {} ELSE get_r_builtin_completions(line, session)
           fresh(cut) == IF detect_library_context(line) THEN StartingWith(line.token, Installed)
                         ELSE builtin(cut) \cup
                                (IF detect_namespace_context(line)
                                 THEN get_namespace_completions(Installed) ELSE {})
           made(cut) == Suggestions(StartingWith(line.token, fresh(cut)), line.token, session)
<1>1. ForR(line) /\ UNCHANGED exportsOf BY DEF CompleteFromR
<1>2. PICK failed \in BOOLEAN, cut \in BOOLEAN :
        /\ IF detect_library_context(line) \/ detect_namespace_context(line)
           THEN get_installed_packages(failed)
           ELSE ~failed /\ UNCHANGED packageCache
        /\ IF failed
           THEN invalidate_cache /\ Answer(line, "R", TRUE, {})
           ELSE /\ Remember(line, fresh(cut), cut)
                /\ Answer(line, "R", cut, made(cut))
                /\ UNCHANGED fuzzyCache
  BY DEF CompleteFromR
<1>3. /\ PackagesInv'
      /\ (detect_library_context(line) \/ detect_namespace_context(line)) /\ unchanged >= Lifetime
           => Installed = session.packages
  <2>1. CASE detect_library_context(line) \/ detect_namespace_context(line)
    BY <1>2, <2>1, PackagesKept
  <2>2. CASE ~(detect_library_context(line) \/ detect_namespace_context(line))
    BY <1>2, <2>2, CachesStay
  <2> QED BY <2>1, <2>2
<1>4. ASSUME unchanged >= Lifetime, ~cut
      PROVE  /\ fresh(cut) = RAnswer(line, session)
             /\ made(cut) = IdealAt(settings, line, session)
  <2>1. fresh(cut) = RAnswer(line, session) BY <1>3, <1>4 DEF RAnswer
  <2> HIDE DEF fresh
  <2> QED BY <1>1, <2>1, IdealForR
<1>5. Settled => unchanged >= Lifetime BY CompleterAssumption DEF Settled, WorldInv, Oldest
<1>6. CASE failed
  <2>1. cache' = Nothing /\ fuzzyCache' = Nothing /\ UNCHANGED filledFor
    BY <1>2, <1>6 DEF invalidate_cache
  <2>2. Answer(line, "R", TRUE, {}) BY <1>2, <1>6
  <2>3. OfferInv' BY <2>2, OfferMade
  <2>4. CacheInv' /\ FuzzyInv' BY <2>1 DEF CacheInv, FuzzyInv
  <2> QED BY <1>1, <1>3, <2>3, <2>4, CachesStay
<1>7. CASE ~failed
  <2>1. /\ Remember(line, fresh(cut), cut) /\ Answer(line, "R", cut, made(cut))
        /\ UNCHANGED fuzzyCache
    BY <1>2, <1>7
  <2> HIDE DEF fresh, made
  <2>2. OfferInv' BY <1>4, <1>5, <2>1, OfferMade
  <2>3. CacheInv'
    <3>1. CASE UNCHANGED <<cache, filledFor>> BY <3>1, CachesStay
    <3>2. CASE /\ fresh(cut) # {} /\ line.token # <<>>
               /\ cache' = [token |-> line.token, completions |-> fresh(cut), age |-> 0]
               /\ filledFor' = [scope |-> line.scope, now |-> unchanged >= Lifetime /\ ~cut]
      <4>1. /\ cache'.token = line.token /\ cache'.completions = fresh(cut) /\ cache'.age = 0
            /\ filledFor'.scope = line.scope
        BY <3>2
      <4>2. filledFor'.now = (unchanged >= Lifetime /\ ~cut) BY <3>2
      <4>3. filledFor'.now = TRUE => unchanged >= Lifetime /\ ~cut BY <4>2
      <4>4. RAnswer([scope |-> line.scope, token |-> line.token], session) = RAnswer(line, session)
        BY DEF RAnswer, detect_library_context, get_r_builtin_completions,
               detect_namespace_context, StartingWith
      <4>5. line.token \in Seq(Marks) /\ Debounce \in Nat BY CompleterAssumption
      <4>6. filledFor'.now = TRUE =>
              cache'.completions
                = RAnswer([scope |-> filledFor'.scope, token |-> cache'.token], session')
        BY <1>4, <4>1, <4>3, <4>4
      <4>7. /\ cache' = [token |-> cache'.token, completions |-> cache'.completions,
                         age |-> cache'.age]
            /\ filledFor' = [scope |-> filledFor'.scope, now |-> filledFor'.now]
        BY <3>2
      <4>8. /\ cache'.age \in 0..Debounce /\ cache'.completions # {}
            /\ cache'.token \in Seq(Marks) /\ cache'.token # <<>>
        BY <3>2, <4>1, <4>5
      <4> QED BY <4>6, <4>7, <4>8 DEF CacheInv
    <3> QED BY <2>1, <3>1, <3>2 DEF Remember
  <2> QED BY <1>1, <1>3, <2>1, <2>2, <2>3, CachesStay
<1> QED BY <1>6, <1>7

LEMMA CompleteStep ==
  ASSUME CompleterInv, complete
  PROVE  CompleterInv'
<1>1. UNCHANGED <<settings, session, unchanged>> BY DEF complete
<1>2. PICK line \in Lines :
        \/ CompletePath(line) \/ CompleteProgram(line)
        \/ complete_namespace_fuzzy(line) \/ complete_library_fuzzy(line)
        \/ CompleteFromCache(line) \/ CompleteFromR(line)
  BY DEF complete
<1> QED BY <1>1, <1>2, PathStep, ProgramStep, NamespaceStep, LibraryStep, CacheStep, RStep

-----------------------------------------------------------------------------
(* Between the requests.                                                   *)

LEMMA ChangeStep ==
  ASSUME CompleterInv, SessionChanges
  PROVE  CompleterInv'
<1> USE DEF CompleterInv, SessionChanges
<1>1. Lifetime \in Nat \ {0} /\ Debounce \in Nat /\ Oldest \in Nat
  BY CompleterAssumption DEF Oldest
<1>2. WorldInv' BY <1>1 DEF WorldInv
<1>3. \A age \in Nat : ~(age < Lifetime /\ age < unchanged') BY <1>1
<1>4. PackagesInv' BY <1>1, <1>3 DEF PackagesInv, ReadSince
<1>5. ExportsInv' BY <1>1, <1>3 DEF ExportsInv, ReadSince
<1>6. FuzzyInv' BY <1>1 DEF FuzzyInv
<1>7. CacheInv'
  <2>1. filledFor'.now = FALSE /\ filledFor' = [scope |-> filledFor'.scope, now |-> filledFor'.now]
    BY DEF CacheInv
  <2> QED BY <2>1 DEF CacheInv
<1>8. OfferInv' BY DEF OfferInv
<1> QED BY <1>2, <1>4, <1>5, <1>6, <1>7, <1>8

\* A tick makes everything older by one, and the session at most.
LEMMA WaitStep ==
  ASSUME CompleterInv, PromptWaits
  PROVE  CompleterInv'
<1> USE DEF CompleterInv
<1>1. /\ unchanged' = IF unchanged = Oldest THEN Oldest ELSE unchanged + 1
      /\ cache' = Older(cache, Debounce) /\ fuzzyCache' = Older(fuzzyCache, Debounce)
      /\ exportsOf' = [k \in DOMAIN exportsOf |-> Older(exportsOf[k], Lifetime)]
      /\ packageCache' = Older(packageCache, Lifetime)
      /\ UNCHANGED <<settings, session, filledFor, offered>> /\ offered = Nothing
  BY DEF PromptWaits
<1>2. Lifetime \in Nat \ {0} /\ Debounce \in Nat /\ Oldest \in Nat
  BY CompleterAssumption DEF Oldest
<1>3. unchanged \in 0..Oldest /\ unchanged' \in 0..Oldest /\ unchanged' <= unchanged + 1
  BY <1>1, <1>2 DEF WorldInv
<1>4. WorldInv' BY <1>1, <1>3 DEF WorldInv
<1>5. ASSUME NEW age \in 0..Lifetime, age # Lifetime, age + 1 < Lifetime, age + 1 < unchanged'
      PROVE  ReadSince(age)
  BY <1>2, <1>3, <1>5 DEF ReadSince
<1>6. PackagesInv'
  <2>1. CASE UNCHANGED packageCache /\ (packageCache = Nothing \/ packageCache.age = Lifetime)
    BY <1>1, <1>2, <2>1 DEF PackagesInv, ReadSince
  <2>2. CASE /\ packageCache # Nothing /\ packageCache.age # Lifetime
             /\ packageCache' = [packageCache EXCEPT !.age = @ + 1]
    <3>1. packageCache = [packages |-> packageCache.packages, age |-> packageCache.age]
            /\ packageCache.age \in 0..Lifetime
      BY <2>2 DEF PackagesInv
    <3>2. packageCache' = [packages |-> packageCache.packages, age |-> packageCache.age + 1]
      BY <2>2, <3>1
    <3>3. packageCache'.packages = packageCache.packages /\ packageCache'.age = packageCache.age + 1
      BY <3>2
    <3>4. packageCache'.age < Lifetime /\ packageCache'.age < unchanged'
            => ReadSince(packageCache.age)
      BY <1>5, <2>2, <3>1, <3>3
    <3> QED BY <1>1, <1>2, <2>2, <3>1, <3>2, <3>3, <3>4 DEF PackagesInv, ReadSince
  <2> QED BY <1>1, <2>1, <2>2 DEF Older
<1>7. ExportsInv'
  <2>1. exportsOf' = [k \in NamespaceKeys |-> Older(exportsOf[k], Lifetime)]
    BY <1>1 DEF ExportsInv
  <2>2. exportsOf' = [k \in NamespaceKeys |-> exportsOf'[k]] BY <2>1
  <2>3. ASSUME NEW k \in NamespaceKeys, exportsOf'[k] # Nothing
        PROVE  /\ exportsOf'[k] = [exports |-> exportsOf'[k].exports, age |-> exportsOf'[k].age]
               /\ exportsOf'[k].age \in 0..Lifetime
               /\ exportsOf'[k].age < Lifetime /\ exportsOf'[k].age < unchanged'
                    => exportsOf'[k].exports = ExportsIn(session, k)
    <3> DEFINE e == exportsOf[k]
    <3>1. exportsOf'[k] = Older(e, Lifetime) BY <2>1
    <3>2. e # Nothing BY <2>3, <3>1 DEF Older
    <3>3. /\ e = [exports |-> e.exports, age |-> e.age] /\ e.age \in 0..Lifetime
          /\ ReadSince(e.age) => e.exports = ExportsIn(session, k)
      BY <3>2 DEF ExportsInv
    <3>4. CASE e.age = Lifetime
      <4>1. exportsOf'[k] = e BY <3>1, <3>4 DEF Older
      <4> QED BY <1>2, <3>3, <3>4, <4>1 DEF ReadSince
    <3>5. CASE e.age # Lifetime
      <4>1. exportsOf'[k] = [e EXCEPT !.age = @ + 1] BY <3>1, <3>2, <3>5 DEF Older
      <4> HIDE DEF e
      <4>2. exportsOf'[k] = [exports |-> e.exports, age |-> e.age + 1] BY <3>3, <4>1
      <4>3. exportsOf'[k].exports = e.exports /\ exportsOf'[k].age = e.age + 1 BY <4>2
      <4>4. exportsOf'[k].age < Lifetime /\ exportsOf'[k].age < unchanged'
              => ReadSince(e.age)
        BY <1>5, <3>3, <3>5, <4>3
      <4> QED BY <1>2, <3>3, <3>5, <4>2, <4>3, <4>4
    <3> QED BY <3>4, <3>5
  <2> QED BY <1>1, <2>2, <2>3 DEF ExportsInv, ReadSince
<1>8. FuzzyInv'
  <2>1. CASE UNCHANGED fuzzyCache /\ (fuzzyCache = Nothing \/ fuzzyCache.age = Debounce)
    BY <1>1, <1>2, <2>1 DEF FuzzyInv
  <2>2. CASE /\ fuzzyCache # Nothing /\ fuzzyCache.age # Debounce
             /\ fuzzyCache' = [fuzzyCache EXCEPT !.age = @ + 1]
    <3>1. fuzzyCache = [line |-> fuzzyCache.line, suggestions |-> fuzzyCache.suggestions,
                        age |-> fuzzyCache.age]
            /\ fuzzyCache.age \in 0..Debounce
      BY <2>2 DEF FuzzyInv
    <3>2. fuzzyCache' = [line |-> fuzzyCache.line, suggestions |-> fuzzyCache.suggestions,
                         age |-> fuzzyCache.age + 1]
      BY <2>2, <3>1
    <3>3. /\ fuzzyCache'.line = fuzzyCache.line /\ fuzzyCache'.suggestions = fuzzyCache.suggestions
          /\ fuzzyCache'.age = fuzzyCache.age + 1
      BY <3>2
    <3>4. fuzzyCache'.age < Debounce /\ fuzzyCache'.age + Lifetime <= unchanged'
            => fuzzyCache.age < Debounce /\ fuzzyCache.age + Lifetime <= unchanged
      BY <1>2, <1>3, <3>1, <3>3
    <3>5. fuzzyCache'.age \in 0..Debounce BY <1>2, <2>2, <3>1, <3>3
    <3> QED BY <1>1, <2>2, <3>2, <3>3, <3>4, <3>5 DEF FuzzyInv
  <2> QED BY <1>1, <2>1, <2>2 DEF Older
<1>9. CacheInv'
  <2>1. CASE UNCHANGED cache BY <1>1, <2>1 DEF CacheInv
  <2>2. CASE cache # Nothing /\ cache.age # Debounce /\ cache' = [cache EXCEPT !.age = @ + 1]
    <3>1. cache = [token |-> cache.token, completions |-> cache.completions, age |-> cache.age]
            /\ cache.age \in 0..Debounce
      BY <2>2 DEF CacheInv
    <3>2. cache' = [token |-> cache.token, completions |-> cache.completions, age |-> cache.age + 1]
      BY <2>2, <3>1
    <3>3. /\ cache'.token = cache.token /\ cache'.completions = cache.completions
          /\ cache'.age = cache.age + 1
      BY <3>2
    <3>4. cache'.age \in 0..Debounce BY <1>2, <2>2, <3>1, <3>3
    <3> QED BY <1>1, <2>2, <3>2, <3>3, <3>4 DEF CacheInv
  <2> QED BY <1>1, <2>1, <2>2 DEF Older
<1>10. OfferInv' BY <1>1 DEF OfferInv
<1> QED BY <1>4, <1>6, <1>7, <1>8, <1>9, <1>10

LEMMA CompleterStep ==
  ASSUME CompleterInv, [CompleterNext]_completerVars
  PROVE  CompleterInv'
<1>1. CASE complete BY <1>1, CompleteStep
<1>2. CASE TakeOffer
  <2>1. OfferInv' BY <1>2 DEF TakeOffer, OfferInv
  <2> QED BY <1>2, <2>1, CachesStay DEF TakeOffer, CompleterInv
<1>3. CASE SessionChanges BY <1>3, ChangeStep
<1>4. CASE PromptWaits BY <1>4, WaitStep
<1>5. CASE UNCHANGED completerVars
  <2>1. UNCHANGED <<settings, session, unchanged, cache, filledFor, exportsOf, fuzzyCache,
                    packageCache, offered>>
    BY <1>5 DEF completerVars
  <2>2. OfferInv' BY <2>1 DEF CompleterInv, OfferInv, Settled
  <2> QED BY <2>1, <2>2, CachesStay DEF CompleterInv
<1> QED BY <1>1, <1>2, <1>3, <1>4, <1>5 DEF CompleterNext

THEOREM CompleterInvariant == CompleterSpec => []CompleterInv
BY CompleterBegins, CompleterStep, PTL DEF CompleterSpec

\* The four caches hold entries of the ages they may have, none empty, of sessions, lines and
\* settings that there are.
THEOREM CompleterTypeCorrect == CompleterSpec => []CompleterTypeOK
<1>1. CompleterInv => CompleterTypeOK
  BY DEF CompleterInv, CompleterTypeOK, WorldInv, PackagesInv, ExportsInv, CacheInv
<1> QED BY <1>1, CompleterInvariant, PTL

\* Whatever was asked, changed and failed in whatever order: once the session has stayed as it
\* is for as long as the oldest answer may be kept, Tab offers what R and the disk would offer
\* now (RCompleter::complete and its caches).
THEOREM CompleterCatchesUp == CompleterSpec => []CatchesUp
<1>1. CompleterInv => CatchesUp
  <2> SUFFICES ASSUME CompleterInv, offered # Nothing, ~offered.cut,
                      offered.line.scope # "program", Settled,
                      offered.from = "cache" =>
                        filledFor = [scope |-> offered.line.scope, now |-> TRUE]
               PROVE  offered.suggestions = Ideal(offered.line, session)
    BY DEF CatchesUp, Settled
  <2>1. offered.suggestions = IdealAt(settings, offered.line, session)
    BY DEF CompleterInv, OfferInv
  <2>2. offered.line \in Lines /\ session \in Sessions BY DEF CompleterInv, OfferInv, WorldInv
  <2> QED BY <2>1, <2>2, IdealIs
<1> QED BY <1>1, CompleterInvariant, PTL
-----------------------------------------------------------------------------
(* The screens (Pager).                                                    *)

\* A terminal with room for a line between header and footer, and texts that have one.
Readable == \A s \in TerminalSizes : s.rows > 2 /\ WrappedLines[s.cols] > 0

LEMMA LeastOfTwo ==
  ASSUME NEW a \in Int, NEW b \in Int
  PROVE  Min({a, b}) \in {a, b} /\ Min({a, b}) <= a /\ Min({a, b}) <= b
<1>1. \E x \in {a, b} : \A y \in {a, b} : x =< y
  <2>1. CASE a <= b BY <2>1
  <2>2. CASE b <= a BY <2>2
  <2> QED BY <2>1, <2>2
<1> QED BY <1>1 DEF Min

LEMMA GreatestOfTwo ==
  ASSUME NEW a \in Int, NEW b \in Int
  PROVE  Max({a, b}) \in {a, b} /\ Max({a, b}) >= a /\ Max({a, b}) >= b
<1>1. \E x \in {a, b} : \A y \in {a, b} : x >= y
  <2>1. CASE a >= b BY <2>1
  <2>2. CASE b >= a BY <2>2
  <2> QED BY <2>1, <2>2
<1> QED BY <1>1 DEF Max

LEMMA SameGreatest ==
  ASSUME NEW S, NEW T,
         \A x : (x \in S /\ \A y \in S : x >= y) <=> (x \in T /\ \A y \in T : x >= y)
  PROVE  Max(S) = Max(T)
BY DEF Max

Fences(from, to) == {i \in from..to : SchemaLines[i] \in {"sql", "r", "end"}}

\* The style after some lines and then some more is that after all of them: the last
\* fence is the last of the later lines if they have one.
LEMMA StyleGoesOn ==
  ASSUME NEW style, NEW a \in Nat, NEW b \in Nat, NEW c \in Nat, a <= b + 1, b <= c
  PROVE  StyleAfter(StyleAfter(style, a, b), b + 1, c) = StyleAfter(style, a, c)
<1> DEFINE F == Fences(a, b)
           G == Fences(b + 1, c)
           H == Fences(a, c)
<1>1. H = F \cup G BY DEF Fences
<1>2. \A x \in F : x \in Int /\ x <= b BY DEF Fences
<1>3. \A x \in G : x \in Int /\ x > b BY DEF Fences
<1>4. /\ \A s : StyleAfter(s, a, b) = IF F = {} THEN s ELSE SchemaLines[Max(F)]
      /\ \A s : StyleAfter(s, b + 1, c) = IF G = {} THEN s ELSE SchemaLines[Max(G)]
      /\ StyleAfter(style, a, c) = IF H = {} THEN style ELSE SchemaLines[Max(H)]
  BY DEF StyleAfter, Fences
<1> HIDE DEF F, G, H
<1>5. CASE G = {} BY <1>1, <1>4, <1>5
<1>6. CASE G # {}
  <2>1. PICK g \in G : TRUE BY <1>6
  <2>2. \A x : (x \in H /\ \A y \in H : x >= y) <=> (x \in G /\ \A y \in G : x >= y)
    <3>1. ASSUME NEW x \in H, \A y \in H : x >= y PROVE x \in G /\ \A y \in G : x >= y
      BY <1>1, <1>2, <1>3, <2>1, <3>1
    <3>2. ASSUME NEW x \in G, \A y \in G : x >= y PROVE x \in H /\ \A y \in H : x >= y
      BY <1>1, <1>2, <1>3, <3>2
    <3> QED BY <3>1, <3>2
  <2>3. Max(H) = Max(G) BY <2>2, SameGreatest
  <2> QED BY <1>1, <1>4, <1>6, <2>3
<1> QED BY <1>5, <1>6

-----------------------------------------------------------------------------
(* The list of topics.                                                     *)

LEMMA QueryOf ==
  ASSUME NEW q \in Seq(Letters), Len(q) <= MaxQuery
  PROVE  q \in TopicQueries
<1>1. Len(q) \in 0..MaxQuery /\ q \in [1..Len(q) -> Letters]
  BY LenProperties, PagerAssumption
<1> QED BY <1>1 DEF TopicQueries

LEMMA QueryParts ==
  ASSUME NEW q \in TopicQueries
  PROVE  q \in Seq(Letters) /\ Len(q) \in Nat /\ Len(q) <= MaxQuery
<1>1. PICK n \in 0..MaxQuery : q \in [1..n -> Letters] BY DEF TopicQueries
<1>2. n \in Nat /\ n <= MaxQuery BY <1>1, PagerAssumption
<1>3. q \in Seq(Letters) BY <1>1, <1>2
<1>4. Len(q) = n BY <1>1, <1>2, <1>3, LenProperties
<1> QED BY <1>2, <1>3, <1>4

LEMMA FoundMatches ==
  ASSUME NEW q \in TopicQueries
  PROVE  LET found == TopicsFound[q]
         IN found \in Seq(DOMAIN Topics) /\ \A i \in DOMAIN found : Finds(q, Topics[found[i]].name)
<1> DEFINE S == {i \in DOMAIN Topics : Finds(q, Topics[i].name)}
           n == Cardinality(S)
           found == SetToSeq(S)
<1>1. IsFiniteSet(S)
  <2>1. IsFiniteSet(DOMAIN Topics) BY FS_Interval, PagerAssumption
  <2> QED BY <2>1, FS_Subset
<1>2. n \in Nat /\ ExistsBijection(1..n, S) BY <1>1, FS_CardinalityType
<1>3. TopicsFound[q] = found BY DEF TopicsFound
<1>4. \A i \in S : i \in DOMAIN Topics /\ Finds(q, Topics[i].name) OBVIOUS
<1> HIDE DEF S
<1>5. \E f \in [1..n -> S] : IsInjective(f)
  <2>1. PICK f \in Bijection(1..n, S) : TRUE BY <1>2 DEF ExistsBijection
  <2>2. f \in [1..n -> S] /\ \A i, j \in 1..n : f[i] = f[j] => i = j
    BY <2>1 DEF Bijection, Injection, IsInjective
  <2> QED BY <2>2 DEF IsInjective
<1>6. found \in [1..n -> S] BY <1>5 DEF SetToSeq
<1> HIDE DEF found, n
<1>7. found \in Seq(S) /\ DOMAIN found = 1..n BY <1>2, <1>6
<1>8. found \in Seq(DOMAIN Topics) BY <1>4, <1>7, SeqMonotonic
<1> QED BY <1>3, <1>4, <1>6, <1>7, <1>8

LEMMA ShownMatches ==
  ASSUME NEW q \in TopicQueries
  PROVE  /\ TopicsShown(q) \in Seq(DOMAIN Topics)
         /\ \A i \in DOMAIN TopicsShown(q) : Finds(q, Topics[TopicsShown(q)[i]].name)
<1> DEFINE found == TopicsFound[q]
           n == Min({Len(found), MaxFiltered})
<1>1. /\ found \in Seq(DOMAIN Topics)
      /\ \A i \in DOMAIN found : Finds(q, Topics[found[i]].name)
  BY FoundMatches
<1>2. Len(found) \in Nat /\ DOMAIN found = 1..Len(found) BY <1>1, LenProperties
<1>4. TopicsShown(q) = SubSeq(found, 1, n) BY DEF TopicsShown
<1> HIDE DEF found
<1>3. n \in Nat /\ n <= Len(found)
  <2>1. Len(found) \in Int /\ MaxFiltered \in Int BY <1>2, PagerAssumption
  <2>2. n \in {Len(found), MaxFiltered} /\ n <= Len(found) BY <2>1, LeastOfTwo
  <2> QED BY <1>2, <2>2, PagerAssumption
<1> HIDE DEF n
<1>5. \A i \in 1..n : found[i] \in DOMAIN Topics BY <1>1, <1>2, <1>3, ElementOfSeq
<1>6. /\ TopicsShown(q) \in Seq(DOMAIN Topics) /\ Len(TopicsShown(q)) = n
      /\ \A i \in 1..n : TopicsShown(q)[i] = found[i]
  <2>1. /\ SubSeq(found, 1, n) \in Seq(DOMAIN Topics)
        /\ Len(SubSeq(found, 1, n)) = IF 1 <= n THEN n - 1 + 1 ELSE 0
        /\ \A i \in 1..(n - 1 + 1) : SubSeq(found, 1, n)[i] = found[1 + i - 1]
    BY <1>3, <1>5, SubSeqProperties
  <2> QED BY <1>3, <1>4, <2>1
<1>7. DOMAIN TopicsShown(q) = 1..n BY <1>6, LenProperties
<1> QED BY <1>1, <1>2, <1>3, <1>6, <1>7

LEMMA RowsVisible ==
  ASSUME NEW rows \in Nat
  PROVE  Max({Less(rows, 5), 3}) \in Nat /\ Max({Less(rows, 5), 3}) >= 3
           /\ \A more \in Nat : more >= rows => Max({Less(more, 5), 3}) >= Max({Less(rows, 5), 3})
<1>1. \A r \in Nat : Less(r, 5) \in Nat BY DEF Less
<1>2. \A r \in Nat : /\ Max({Less(r, 5), 3}) \in {Less(r, 5), 3}
                     /\ Max({Less(r, 5), 3}) >= Less(r, 5) /\ Max({Less(r, 5), 3}) >= 3
  BY <1>1, GreatestOfTwo
<1>3. \A more \in Nat : more >= rows => Less(more, 5) >= Less(rows, 5) BY DEF Less
<1> QED BY <1>1, <1>2, <1>3

-----------------------------------------------------------------------------
(* The state.                                                              *)

Sized == pSize \in TerminalSizes /\ hSmall \in BOOLEAN /\ hLost \in BOOLEAN /\ pResized \in BOOLEAN

ScreenInv ==
  /\ pScreen \in Texts \cup {"prompt", "browser", "gone"} /\ pNested \in BOOLEAN
  /\ Sized

ListInv ==
  /\ hQuery \in Seq(Letters) /\ Len(hQuery) <= MaxQuery /\ hFiltered \in Seq(DOMAIN Topics)
  /\ hCursor \in Nat /\ hSelected \in Nat /\ hScroll \in Nat
  /\ ListHolds

\* Where the pager is, although the keys go by the size of the last event, and what is
\* drawn by that of the terminal.
PageInv ==
  /\ pScroll \in Nat
  /\ pRows \in {s.rows : s \in TerminalSizes} /\ pWidth \in {s.cols : s \in TerminalSizes}
  /\ InPager => pScroll < line_count(pScreen, pWidth) /\ PageHolds

PagerInv == ScreenInv /\ ListInv /\ PageInv

LEMMA SizeFacts ==
  ASSUME Readable, NEW s \in TerminalSizes
  PROVE  /\ s.rows \in Nat /\ s.rows > 2 /\ s.cols \in Nat
         /\ \A text \in Texts : line_count(text, s.cols) \in Nat \ {0}
<1>1. \A text \in Texts : line_count(text, s.cols) \in {WrappedLines[s.cols], Len(SchemaLines)}
  BY DEF line_count
<1> QED BY <1>1, PagerAssumption DEF Readable

LEMMA PagerBegins ==
  ASSUME Readable, PagerInit
  PROVE  PagerInv
<1> USE DEF PagerInit
<1>1. /\ hQuery \in TopicQueries
      /\ hQuery \in Seq(Letters) /\ Len(hQuery) \in Nat /\ Len(hQuery) <= MaxQuery
  <2>1. <<>> \in Seq(Letters) /\ Len(<<>>) = 0 BY EmptySeq
  <2>2. Len(<<>>) <= MaxQuery BY <2>1, PagerAssumption
  <2>3. <<>> \in TopicQueries BY <2>1, <2>2, QueryOf
  <2>4. hQuery \in TopicQueries BY <2>3
  <2> QED BY <2>4, QueryParts
<1>2. hFiltered \in Seq(DOMAIN Topics)
        /\ \A i \in DOMAIN hFiltered : Finds(hQuery, Topics[hFiltered[i]].name)
  BY <1>1, ShownMatches
<1>3. Len(hFiltered) \in Nat BY <1>2, LenProperties
<1>4. 0 < Max({Len(hFiltered), 1})
  <2> DEFINE n == Len(hFiltered)
  <2>1. n \in Int /\ 1 \in Int BY <1>3
  <2> HIDE DEF n
  <2>2. Max({n, 1}) \in {n, 1} /\ Max({n, 1}) >= 1 BY <2>1, GreatestOfTwo
  <2> QED BY <2>1, <2>2 DEF n
<1>5. visible_result_rows \in Nat /\ visible_result_rows >= 3
  BY RowsVisible, PagerAssumption DEF visible_result_rows
<1>6. ListInv BY <1>1, <1>2, <1>4, <1>5, PagerAssumption DEF ListInv, ListHolds
<1>7. ScreenInv BY DEF ScreenInv, Sized, too_small_now, Texts
<1>8. PageInv BY DEF PageInv, InPager, Texts
<1> QED BY <1>6, <1>7, <1>8 DEF PagerInv

-----------------------------------------------------------------------------
(* The steps of the pager.                                                 *)

\* A frame of a page that is not scrolled past its end.
LEMMA DrawHolds ==
  ASSUME Readable, NEW text \in Texts, NEW scroll \in Nat, NEW wide,
         wide \in {s.cols : s \in TerminalSizes}, pSize \in TerminalSizes,
         scroll < line_count(text, wide), Draw(text, scroll, wide)
  PROVE  /\ pDrawn' # <<>>
         /\ \A i \in DOMAIN pDrawn' :
              /\ pDrawn'[i].line <= line_count(text, wide)
              /\ text = "schema" => pDrawn'[i].style = StyleAfter("end", 1, pDrawn'[i].line - 1)
<1> DEFINE last  == line_count(text, wide)
           room  == content_rows_with_height(pSize.rows)
           seen  == IF last > scroll + room THEN room ELSE Less(last, scroll)
           first == StyleAfter("end", 1, scroll)
           style(i) == IF text = "schema" THEN StyleAfter(first, scroll + 1, scroll + i - 1) ELSE "end"
<1>1. pDrawn' = [i \in 1..seen |-> [line |-> scroll + i, style |-> style(i)]]
  BY DEF Draw, prepare_render
<1>2. last \in Nat \ {0} BY SizeFacts
<1>3. pSize.rows \in Nat /\ pSize.rows > 2 BY SizeFacts
<1>4. room \in Nat /\ room > 0 BY <1>3 DEF content_rows_with_height, Less
<1> HIDE DEF last, room
<1>5. scroll < last BY DEF last
<1>6. seen \in Nat /\ seen > 0 /\ scroll + seen <= last BY <1>2, <1>4, <1>5 DEF Less
<1> HIDE DEF seen
<1>7. ASSUME NEW i \in 1..seen
      PROVE  /\ pDrawn'[i].line <= last
             /\ text = "schema" => pDrawn'[i].style = StyleAfter("end", 1, pDrawn'[i].line - 1)
  <2>1. pDrawn'[i] = [line |-> scroll + i, style |-> style(i)] BY <1>1
  <2>2. pDrawn'[i].line = scroll + i /\ pDrawn'[i].style = style(i) BY <2>1
  <2>3. ASSUME text = "schema" PROVE style(i) = StyleAfter("end", 1, scroll + i - 1)
    <3>1. scroll + i - 1 \in Nat /\ scroll <= scroll + i - 1 BY <1>6
    <3>2. StyleAfter(first, scroll + 1, scroll + i - 1) = StyleAfter("end", 1, scroll + i - 1)
      BY <3>1, StyleGoesOn
    <3> QED BY <2>3, <3>2
  <2>4. scroll + i <= last BY <1>2, <1>6
  <2> QED BY <2>2, <2>3, <2>4
<1>8. DOMAIN pDrawn' = 1..seen BY <1>1
<1>9. pDrawn' # <<>> BY <1>6, <1>8
<1> QED BY <1>7, <1>8, <1>9 DEF last

LEMMA PageDrawn ==
  ASSUME Readable, ScreenInv, NEW text \in Texts, pScreen' = text,
         NEW scroll \in Nat, NEW wide \in {s.cols : s \in TerminalSizes},
         scroll < line_count(text, wide), Draw(text, scroll, wide),
         pScroll' = scroll, pWidth' = wide, pRows' \in {s.rows : s \in TerminalSizes},
         ~pResized' /\ text \in Wrapped => wide = pSize'.cols
  PROVE  PageInv'
<1>1. pSize \in TerminalSizes BY DEF ScreenInv, Sized
<1>2. /\ pDrawn' # <<>>
      /\ \A i \in DOMAIN pDrawn' :
           /\ pDrawn'[i].line <= line_count(text, wide)
           /\ text = "schema" => pDrawn'[i].style = StyleAfter("end", 1, pDrawn'[i].line - 1)
  BY <1>1, DrawHolds
<1>3. PageHolds' BY <1>2 DEF PageHolds
<1> QED BY <1>3 DEF PageInv, InPager

LEMMA PageOpened ==
  ASSUME Readable, ScreenInv, NEW text \in Texts, OpenText(text), UNCHANGED pSize
  PROVE  PageInv'
<1>1. /\ pScreen' = text /\ pScroll' = 0 /\ pRows' = pSize.rows /\ pWidth' = pSize.cols
      /\ Draw(text, 0, pSize.cols)
  BY DEF OpenText
<1>2. pSize \in TerminalSizes BY DEF ScreenInv, Sized
<1>3. 0 < line_count(text, pSize.cols) BY <1>2, SizeFacts
<1>4. /\ pSize.cols \in {s.cols : s \in TerminalSizes} /\ pSize.rows \in {s.rows : s \in TerminalSizes}
  BY <1>2
<1> QED BY <1>1, <1>3, <1>4, PageDrawn

LEMMA PageScrolled ==
  ASSUME Readable, PagerInv, InPager, NEW to \in Nat, to < line_count(pScreen, pWidth), Scroll(to)
  PROVE  PagerInv'
<1> USE DEF PagerInv
<1>1. /\ pScroll' = to /\ Draw(pScreen, to, pWidth)
      /\ UNCHANGED <<pScreen, pNested, pSize, pResized, pRows, pWidth, helpVars>>
  BY DEF Scroll
<1>2. pScreen \in Texts BY DEF InPager
<1>3. /\ pWidth \in {s.cols : s \in TerminalSizes} /\ pRows' \in {s.rows : s \in TerminalSizes}
      /\ ~pResized' /\ pScreen \in Wrapped => pWidth = pSize'.cols
  BY <1>1 DEF PageInv, PageHolds
<1>4. PageInv' BY <1>1, <1>2, <1>3, PageDrawn
<1>5. ScreenInv' BY <1>1 DEF ScreenInv, Sized, helpVars
<1>6. ListInv' BY <1>1 DEF ListInv, ListHolds, helpVars, visible_result_rows
<1> QED BY <1>4, <1>5, <1>6

LEMMA MovesStep ==
  ASSUME Readable, PagerInv, PagerMoves
  PROVE  PagerInv'
<1> DEFINE last == line_count(pScreen, pWidth)
           most == max_scroll_offset_with_height(last, pRows)
           page == content_rows_with_height(pRows)
<1>1. InPager /\ pScroll \in Nat /\ pScroll < last BY DEF PagerMoves, PagerInv, PageInv
<1>2. last \in Nat \ {0} /\ pRows \in Nat /\ pRows > 2
  <2>1. pScreen \in Texts BY <1>1 DEF InPager
  <2>2. pRows \in {s.rows : s \in TerminalSizes} /\ pWidth \in {s.cols : s \in TerminalSizes}
    BY DEF PagerInv, PageInv
  <2> QED BY <2>1, <2>2, SizeFacts
<1>3. \/ Scroll(Less(pScroll, 1))
      \/ Scroll(IF pScroll < most THEN pScroll + 1 ELSE pScroll)
      \/ Scroll(Less(pScroll, page))
      \/ Scroll(Min({pScroll + page, most}))
      \/ Scroll(0) \/ Scroll(most) \/ Scroll(pScroll)
  BY DEF PagerMoves
<1> HIDE DEF last
<1>4. page \in Nat /\ page > 0 BY <1>2 DEF content_rows_with_height, Less
<1>5. most \in Nat /\ most < last
  <2>1. most = Less(last, page) BY DEF max_scroll_offset_with_height
  <2> HIDE DEF most, page
  <2> QED BY <1>2, <1>4, <2>1 DEF Less
<1> HIDE DEF most, page
<1>6. \A m, n \in Nat : Less(m, n) \in Nat /\ Less(m, n) <= m BY DEF Less
<1>7. Min({pScroll + page, most}) \in {pScroll + page, most} /\ Min({pScroll + page, most}) <= most
  <2>1. pScroll + page \in Int /\ most \in Int BY <1>1, <1>4, <1>5
  <2> QED BY <2>1, LeastOfTwo
<1>8. \A to \in Nat : to < last /\ Scroll(to) => PagerInv' BY <1>1, PageScrolled DEF last
<1>9. CASE Scroll(Less(pScroll, 1))
  <2>1. Less(pScroll, 1) \in Nat /\ Less(pScroll, 1) < last BY <1>1, <1>2, <1>6
  <2> QED BY <1>8, <1>9, <2>1
<1>10. CASE Scroll(IF pScroll < most THEN pScroll + 1 ELSE pScroll)
  <2>1. CASE pScroll < most
    <3>1. pScroll + 1 \in Nat /\ pScroll + 1 < last BY <1>1, <1>2, <1>5, <2>1
    <3>2. Scroll(pScroll + 1) BY <1>10, <2>1
    <3> QED BY <1>8, <3>1, <3>2
  <2>2. CASE ~(pScroll < most)
    <3>1. Scroll(pScroll) BY <1>10, <2>2
    <3> QED BY <1>1, <1>8, <3>1
  <2> QED BY <2>1, <2>2
<1>11. CASE Scroll(Less(pScroll, page))
  <2>1. Less(pScroll, page) \in Nat /\ Less(pScroll, page) < last BY <1>1, <1>2, <1>4, <1>6
  <2> QED BY <1>8, <1>11, <2>1
<1>12. CASE Scroll(Min({pScroll + page, most}))
  <2>1. Min({pScroll + page, most}) \in Nat /\ Min({pScroll + page, most}) < last
    BY <1>1, <1>2, <1>4, <1>5, <1>7
  <2> QED BY <1>8, <1>12, <2>1
<1>13. CASE Scroll(0) BY <1>2, <1>8, <1>13
<1>14. CASE Scroll(most) BY <1>5, <1>8, <1>14
<1>15. CASE Scroll(pScroll) BY <1>1, <1>8, <1>15
<1> QED BY <1>3, <1>9, <1>10, <1>11, <1>12, <1>13, <1>14, <1>15

LEMMA ResizeStep ==
  ASSUME Readable, PagerInv, PagerHearsOfSize
  PROVE  PagerInv'
<1> USE DEF PagerInv
<1> DEFINE anew == pScreen \in Wrapped /\ pWidth # pSize.cols
           wide == IF anew THEN pSize.cols ELSE pWidth
           last == line_count(pScreen, wide)
           most == max_scroll_offset_with_height(last, pSize.rows)
           scroll == IF anew THEN Min({pScroll, most}) ELSE pScroll
<1>1. /\ InPager /\ pResized' = FALSE
      /\ pRows' = pSize.rows /\ pWidth' = wide /\ pScroll' = scroll
      /\ Draw(pScreen, scroll, wide)
      /\ UNCHANGED <<pScreen, pNested, pSize, helpVars>>
  BY DEF PagerHearsOfSize
<1>2. pScreen \in Texts /\ pSize \in TerminalSizes BY <1>1 DEF InPager, ScreenInv, Sized
<1>3. wide \in {s.cols : s \in TerminalSizes} BY <1>2 DEF PageInv
<1>4. pSize.rows \in Nat /\ pSize.rows > 2 BY <1>2, SizeFacts
<1>5. last \in Nat \ {0}
  <2> HIDE DEF wide
  <2> QED BY <1>2, <1>3, SizeFacts
<1>6. most \in Nat /\ most < last
  <2> HIDE DEF last
  <2> QED BY <1>4, <1>5 DEF max_scroll_offset_with_height, content_rows_with_height, Less
<1>7. scroll \in Nat /\ scroll < last
  <2>1. CASE anew
    <3>1. pScroll \in Nat BY DEF PageInv
    <3> HIDE DEF most
    <3>2. Min({pScroll, most}) \in {pScroll, most} /\ Min({pScroll, most}) <= most
      BY <1>6, <3>1, LeastOfTwo
    <3>3. scroll = Min({pScroll, most}) BY <2>1
    <3> HIDE DEF scroll, last
    <3> QED BY <1>5, <1>6, <3>1, <3>2, <3>3
  <2>2. CASE ~anew
    <3>1. pScroll \in Nat /\ pScroll < line_count(pScreen, pWidth) BY <1>1 DEF PageInv
    <3> QED BY <2>2, <3>1
  <2> QED BY <2>1, <2>2
<1>8. pScreen \in Wrapped => wide = pSize'.cols BY <1>1
<1>9. PageInv'
  <2> HIDE DEF scroll, wide
  <2>1. pRows' \in {s.rows : s \in TerminalSizes} BY <1>1, <1>2
  <2> QED BY <1>1, <1>2, <1>3, <1>7, <1>8, <2>1, PageDrawn
<1>10. ScreenInv' BY <1>1 DEF ScreenInv, Sized, helpVars
<1>11. ListInv' BY <1>1 DEF ListInv, ListHolds, helpVars, visible_result_rows
<1> QED BY <1>9, <1>10, <1>11

LEMMA ShowStep ==
  ASSUME Readable, PagerInv, ShowText
  PROVE  PagerInv'
<1> USE DEF PagerInv
<1>1. PICK text \in Texts : OpenText(text) BY DEF ShowText
<1>2. UNCHANGED <<pNested, pSize, pResized, helpVars>> BY DEF ShowText
<1>3. PageInv' BY <1>1, <1>2, PageOpened
<1>4. pScreen' \in Texts BY <1>1 DEF OpenText
<1>5. ScreenInv' BY <1>2, <1>4 DEF ScreenInv, Sized, helpVars
<1>6. ListInv' BY <1>2 DEF ListInv, ListHolds, helpVars, visible_result_rows
<1> QED BY <1>3, <1>5, <1>6

LEMMA ExitStep ==
  ASSUME PagerInv, PagerExits
  PROVE  PagerInv'
<1> USE DEF PagerInv, PagerExits
<1>1. pScreen' \in {"browser", "gone"} BY DEF PagerExits
<1>2. ScreenInv' BY <1>1 DEF ScreenInv, Sized
<1>3. ListInv' BY DEF ListInv, ListHolds, visible_result_rows
<1>4. PageInv'
  <2>1. ~InPager' BY <1>1 DEF InPager, Texts
  <2> QED BY <2>1 DEF PageInv
<1> QED BY <1>2, <1>3, <1>4

LEMMA SizeStep ==
  ASSUME PagerInv, TerminalChanges
  PROVE  PagerInv'
<1> USE DEF PagerInv
<1>1. /\ pSize' \in TerminalSizes /\ pResized' = TRUE
      /\ hLost' = (hLost \/ pSize'.rows < pSize.rows)
      /\ UNCHANGED <<pScreen, pNested, pageVars, hQuery, hCursor, hFiltered, hSelected, hScroll, hSmall>>
  BY DEF TerminalChanges
<1>2. ScreenInv' BY <1>1 DEF ScreenInv, Sized
<1>3. PageInv' BY <1>1 DEF PageInv, PageHolds, InPager, pageVars
<1>4. ListInv'
  <2>1. pSize.rows \in Nat /\ pSize'.rows \in Nat
    BY <1>1, PagerAssumption DEF ScreenInv, Sized
  <2>2. /\ visible_result_rows \in Nat /\ visible_result_rows' \in Nat
        /\ pSize'.rows >= pSize.rows => visible_result_rows' >= visible_result_rows
    BY <2>1, RowsVisible DEF visible_result_rows
  <2>3. hSelected \in Nat /\ hScroll \in Nat BY DEF ListInv, ListHolds
  <2>4. ASSUME ~hLost' PROVE hSelected' < hScroll' + visible_result_rows'
    <3>1. ~hLost /\ ~(pSize'.rows < pSize.rows) BY <1>1, <2>4
    <3>2. pSize'.rows >= pSize.rows BY <2>1, <3>1
    <3>3. hSelected < hScroll + visible_result_rows BY <3>1 DEF ListInv, ListHolds
    <3>4. visible_result_rows' >= visible_result_rows BY <2>2, <3>2
    <3>5. hSelected' = hSelected /\ hScroll' = hScroll BY <1>1
    <3> DEFINE now == visible_result_rows
               later == visible_result_rows'
    <3>6. /\ now \in Nat /\ later \in Nat /\ later >= now
          /\ hSelected \in Nat /\ hScroll \in Nat /\ hSelected < hScroll + now
      BY <2>2, <2>3, <3>3, <3>4
    <3> HIDE DEF now, later
    <3>7. hSelected < hScroll + later BY <3>6
    <3>8. hSelected' < hScroll' + later BY <3>5, <3>7
    <3> QED BY <3>8 DEF later
  <2> QED BY <1>1, <2>4 DEF ListInv, ListHolds
<1> QED BY <1>2, <1>3, <1>4

-----------------------------------------------------------------------------
(* The steps of the browser.                                               *)

\* While the browser has the screen the page is of no account.
LEMMA BrowserStays ==
  ASSUME PagerInv, InBrowser, LoopTop, UNCHANGED <<pScreen, pNested, pSize, pageVars>>,
         pResized' \in BOOLEAN, hLost' \in BOOLEAN
  PROVE  ScreenInv' /\ PageInv'
<1> USE DEF PagerInv
<1>1. hSmall' \in BOOLEAN BY DEF LoopTop, too_small_now
<1>2. ScreenInv' BY <1>1 DEF ScreenInv, Sized
<1>3. ~InPager' BY DEF InBrowser, InPager, Texts
<1>4. PageInv' BY <1>3 DEF PageInv, pageVars
<1> QED BY <1>2, <1>4

LEMMA VisibleRows ==
  ASSUME ScreenInv
  PROVE  visible_result_rows \in Nat /\ visible_result_rows >= 3
BY RowsVisible, PagerAssumption DEF ScreenInv, Sized, visible_result_rows

LEMMA FilterStep ==
  ASSUME PagerInv, Takes, NEW query \in Seq(Letters), Len(query) <= MaxQuery,
         NEW cursor \in Nat, Filter(query, cursor)
  PROVE  PagerInv'
<1> USE DEF PagerInv
<1>1. /\ hQuery' = query /\ hFiltered' = TopicsShown(query)
      /\ hSelected' = 0 /\ hScroll' = 0 /\ hLost' = FALSE
      /\ hCursor' = IF cursor > Len(query) THEN Len(query) ELSE cursor
  BY DEF Filter, update_help_filter
<1>2. /\ InBrowser /\ LoopTop /\ UNCHANGED <<pScreen, pNested, pSize, pResized, pageVars>>
  BY DEF Takes, Outside
<1>3. ScreenInv' /\ PageInv'
  <2>1. pResized' \in BOOLEAN /\ hLost' \in BOOLEAN BY <1>1, <1>2 DEF ScreenInv, Sized
  <2> QED BY <1>2, <2>1, BrowserStays
<1>4. query \in TopicQueries BY QueryOf
<1>5. /\ hFiltered' \in Seq(DOMAIN Topics)
      /\ \A i \in DOMAIN hFiltered' : Finds(hQuery', Topics[hFiltered'[i]].name)
  BY <1>1, <1>4, ShownMatches
<1>6. 0 < Max({Len(hFiltered'), 1})
  <2> DEFINE n == Len(hFiltered')
  <2>1. n \in Int /\ 1 \in Int BY <1>5, LenProperties
  <2> HIDE DEF n
  <2>2. Max({n, 1}) \in {n, 1} /\ Max({n, 1}) >= 1 BY <2>1, GreatestOfTwo
  <2> QED BY <2>1, <2>2 DEF n
<1>7. visible_result_rows \in Nat /\ visible_result_rows >= 3 BY VisibleRows
<1>8. visible_result_rows' = visible_result_rows BY <1>2 DEF visible_result_rows
<1>9. Len(query) \in Nat BY LenProperties
<1>10. hCursor' \in Nat /\ hCursor' <= Len(hQuery') BY <1>1, <1>9
<1>11. ListHolds' BY <1>1, <1>5, <1>6, <1>7, <1>8, <1>10 DEF ListHolds
<1> QED BY <1>1, <1>3, <1>5, <1>10, <1>11 DEF ListInv

LEMMA Inserted ==
  ASSUME NEW q \in Seq(Letters), NEW i \in 1..(Len(q) + 1), NEW c \in Letters
  PROVE  InsertAt(q, i, c) \in Seq(Letters) /\ Len(InsertAt(q, i, c)) = Len(q) + 1
<1> DEFINE left == SubSeq(q, 1, i - 1)
           right == SubSeq(q, i, Len(q))
<1>1. Len(q) \in Nat /\ \A k \in 1..Len(q) : q[k] \in Letters BY LenProperties, ElementOfSeq
<1>2. left \in Seq(Letters) /\ Len(left) = i - 1
  <2>1. /\ left \in Seq(Letters) /\ Len(left) = IF 1 <= i - 1 THEN i - 1 - 1 + 1 ELSE 0
    BY <1>1, SubSeqProperties
  <2> HIDE DEF left
  <2> QED BY <1>1, <2>1
<1>3. right \in Seq(Letters) /\ Len(right) = Len(q) - i + 1
  <2>1. /\ right \in Seq(Letters) /\ Len(right) = IF i <= Len(q) THEN Len(q) - i + 1 ELSE 0
    BY <1>1, SubSeqProperties
  <2> HIDE DEF right
  <2> QED BY <1>1, <2>1
<1>4. <<c>> \in Seq(Letters) /\ Len(<<c>>) = 1 OBVIOUS
<1>5. InsertAt(q, i, c) = left \o <<c>> \o right BY DEF InsertAt
<1> HIDE DEF left, right
<1> DEFINE head == left \o <<c>>
<1>6. head \in Seq(Letters) /\ Len(head) = i
  <2>1. head \in Seq(Letters) /\ Len(head) = Len(left) + Len(<<c>>)
    BY <1>2, <1>4, ConcatProperties
  <2> HIDE DEF head
  <2> QED BY <1>1, <1>2, <1>4, <2>1
<1> HIDE DEF head
<1>7. head \o right \in Seq(Letters) /\ Len(head \o right) = Len(head) + Len(right)
  BY <1>3, <1>6, ConcatProperties
<1>8. InsertAt(q, i, c) = head \o right BY <1>5 DEF head
<1> QED BY <1>1, <1>3, <1>6, <1>7, <1>8

LEMMA Removed ==
  ASSUME NEW q \in Seq(Letters), NEW i \in 1..Len(q)
  PROVE  RemoveAt(q, i) \in Seq(Letters) /\ Len(RemoveAt(q, i)) = Len(q) - 1
<1> DEFINE left == SubSeq(q, 1, i - 1)
           right == SubSeq(q, i + 1, Len(q))
<1>1. Len(q) \in Nat /\ \A k \in 1..Len(q) : q[k] \in Letters BY LenProperties, ElementOfSeq
<1>2. left \in Seq(Letters) /\ Len(left) = i - 1
  <2>1. /\ left \in Seq(Letters) /\ Len(left) = IF 1 <= i - 1 THEN i - 1 - 1 + 1 ELSE 0
    BY <1>1, SubSeqProperties
  <2> HIDE DEF left
  <2> QED BY <1>1, <2>1
<1>3. right \in Seq(Letters) /\ Len(right) = Len(q) - i
  <2>1. /\ right \in Seq(Letters)
        /\ Len(right) = IF i + 1 <= Len(q) THEN Len(q) - (i + 1) + 1 ELSE 0
    BY <1>1, SubSeqProperties
  <2> HIDE DEF right
  <2> QED BY <1>1, <2>1
<1>4. RemoveAt(q, i) = left \o right BY DEF RemoveAt
<1> HIDE DEF left, right
<1>5. left \o right \in Seq(Letters) /\ Len(left \o right) = Len(left) + Len(right)
  BY <1>2, <1>3, ConcatProperties
<1> QED BY <1>1, <1>2, <1>3, <1>4, <1>5

LEMMA EditStep ==
  ASSUME PagerInv, TypeLetter \/ Backspace \/ Delete \/ ClearQuery
  PROVE  PagerInv'
<1>1. hQuery \in Seq(Letters) /\ Len(hQuery) <= MaxQuery /\ hCursor \in Nat /\ hCursor <= Len(hQuery)
  BY DEF PagerInv, ListInv, ListHolds
<1>2. Len(hQuery) \in Nat /\ MaxQuery \in Nat BY <1>1, LenProperties, PagerAssumption
<1>3. CASE TypeLetter
  <2>1. PICK c \in Letters : Filter(InsertAt(hQuery, hCursor + 1, c), hCursor + 1)
    BY <1>3 DEF TypeLetter
  <2>2. hCursor + 1 \in 1..(Len(hQuery) + 1) /\ hCursor + 1 \in Nat BY <1>1, <1>2
  <2>3. /\ InsertAt(hQuery, hCursor + 1, c) \in Seq(Letters)
        /\ Len(InsertAt(hQuery, hCursor + 1, c)) = Len(hQuery) + 1
    BY <1>1, <2>2, Inserted
  <2>4. Takes /\ Len(hQuery) < MaxQuery BY <1>3 DEF TypeLetter
  <2>5. Len(InsertAt(hQuery, hCursor + 1, c)) <= MaxQuery BY <1>2, <2>3, <2>4
  <2> QED BY <2>1, <2>2, <2>3, <2>4, <2>5, FilterStep
<1>4. CASE Backspace
  <2>1. Takes /\ hCursor > 0 /\ Filter(RemoveAt(hQuery, hCursor), hCursor - 1)
    BY <1>4 DEF Backspace
  <2>2. hCursor \in 1..Len(hQuery) /\ hCursor - 1 \in Nat BY <1>1, <1>2, <2>1
  <2>3. /\ RemoveAt(hQuery, hCursor) \in Seq(Letters)
        /\ Len(RemoveAt(hQuery, hCursor)) = Len(hQuery) - 1
    BY <1>1, <2>2, Removed
  <2>4. Len(RemoveAt(hQuery, hCursor)) <= MaxQuery BY <1>1, <1>2, <2>3
  <2> QED BY <2>1, <2>2, <2>3, <2>4, FilterStep
<1>5. CASE Delete
  <2>1. Takes /\ hCursor < Len(hQuery) /\ Filter(RemoveAt(hQuery, hCursor + 1), hCursor)
    BY <1>5 DEF Delete
  <2>2. hCursor + 1 \in 1..Len(hQuery) BY <1>1, <1>2, <2>1
  <2>3. /\ RemoveAt(hQuery, hCursor + 1) \in Seq(Letters)
        /\ Len(RemoveAt(hQuery, hCursor + 1)) = Len(hQuery) - 1
    BY <1>1, <2>2, Removed
  <2>4. Len(RemoveAt(hQuery, hCursor + 1)) <= MaxQuery BY <1>1, <1>2, <2>3
  <2> QED BY <1>1, <2>1, <2>3, <2>4, FilterStep
<1>6. CASE ClearQuery
  <2>1. Takes /\ Filter(<<>>, 0) BY <1>6 DEF ClearQuery
  <2>2. <<>> \in Seq(Letters) /\ Len(<<>>) = 0 BY EmptySeq
  <2>3. Len(<<>>) <= MaxQuery /\ 0 \in Nat BY <1>2, <2>2
  <2> QED BY <2>1, <2>2, <2>3, FilterStep
<1> QED BY <1>3, <1>4, <1>5, <1>6 DEF TypeLetter, Backspace, Delete, ClearQuery

LEMMA SelectStep ==
  ASSUME PagerInv, SelectUp \/ SelectDown
  PROVE  PagerInv'
<1> USE DEF PagerInv
<1>1. /\ InBrowser /\ LoopTop /\ UNCHANGED <<pScreen, pNested, pSize, pResized, pageVars>>
      /\ UNCHANGED <<hQuery, hCursor, hFiltered>>
  BY DEF SelectUp, SelectDown, Outside
<1>2. hLost' \in {hLost, FALSE} BY DEF SelectUp, SelectDown
<1>3. ScreenInv' /\ PageInv'
  <2>1. pResized' \in BOOLEAN /\ hLost' \in BOOLEAN BY <1>1, <1>2 DEF ScreenInv, Sized
  <2> QED BY <1>1, <2>1, BrowserStays
<1> DEFINE rows == visible_result_rows
           most == Max({Len(hFiltered), 1})
<1>4. rows \in Nat /\ rows >= 3 BY VisibleRows
<1>5. rows' = rows BY <1>1 DEF visible_result_rows
<1>6. /\ hSelected \in Nat /\ hScroll \in Nat /\ hSelected < most /\ hScroll <= hSelected
      /\ ~hLost => hSelected < hScroll + rows
  BY DEF ListInv, ListHolds
<1>7. Len(hFiltered) \in Nat BY LenProperties DEF ListInv
<1>8. most \in {Len(hFiltered), 1} /\ most >= Len(hFiltered)
  <2> DEFINE n == Len(hFiltered)
  <2>1. n \in Int /\ 1 \in Int BY <1>7
  <2> HIDE DEF n
  <2>2. Max({n, 1}) \in {n, 1} /\ Max({n, 1}) >= n BY <2>1, GreatestOfTwo
  <2> QED BY <2>2 DEF n
<1>9. most' = most BY <1>1
<1> HIDE DEF rows, most
<1>10. /\ hSelected' \in Nat /\ hScroll' \in Nat /\ hSelected' < most /\ hScroll' <= hSelected'
       /\ ~hLost' => hSelected' < hScroll' + rows
  <2>1. CASE SelectUp
    <3>1. /\ hSelected > 0 /\ hSelected' = hSelected - 1 /\ hLost' = hLost
          /\ hScroll' = Min({hScroll, hSelected - 1})
      BY <2>1 DEF SelectUp
    <3>2. hSelected - 1 \in Nat BY <1>6, <3>1
    <3>3. /\ Min({hScroll, hSelected - 1}) \in {hScroll, hSelected - 1}
          /\ Min({hScroll, hSelected - 1}) <= hSelected - 1
      <4> DEFINE m == hSelected - 1
      <4>1. m \in Int /\ hScroll \in Int BY <1>6, <3>2
      <4> HIDE DEF m
      <4>2. Min({hScroll, m}) \in {hScroll, m} /\ Min({hScroll, m}) <= m
        BY <4>1, LeastOfTwo
      <4> QED BY <4>2 DEF m
    <3> QED BY <1>4, <1>6, <1>7, <1>8, <3>1, <3>2, <3>3
  <2>2. CASE SelectDown
    <3>1. /\ hSelected + 1 < Len(hFiltered) /\ hSelected' = hSelected + 1 /\ hLost' = FALSE
          /\ hScroll' = IF hSelected' >= hScroll + rows THEN hSelected' - rows + 1 ELSE hScroll
      BY <2>2 DEF SelectDown, rows
    <3> QED BY <1>4, <1>6, <1>7, <1>8, <3>1
  <2> QED BY <2>1, <2>2
<1>11. ListHolds'
  <2>1. hSelected' < Max({Len(hFiltered), 1})' BY <1>9, <1>10 DEF most
  <2>2. ~hLost' => hSelected' < hScroll' + visible_result_rows' BY <1>5, <1>10 DEF rows
  <2> QED BY <1>1, <1>10, <2>1, <2>2 DEF ListInv, ListHolds
<1> QED BY <1>1, <1>3, <1>10, <1>11 DEF ListInv

LEMMA CursorStep ==
  ASSUME PagerInv, MoveCursor
  PROVE  PagerInv'
<1> USE DEF PagerInv
<1>1. /\ InBrowser /\ LoopTop /\ UNCHANGED <<pScreen, pNested, pSize, pResized, pageVars>>
      /\ UNCHANGED <<hQuery, hFiltered, hSelected, hScroll, hLost>>
      /\ hCursor' \in {Less(hCursor, 1), Min({hCursor + 1, Len(hQuery)}), 0, Len(hQuery)}
  BY DEF MoveCursor, Takes, Outside
<1>2. ScreenInv' /\ PageInv'
  <2>1. pResized' \in BOOLEAN /\ hLost' \in BOOLEAN BY <1>1 DEF ScreenInv, Sized
  <2> QED BY <1>1, <2>1, BrowserStays
<1>3. Len(hQuery) \in Nat /\ hCursor \in Nat /\ hCursor <= Len(hQuery)
  BY LenProperties DEF ListInv, ListHolds
<1>4. Less(hCursor, 1) \in Nat /\ Less(hCursor, 1) <= hCursor BY <1>3 DEF Less
<1>5. /\ Min({hCursor + 1, Len(hQuery)}) \in {hCursor + 1, Len(hQuery)}
      /\ Min({hCursor + 1, Len(hQuery)}) <= Len(hQuery)
  <2> DEFINE m == Len(hQuery)
  <2>1. m \in Int /\ hCursor + 1 \in Int BY <1>3
  <2> HIDE DEF m
  <2>2. Min({hCursor + 1, m}) \in {hCursor + 1, m} /\ Min({hCursor + 1, m}) <= m
    BY <2>1, LeastOfTwo
  <2> QED BY <2>2 DEF m
<1>6. hCursor' \in Nat /\ hCursor' <= Len(hQuery') BY <1>1, <1>3, <1>4, <1>5
<1>7. ListInv' BY <1>1, <1>6 DEF ListInv, ListHolds, visible_result_rows
<1> QED BY <1>2, <1>7

LEMMA OpenStep ==
  ASSUME Readable, PagerInv, OpenTopic
  PROVE  PagerInv'
<1> USE DEF PagerInv
<1>1. /\ InBrowser /\ LoopTop
      /\ UNCHANGED <<pSize, pResized, hQuery, hCursor, hFiltered, hSelected, hScroll, hLost>>
  BY DEF OpenTopic
<1>2. ListInv' BY <1>1 DEF ListInv, ListHolds, visible_result_rows
<1>3. CASE OpenText("help") /\ pNested' = TRUE
  <2>1. PageInv' BY <1>1, <1>3, PageOpened DEF Texts
  <2>2. pScreen' = "help" BY <1>3 DEF OpenText
  <2>3. hSmall' \in BOOLEAN BY <1>1 DEF LoopTop, too_small_now
  <2>4. ScreenInv' BY <1>1, <1>3, <2>2, <2>3 DEF ScreenInv, Sized, Texts
  <2> QED BY <1>2, <2>1, <2>4
<1>4. CASE UNCHANGED <<pScreen, pNested, pageVars>>
  <2>1. pResized' \in BOOLEAN /\ hLost' \in BOOLEAN BY <1>1 DEF ScreenInv, Sized
  <2> QED BY <1>1, <1>2, <1>4, <2>1, BrowserStays
<1> QED BY <1>3, <1>4 DEF OpenTopic

LEMMA PagerStep ==
  ASSUME Readable, PagerInv, [PagerNext]_pagerVars
  PROVE  PagerInv'
<1>1. CASE BrowserPolls
  <2>1. /\ InBrowser /\ LoopTop /\ UNCHANGED <<pScreen, pNested, pSize, pageVars>>
        /\ pResized' \in BOOLEAN /\ hLost' \in BOOLEAN
    BY <1>1 DEF BrowserPolls, PagerInv, ScreenInv, Sized
  <2>2. ScreenInv' /\ PageInv' BY <2>1, BrowserStays
  <2>3. ListInv' BY <1>1 DEF BrowserPolls, PagerInv, ListInv, ListHolds, visible_result_rows
  <2> QED BY <2>2, <2>3 DEF PagerInv
<1>2. CASE BrowserExits
  <2>1. pScreen' = "gone" /\ UNCHANGED <<pNested, pSize, pResized, pageVars, helpVars>>
    BY <1>2 DEF BrowserExits
  <2>2. ~InPager' BY <2>1 DEF InPager, Texts
  <2>3. PageInv' BY <2>1, <2>2 DEF PagerInv, PageInv, pageVars
  <2>4. ListInv' BY <2>1 DEF PagerInv, ListInv, ListHolds, helpVars, visible_result_rows
  <2>5. ScreenInv' BY <2>1 DEF PagerInv, ScreenInv, Sized, helpVars
  <2> QED BY <2>3, <2>4, <2>5 DEF PagerInv
<1>3. CASE UNCHANGED pagerVars
  <2> USE <1>3 DEF pagerVars, pageVars, helpVars, PagerInv
  <2>1. PageInv' BY DEF PageInv, PageHolds, InPager
  <2>2. ListInv' BY DEF ListInv, ListHolds, visible_result_rows
  <2>3. ScreenInv' BY DEF ScreenInv, Sized
  <2> QED BY <2>1, <2>2, <2>3
<1> QED
  BY <1>1, <1>2, <1>3, ShowStep, MovesStep, ExitStep, ResizeStep, SelectStep, EditStep, CursorStep,
     OpenStep, SizeStep DEF PagerNext

\* The invariant needs a terminal of three rows at least: on a lower one a page has no row
\* for a line, and End (max_scroll_offset_with_height) then scrolls past the last one, where
\* a resize that wraps nothing anew leaves it.
THEOREM PagerInvariant ==
  ASSUME Readable
  PROVE  PagerSpec => []PagerInv
BY PagerBegins, PagerStep, PTL DEF PagerSpec

THEOREM PagerTypeCorrect ==
  ASSUME Readable
  PROVE  PagerSpec => []PagerTypeOK
<1>1. PagerInv => PagerTypeOK
  <2> SUFFICES ASSUME PagerInv PROVE PagerTypeOK OBVIOUS
  <2>1. pRows \in Nat /\ pWidth \in Nat BY PagerAssumption DEF PagerInv, PageInv
  <2> QED BY <2>1 DEF PagerInv, ScreenInv, Sized, ListInv, PageInv, PagerTypeOK
<1> QED BY <1>1, PagerInvariant, PTL

\* Both screens show what they claim to, for any topics, queries, texts and sizes: the list
\* the topics that match with the selection in view, the page lines of its text in the right
\* style (HelpBrowser, run_inner and SchemaContent).
THEOREM ScreensAlwaysHold ==
  ASSUME Readable
  PROVE  PagerSpec => []ScreensHold
<1>1. PagerInv => ScreensHold BY DEF PagerInv, ListInv, PageInv, ScreensHold
<1> QED BY <1>1, PagerInvariant, PTL

-----------------------------------------------------------------------------
(* LineEditor.  Lines, commands, and what is known of a line.              *)

Line == {r \in [text : Seq(Characters), pos : Nat] : r.pos <= Len(r.text)}
Sound == {s \in [buffer : Seq(Characters), buffer_len : Nat, cursor_pos : Nat,
                 uncertain : BOOLEAN] : s.cursor_pos <= s.buffer_len}

\* Commands that the shadow follows in any line, in a line without newlines, and not at all
Inserts == [c : {"Insert"}, s : Seq(Characters)]
Simple == Inserts \cup [c : {"Backspace", "Delete", "MoveLeft", "MoveRight", "MoveToEnd",
                             "CutFromStart"}]
LineWise == [c : {"MoveToLineStart", "MoveToLineEnd", "CutToLineEnd"}]
Unsure == [c : {"CutWordLeft", "CutWordRight", "Other"}]
EditCommands == Simple \cup LineWise \cup Unsure

LEMMA SpliceIs ==
  ASSUME NEW t \in Seq(Characters), NEW u \in Seq(Characters), NEW from \in Nat, NEW to \in Nat,
         from <= to, to <= Len(t)
  PROVE  /\ Splice(t, from, to, u) \in Seq(Characters)
         /\ Len(Splice(t, from, to, u)) = Len(t) - (to - from) + Len(u)
<1> DEFINE left == SubSeq(t, 1, from)  right == SubSeq(t, to + 1, Len(t))
<1>1. left \in Seq(Characters) /\ Len(left) = from
  <2>1. 1 \in Nat /\ from \in Nat /\ Len(t) \in Nat OBVIOUS
  <2> QED BY <2>1
<1>2. right \in Seq(Characters) /\ Len(right) = Len(t) - to
  <2>1. to \in Nat /\ Len(t) \in Nat OBVIOUS
  <2> QED BY <2>1
<1> HIDE DEF left, right
<1>3. left \o u \in Seq(Characters) /\ Len(left \o u) = from + Len(u) BY <1>1
<1>4. (left \o u) \o right \in Seq(Characters)
      /\ Len((left \o u) \o right) = from + Len(u) + (Len(t) - to)
  <2>1. PICK w \in Seq(Characters) : w = left \o u /\ Len(w) = from + Len(u) BY <1>3
  <2>2. w \o right \in Seq(Characters) /\ Len(w \o right) = Len(w) + Len(right)
    BY <1>2, ConcatProperties
  <2> QED BY <1>2, <2>1, <2>2
<1>5. Splice(t, from, to, u) = (left \o u) \o right BY DEF Splice, left, right
<1>6. Len(t) \in Nat /\ Len(u) \in Nat OBVIOUS
<1> QED BY <1>4, <1>5, <1>6

\* Cutting up to the end
LEMMA CutIs ==
  ASSUME NEW t \in Seq(Characters), NEW from \in Nat, from <= Len(t)
  PROVE  Splice(t, from, Len(t), <<>>) = SubSeq(t, 1, from)
<1>1. SubSeq(t, 1, from) \in Seq(Characters) /\ SubSeq(t, Len(t) + 1, Len(t)) = <<>> OBVIOUS
<1> QED BY <1>1 DEF Splice

LEMMA LineEndsIs ==
  ASSUME NEW r \in Line
  PROVE  /\ LineStart(r) \in 0..r.pos /\ LineEnd(r) \in r.pos..Len(r.text)
         /\ Newlines(r.text) = {} => LineStart(r) = 0 /\ LineEnd(r) = Len(r.text)
<1>1. /\ r.text \in Seq(Characters) /\ Len(r.text) \in Nat /\ r.pos \in Nat
      /\ r.pos <= Len(r.text) /\ Newlines(r.text) \subseteq 1..Len(r.text)
  BY DEF Line, Newlines
<1>2. ASSUME \E i \in Newlines(r.text) : i <= r.pos
      PROVE  \E i \in 0..r.pos : /\ i \in Newlines(r.text)
                                 /\ \A j \in Newlines(r.text) : j <= r.pos => j <= i
  <2> DEFINE S == {i \in Newlines(r.text) : i <= r.pos}
  <2>1. S \in SUBSET (0..r.pos) /\ S # {} BY <1>1, <1>2
  <2>2. Max(S) \in S /\ \A n \in S : n <= Max(S) BY <1>1, <2>1, GreatestUpTo
  <2> QED BY <2>1, <2>2
<1>3. ASSUME \E i \in Newlines(r.text) : i > r.pos
      PROVE  \E i \in r.pos..Len(r.text) :
               /\ i + 1 \in Newlines(r.text)
               /\ \A j \in r.pos + 1..i : j \notin Newlines(r.text)
  <2> DEFINE S == {i \in Newlines(r.text) : i > r.pos}
  <2>1. S \in SUBSET Nat /\ S # {} BY <1>1, <1>3
  <2>2. Min(S) \in S /\ \A n \in S : Min(S) <= n BY <2>1, LeastUpTo
  <2> DEFINE m == Min(S)
  <2>3. m \in Newlines(r.text) /\ m > r.pos /\ m \in 1..Len(r.text) BY <1>1, <2>2
  <2>4. \A n \in S : m <= n BY <2>2
  <2> HIDE DEF m
  <2>5. m - 1 \in r.pos..Len(r.text) /\ m - 1 + 1 = m BY <1>1, <2>3
  <2>6. ASSUME NEW j \in r.pos + 1..m - 1 PROVE j \notin Newlines(r.text)
    <3>1. j > r.pos /\ ~(m <= j) BY <1>1, <2>3
    <3> QED BY <2>4, <3>1
  <2> QED BY <2>3, <2>5, <2>6
<1>4. LineStart(r) \in 0..r.pos BY <1>1, <1>2 DEF LineStart
<1>5. LineEnd(r) \in r.pos..Len(r.text) BY <1>1, <1>3 DEF LineEnd
<1> QED BY <1>4, <1>5 DEF LineStart, LineEnd

LEMMA EditedIs ==
  ASSUME NEW r \in Line, NEW c \in EditCommands
  PROVE  Edited(r, c) \in Line
<1>1. /\ r \in [text : Seq(Characters), pos : Nat] /\ r.text \in Seq(Characters)
      /\ Len(r.text) \in Nat /\ r.pos \in Nat /\ r.pos <= Len(r.text)
  BY DEF Line
<1> DEFINE at(p) == [r EXCEPT !.pos = p]
           cut(from, to) == [text |-> Splice(r.text, from, to, <<>>), pos |-> from]
<1>2. ASSUME NEW p \in 0..Len(r.text) PROVE at(p) \in Line BY <1>1 DEF Line
<1>3. ASSUME NEW from \in 0..Len(r.text), NEW to \in from..Len(r.text)
      PROVE  cut(from, to) \in Line
  <2>1. from \in Nat /\ to \in Nat /\ from <= to /\ to <= Len(r.text) BY <1>1
  <2>2. <<>> \in Seq(Characters) /\ Len(<<>>) = 0 OBVIOUS
  <2>3. /\ Splice(r.text, from, to, <<>>) \in Seq(Characters)
        /\ Len(Splice(r.text, from, to, <<>>)) = Len(r.text) - (to - from) + 0
    BY <1>1, <2>1, <2>2, SpliceIs
  <2> QED BY <1>1, <2>1, <2>3 DEF Line
<1> HIDE DEF at, cut
<1>4. CASE c.c = "Insert"
  <2>1. c.s \in Seq(Characters) /\ Len(c.s) \in Nat
    BY <1>4 DEF EditCommands, Simple, Inserts, LineWise, Unsure
  <2>2. /\ Splice(r.text, r.pos, r.pos, c.s) \in Seq(Characters)
        /\ Len(Splice(r.text, r.pos, r.pos, c.s)) = Len(r.text) - (r.pos - r.pos) + Len(c.s)
    <3>1. r.pos <= r.pos BY <1>1
    <3> QED BY <1>1, <2>1, <3>1, SpliceIs
  <2>3. Edited(r, c) = [text |-> Splice(r.text, r.pos, r.pos, c.s), pos |-> r.pos + Len(c.s)]
    BY <1>4 DEF Edited
  <2> QED BY <1>1, <2>1, <2>2, <2>3 DEF Line
<1>5. /\ c.c = "Backspace" => Edited(r, c) = IF r.pos > 0 THEN cut(r.pos - 1, r.pos) ELSE r
      /\ c.c = "Delete" => Edited(r, c) = IF r.pos < Len(r.text) THEN cut(r.pos, r.pos + 1) ELSE r
      /\ c.c = "MoveLeft" => Edited(r, c) = IF r.pos > 0 THEN at(r.pos - 1) ELSE r
      /\ c.c = "MoveRight" => Edited(r, c) = IF r.pos < Len(r.text) THEN at(r.pos + 1) ELSE r
      /\ c.c = "MoveToLineStart" => Edited(r, c) = at(LineStart(r))
      /\ c.c = "MoveToLineEnd" => Edited(r, c) = at(LineEnd(r))
      /\ c.c = "MoveToEnd" => Edited(r, c) = at(Len(r.text))
      /\ c.c = "CutFromStart" => Edited(r, c) = cut(0, r.pos)
      /\ c.c = "CutToLineEnd" => Edited(r, c) = cut(r.pos, LineEnd(r))
      /\ c.c \in {"CutWordLeft", "CutWordRight", "Other"} => Edited(r, c) = r
  BY DEF Edited, at, cut
<1>6. LineStart(r) \in 0..r.pos /\ LineEnd(r) \in r.pos..Len(r.text) BY LineEndsIs
<1>7. CASE c.c = "Backspace"
  <2>1. r.pos > 0 => r.pos - 1 \in 0..Len(r.text) /\ r.pos \in r.pos - 1..Len(r.text) BY <1>1
  <2> QED BY <1>3, <1>5, <1>7, <2>1
<1>8. CASE c.c = "Delete"
  <2>1. r.pos < Len(r.text) => r.pos \in 0..Len(r.text) /\ r.pos + 1 \in r.pos..Len(r.text) BY <1>1
  <2> QED BY <1>3, <1>5, <1>8, <2>1
<1>9. CASE c.c \in {"MoveLeft", "MoveRight", "MoveToLineStart", "MoveToLineEnd", "MoveToEnd"}
  <2>1. /\ r.pos > 0 => r.pos - 1 \in 0..Len(r.text)
        /\ r.pos < Len(r.text) => r.pos + 1 \in 0..Len(r.text)
        /\ LineStart(r) \in 0..Len(r.text) /\ LineEnd(r) \in 0..Len(r.text)
        /\ Len(r.text) \in 0..Len(r.text)
    BY <1>1, <1>6
  <2> QED BY <1>2, <1>5, <1>9, <2>1
<1>10. CASE c.c \in {"CutFromStart", "CutToLineEnd"}
  <2>1. 0 \in 0..Len(r.text) /\ r.pos \in 0..Len(r.text) BY <1>1
  <2> QED BY <1>3, <1>5, <1>6, <1>10, <2>1
<1>11. CASE c.c \in {"CutWordLeft", "CutWordRight", "Other"} BY <1>5, <1>11
<1> QED BY <1>4, <1>7, <1>8, <1>9, <1>10, <1>11
    DEF EditCommands, Simple, Inserts, LineWise, Unsure

-----------------------------------------------------------------------------
(* What the shadow follows.                                                *)

Shadow(b, len, pos, u) == [buffer |-> b, buffer_len |-> len, cursor_pos |-> pos, uncertain |-> u]

LEMMA ShadowIs ==
  ASSUME NEW b \in Seq(Characters), NEW len \in Nat, NEW pos \in Nat, NEW u \in BOOLEAN, pos <= len
  PROVE  Shadow(b, len, pos, u) \in Sound /\ Shadow(b, len, pos, u).uncertain = u
BY DEF Shadow, Sound

\* The unsigned lengths stay so: nothing is taken from less than there is.
LEMMA FollowedIs ==
  ASSUME NEW s \in Sound, NEW c \in EditCommands
  PROVE  /\ update_from_edit_command(s, c) \in Sound
         /\ s.uncertain => update_from_edit_command(s, c).uncertain
         /\ c \in Unsure => update_from_edit_command(s, c).uncertain
<1> DEFINE len == Len(s.buffer)
           byte(pos) == Least(pos, len)
           spliced(from, to, t) == Splice(s.buffer, byte(from), byte(to), t)
           left == Least(s.cursor_pos, 5)
           right == Least(s.buffer_len - s.cursor_pos, 5)
           T == [buffer : Seq(Characters), buffer_len : Nat, cursor_pos : Nat,
                 uncertain : BOOLEAN]
           new == update_from_edit_command(s, c)
<1>1. /\ s \in T /\ s.buffer \in Seq(Characters) /\ s.cursor_pos \in Nat /\ s.buffer_len \in Nat
      /\ s.cursor_pos <= s.buffer_len /\ s.uncertain \in BOOLEAN
      /\ len \in Nat
  BY DEF Sound
<1>2. ASSUME NEW from \in Nat, NEW to \in Nat, from <= to, NEW t \in Seq(Characters)
      PROVE  spliced(from, to, t) \in Seq(Characters)
  <2>1. byte(from) \in Nat /\ byte(to) \in Nat /\ byte(from) <= byte(to) /\ byte(to) <= len
    BY <1>1, <1>2 DEF Least
  <2> HIDE DEF byte
  <2> QED BY <1>1, <2>1, SpliceIs
<1>3. /\ left \in Nat /\ left <= s.cursor_pos
      /\ right \in Nat /\ right <= s.buffer_len - s.cursor_pos
  BY <1>1 DEF Least
<1>4. <<>> \in Seq(Characters) OBVIOUS
<1> DEFINE b == s.buffer  p == s.cursor_pos  n == s.buffer_len  u == s.uncertain
<1>5. /\ c.c = "Insert" => new = Shadow(spliced(p, p, c.s), n + Len(c.s), p + Len(c.s), u)
      /\ c.c = "Backspace" /\ p > 0 => new = Shadow(spliced(p - 1, p, <<>>), n - 1, p - 1, u)
      /\ c.c = "Delete" /\ p < n => new = Shadow(spliced(p, p + 1, <<>>), n - 1, p, u)
      /\ c.c = "MoveLeft" /\ p > 0 => new = Shadow(b, n, p - 1, u)
      /\ c.c = "MoveRight" /\ p < n => new = Shadow(b, n, p + 1, u)
      /\ c.c = "MoveToLineStart" => new = Shadow(b, n, 0, u)
      /\ c.c \in {"MoveToEnd", "MoveToLineEnd"} => new = Shadow(b, n, n, u)
      /\ c.c = "CutFromStart" =>
           new = Shadow(spliced(0, p, <<>>), IF n > p THEN n - p ELSE 0, 0, u)
      /\ c.c = "CutToLineEnd" => new = Shadow(SubSeq(b, 1, byte(p)), p, p, u)
      /\ c.c = "CutWordLeft" => new = Shadow(b, n - left, p - left, TRUE)
      /\ c.c = "CutWordRight" => new = Shadow(b, n - right, p, TRUE)
      /\ c.c = "Other" => new = Shadow(b, n, p, TRUE)
      /\ (c.c = "Backspace" /\ ~(p > 0)) \/ (c.c = "MoveLeft" /\ ~(p > 0)) => new = s
      /\ (c.c = "Delete" /\ ~(p < n)) \/ (c.c = "MoveRight" /\ ~(p < n)) => new = s
  <2>1. s = Shadow(b, n, p, u) BY <1>1 DEF Shadow
  <2>2. CASE c.c = "Insert" BY <2>1, <2>2 DEF update_from_edit_command, Shadow
  <2>3. CASE c.c = "Backspace" BY <2>1, <2>3 DEF update_from_edit_command, Shadow
  <2>4. CASE c.c = "Delete" BY <2>1, <2>4 DEF update_from_edit_command, Shadow
  <2>5. CASE c.c \in {"MoveLeft", "MoveRight"} BY <2>1, <2>5 DEF update_from_edit_command, Shadow
  <2>6. CASE c.c \in {"MoveToLineStart", "MoveToEnd", "MoveToLineEnd"}
    BY <2>1, <2>6 DEF update_from_edit_command, Shadow
  <2>7. CASE c.c \in {"CutFromStart", "CutToLineEnd"}
    BY <2>1, <2>7 DEF update_from_edit_command, Shadow
  <2>8. CASE c.c \in {"CutWordLeft", "CutWordRight", "Other"}
    BY <2>1, <2>8 DEF update_from_edit_command, Shadow
  <2> QED BY <2>2, <2>3, <2>4, <2>5, <2>6, <2>7, <2>8
    DEF EditCommands, Simple, Inserts, LineWise, Unsure
<1>6. SubSeq(s.buffer, 1, byte(s.cursor_pos)) \in Seq(Characters)
  <2>1. byte(s.cursor_pos) \in Nat /\ byte(s.cursor_pos) <= len BY <1>1 DEF Least
  <2> HIDE DEF byte
  <2> QED BY <1>1, <2>1
<1>7. c.c = "Insert" => c.s \in Seq(Characters) /\ Len(c.s) \in Nat
                        /\ spliced(s.cursor_pos, s.cursor_pos, c.s) \in Seq(Characters)
  <2> SUFFICES ASSUME c.c = "Insert"
               PROVE  /\ c.s \in Seq(Characters) /\ Len(c.s) \in Nat
                      /\ spliced(s.cursor_pos, s.cursor_pos, c.s) \in Seq(Characters)
    OBVIOUS
  <2>1. c.s \in Seq(Characters) /\ Len(c.s) \in Nat
    BY DEF EditCommands, Simple, Inserts, LineWise, Unsure
  <2>2. s.cursor_pos <= s.cursor_pos BY <1>1
  <2> HIDE DEF spliced
  <2> QED BY <1>1, <1>2, <2>1, <2>2
<1>8. /\ s.cursor_pos > 0 => spliced(s.cursor_pos - 1, s.cursor_pos, <<>>) \in Seq(Characters)
      /\ spliced(s.cursor_pos, s.cursor_pos + 1, <<>>) \in Seq(Characters)
      /\ spliced(0, s.cursor_pos, <<>>) \in Seq(Characters)
  <2>1. /\ s.cursor_pos > 0 => s.cursor_pos - 1 \in Nat /\ s.cursor_pos - 1 <= s.cursor_pos
        /\ s.cursor_pos + 1 \in Nat /\ s.cursor_pos <= s.cursor_pos + 1 /\ 0 \in Nat
        /\ 0 <= s.cursor_pos
    BY <1>1
  <2> HIDE DEF spliced
  <2> QED BY <1>1, <1>2, <1>4, <2>1
<1> HIDE DEF spliced, byte, left, right, new
<1>9. CASE c.c \in {"Insert", "Backspace", "Delete", "CutFromStart", "CutToLineEnd"}
  <2>0. b \in Seq(Characters) /\ n \in Nat /\ p \in Nat /\ p <= n /\ u \in BOOLEAN /\ s \in Sound
    BY <1>1
  <2> HIDE DEF b, n, p, u
  <2>1. CASE c.c = "Insert"
    <3>1. n + Len(c.s) \in Nat /\ p + Len(c.s) \in Nat /\ p + Len(c.s) <= n + Len(c.s)
      BY <1>7, <2>0, <2>1
    <3>2. new = Shadow(spliced(p, p, c.s), n + Len(c.s), p + Len(c.s), u) BY <1>5, <2>1
    <3>3. spliced(p, p, c.s) \in Seq(Characters) BY <1>7, <2>1 DEF p
    <3>4. new \in Sound /\ new.uncertain = u BY <2>0, <3>1, <3>2, <3>3, ShadowIs
    <3> QED BY <2>1, <3>4 DEF new, Unsure, u
  <2>2. CASE c.c = "Backspace"
    <3>1. CASE p > 0
      <4>1. n - 1 \in Nat /\ p - 1 \in Nat /\ p - 1 <= n - 1 BY <2>0, <3>1
      <4>2. new = Shadow(spliced(p - 1, p, <<>>), n - 1, p - 1, u) BY <1>5, <2>2, <3>1
      <4>3. spliced(p - 1, p, <<>>) \in Seq(Characters) BY <1>8, <3>1 DEF p
      <4>4. new \in Sound /\ new.uncertain = u BY <2>0, <4>1, <4>2, <4>3, ShadowIs
      <4> QED BY <2>2, <4>4 DEF new, Unsure, u
    <3>2. CASE ~(p > 0)
      <4>1. new = s BY <1>5, <2>2, <3>2
      <4> QED BY <2>0, <2>2, <4>1 DEF new, Unsure
    <3> QED BY <3>1, <3>2
  <2>3. CASE c.c = "Delete"
    <3>1. CASE p < n
      <4>1. n - 1 \in Nat /\ p <= n - 1 BY <2>0, <3>1
      <4>2. new = Shadow(spliced(p, p + 1, <<>>), n - 1, p, u) BY <1>5, <2>3, <3>1
      <4>3. spliced(p, p + 1, <<>>) \in Seq(Characters) BY <1>8 DEF p
      <4>4. new \in Sound /\ new.uncertain = u BY <2>0, <4>1, <4>2, <4>3, ShadowIs
      <4> QED BY <2>3, <4>4 DEF new, Unsure, u
    <3>2. CASE ~(p < n)
      <4>1. new = s BY <1>5, <2>3, <3>2
      <4> QED BY <2>0, <2>3, <4>1 DEF new, Unsure
    <3> QED BY <3>1, <3>2
  <2>4. CASE c.c = "CutFromStart"
    <3> DEFINE m == IF n > p THEN n - p ELSE 0
    <3>1. m \in Nat /\ 0 \in Nat /\ 0 <= m BY <2>0
    <3>2. new = Shadow(spliced(0, p, <<>>), m, 0, u) BY <1>5, <2>4
    <3> HIDE DEF m
    <3>3. spliced(0, p, <<>>) \in Seq(Characters) BY <1>8 DEF p
    <3>4. new \in Sound /\ new.uncertain = u BY <2>0, <3>1, <3>2, <3>3, ShadowIs
    <3> QED BY <2>4, <3>4 DEF new, Unsure, u
  <2>5. CASE c.c = "CutToLineEnd"
    <3>1. p <= p BY <2>0
    <3>2. new = Shadow(SubSeq(b, 1, byte(p)), p, p, u) BY <1>5, <2>5
    <3>3. SubSeq(b, 1, byte(p)) \in Seq(Characters) BY <1>6 DEF b, p
    <3>4. new \in Sound /\ new.uncertain = u BY <2>0, <3>1, <3>2, <3>3, ShadowIs
    <3> QED BY <2>5, <3>4 DEF new, Unsure, u
  <2> QED BY <1>9, <2>1, <2>2, <2>3, <2>4, <2>5
<1>10. CASE c.c \in {"MoveLeft", "MoveRight", "MoveToLineStart", "MoveToEnd", "MoveToLineEnd"}
  <2>1. new \in Sound /\ new.uncertain = u BY <1>1, <1>5, <1>10, ShadowIs
  <2> QED BY <1>1, <1>10, <2>1 DEF new, Unsure
<1>11. CASE c.c \in {"CutWordLeft", "CutWordRight", "Other"}
  <2>1. /\ n - left \in Nat /\ p - left \in Nat /\ p - left <= n - left
        /\ n - right \in Nat /\ p <= n - right /\ p \in Nat /\ n \in Nat /\ p <= n
        /\ TRUE \in BOOLEAN /\ b \in Seq(Characters)
    BY <1>1, <1>3
  <2> HIDE DEF b, n, p, u
  <2>2. CASE c.c = "CutWordLeft"
    <3>1. new = Shadow(b, n - left, p - left, TRUE) BY <1>5, <2>2
    <3> QED BY <2>1, <3>1, ShadowIs DEF new
  <2>3. CASE c.c = "CutWordRight"
    <3>1. new = Shadow(b, n - right, p, TRUE) BY <1>5, <2>3
    <3> QED BY <2>1, <3>1, ShadowIs DEF new
  <2>4. CASE c.c = "Other"
    <3>1. new = Shadow(b, n, p, TRUE) BY <1>5, <2>4
    <3> QED BY <2>1, <3>1, ShadowIs DEF new
  <2> QED BY <1>11, <2>2, <2>3, <2>4
<1>12. \/ c.c \in {"Insert", "Backspace", "Delete", "CutFromStart", "CutToLineEnd"}
       \/ c.c \in {"MoveLeft", "MoveRight", "MoveToLineStart", "MoveToEnd", "MoveToLineEnd"}
       \/ c.c \in {"CutWordLeft", "CutWordRight", "Other"}
  BY DEF EditCommands, Simple, Inserts, LineWise, Unsure
<1> QED BY <1>9, <1>10, <1>11, <1>12 DEF new

\* Where it is certain it follows exactly.
LEMMA FollowedExactly ==
  ASSUME NEW r \in Line, NEW c \in Simple \cup LineWise,
         c \in Simple \/ Newlines(r.text) = {}
  PROVE  update_from_edit_command(Certain(r), c) = Certain(Edited(r, c))
<1> DEFINE s == Certain(r)  t == r.text  n == Len(r.text)  p == r.pos
           new == update_from_edit_command(s, c)  old == Edited(r, c)
           C(u, q) == Shadow(u, Len(u), q, FALSE)
           cut(from, to) == Splice(t, from, to, <<>>)
<1>1. t \in Seq(Characters) /\ n \in Nat /\ p \in Nat /\ p <= n BY DEF Line
<1>2. s = Shadow(t, n, p, FALSE) /\ r = [text |-> t, pos |-> p]
  BY DEF Certain, Shadow, Line
<1>3. ASSUME NEW u, NEW q, old = [text |-> u, pos |-> q] PROVE Certain(old) = C(u, q)
  BY <1>3 DEF Certain, Shadow
<1>4. \A q \in 0..n : Least(q, n) = q BY <1>1 DEF Least
<1>5. /\ Least(p, n) = p /\ (p > 0 => Least(p - 1, n) = p - 1)
      /\ (p < n => Least(p + 1, n) = p + 1) /\ Least(0, n) = 0
  BY <1>1, <1>4
<1>6. ASSUME NEW from \in 0..n, NEW to \in from..n PROVE Len(cut(from, to)) = n - (to - from)
  <2>1. from \in Nat /\ to \in Nat /\ from <= to /\ to <= n BY <1>1
  <2>2. <<>> \in Seq(Characters) /\ Len(<<>>) = 0 OBVIOUS
  <2>3. PICK v : v = <<>> OBVIOUS
  <2>4. v \in Seq(Characters) /\ Len(v) = 0 BY <2>2, <2>3
  <2>5. t \in Seq(Characters) /\ n = Len(t) BY <1>1
  <2> HIDE DEF t, n, p
  <2>6. to <= Len(t) BY <2>1, <2>5
  <2>7. Len(Splice(t, from, to, v)) = Len(t) - (to - from) + Len(v) BY <2>1, <2>4, <2>5, <2>6, SpliceIs
  <2>8. Len(cut(from, to)) = n - (to - from) + 0 BY <2>3, <2>4, <2>5, <2>7
  <2> QED BY <1>1, <2>1, <2>8
<1> HIDE DEF s, t, n, p, old, new, cut, C
<1>7. CASE c.c = "Insert"
  <2> DEFINE u == Splice(t, p, p, c.s)
  <2>1. c.s \in Seq(Characters) /\ Len(c.s) \in Nat BY <1>7 DEF Simple, Inserts, LineWise
  <2>2. old = [text |-> u, pos |-> p + Len(c.s)] BY <1>7 DEF Edited, old, t, p
  <2>3. Len(u) = n + Len(c.s)
    <3>1. p <= p BY <1>1
    <3>2. Len(u) = n - (p - p) + Len(c.s) BY <1>1, <2>1, <3>1, SpliceIs DEF n, t
    <3> QED BY <1>1, <2>1, <3>2
  <2>4. new = Shadow(u, n + Len(c.s), p + Len(c.s), FALSE)
    BY <1>2, <1>5, <1>7 DEF new, update_from_edit_command, Shadow, n, t
  <2> QED BY <1>3, <2>2, <2>3, <2>4 DEF C, new, old, s
<1>8. CASE c.c = "Backspace"
  <2>1. CASE p > 0
    <3>1. old = [text |-> cut(p - 1, p), pos |-> p - 1]
      BY <1>8, <2>1 DEF Edited, old, t, p, cut
    <3>2. Len(cut(p - 1, p)) = n - 1
      <4>1. p - 1 \in 0..n /\ p \in p - 1..n /\ p - (p - 1) = 1 BY <1>1, <2>1
      <4> QED BY <1>6, <4>1
    <3>3. new = Shadow(cut(p - 1, p), n - 1, p - 1, FALSE)
      BY <1>2, <1>5, <1>8, <2>1 DEF new, update_from_edit_command, Shadow, n, t, cut
    <3> QED BY <1>3, <3>1, <3>2, <3>3 DEF C, new, old, s
  <2>2. CASE ~(p > 0)
    <3>1. old = r BY <1>8, <2>2 DEF Edited, old, p
    <3>2. new = s BY <1>2, <1>8, <2>2 DEF new, update_from_edit_command, Shadow
    <3> QED BY <3>1, <3>2 DEF new, old, s
  <2> QED BY <2>1, <2>2
<1>9. CASE c.c = "Delete"
  <2>1. CASE p < n
    <3>1. old = [text |-> cut(p, p + 1), pos |-> p]
      BY <1>9, <2>1 DEF Edited, old, t, p, cut, n
    <3>2. Len(cut(p, p + 1)) = n - 1
      <4>1. p \in 0..n /\ p + 1 \in p..n /\ p + 1 - p = 1 BY <1>1, <2>1
      <4> QED BY <1>6, <4>1
    <3>3. new = Shadow(cut(p, p + 1), n - 1, p, FALSE)
      BY <1>2, <1>5, <1>9, <2>1 DEF new, update_from_edit_command, Shadow, n, t, cut
    <3> QED BY <1>3, <3>1, <3>2, <3>3 DEF C, new, old, s
  <2>2. CASE ~(p < n)
    <3>1. old = r BY <1>9, <2>2 DEF Edited, old, p, n
    <3>2. new = s BY <1>2, <1>9, <2>2 DEF new, update_from_edit_command, Shadow
    <3> QED BY <3>1, <3>2 DEF new, old, s
  <2> QED BY <2>1, <2>2
<1>10. ASSUME NEW q, c.c \in {"MoveLeft", "MoveRight", "MoveToEnd", "MoveToLineStart", "MoveToLineEnd"},
              old = [r EXCEPT !.pos = q], new = [s EXCEPT !.cursor_pos = q]
       PROVE  new = Certain(old)
  <2>1. old = [text |-> t, pos |-> q] BY <1>2, <1>10
  <2>2. new = Shadow(t, n, q, FALSE) BY <1>2, <1>10 DEF Shadow
  <2> QED BY <1>3, <2>1, <2>2 DEF C, n, t
<1>11. CASE c.c = "MoveLeft"
  <2>1. CASE p > 0
    <3>1. old = [r EXCEPT !.pos = p - 1] BY <1>11, <2>1 DEF Edited, old, p
    <3>2. new = [s EXCEPT !.cursor_pos = p - 1]
      BY <1>2, <1>11, <2>1 DEF new, update_from_edit_command, Shadow
    <3> QED BY <1>10, <1>11, <3>1, <3>2 DEF new, old, s
  <2>2. CASE ~(p > 0)
    <3>1. old = r BY <1>11, <2>2 DEF Edited, old, p
    <3>2. new = s BY <1>2, <1>11, <2>2 DEF new, update_from_edit_command, Shadow
    <3> QED BY <3>1, <3>2 DEF new, old, s
  <2> QED BY <2>1, <2>2
<1>12. CASE c.c = "MoveRight"
  <2>1. CASE p < n
    <3>1. old = [r EXCEPT !.pos = p + 1] BY <1>12, <2>1 DEF Edited, old, p, n
    <3>2. new = [s EXCEPT !.cursor_pos = p + 1]
      BY <1>2, <1>12, <2>1 DEF new, update_from_edit_command, Shadow
    <3> QED BY <1>10, <1>12, <3>1, <3>2 DEF new, old, s
  <2>2. CASE ~(p < n)
    <3>1. old = r BY <1>12, <2>2 DEF Edited, old, p, n
    <3>2. new = s BY <1>2, <1>12, <2>2 DEF new, update_from_edit_command, Shadow
    <3> QED BY <3>1, <3>2 DEF new, old, s
  <2> QED BY <2>1, <2>2
<1>13. CASE c.c = "MoveToEnd"
  <2>1. old = [r EXCEPT !.pos = n] BY <1>13 DEF Edited, old, n
  <2>2. new = [s EXCEPT !.cursor_pos = n]
    BY <1>2, <1>13 DEF new, update_from_edit_command, Shadow
  <2> QED BY <1>10, <1>13, <2>1, <2>2 DEF new, old, s
<1>14. CASE c.c = "CutFromStart"
  <2> DEFINE m == IF n > p THEN n - p ELSE 0
  <2>1. old = [text |-> cut(0, p), pos |-> 0] BY <1>14 DEF Edited, old, t, p, cut
  <2>2. Len(cut(0, p)) = m
    <3>1. 0 \in 0..n /\ p \in 0..n /\ p - 0 = p BY <1>1
    <3>2. Len(cut(0, p)) = n - p BY <1>6, <3>1
    <3> QED BY <1>1, <3>2
  <2>3. new = Shadow(cut(0, p), m, 0, FALSE)
    BY <1>2, <1>5, <1>14 DEF new, update_from_edit_command, Shadow, n, t, cut
  <2> HIDE DEF m
  <2>4. Certain(old) = C(cut(0, p), 0) BY <1>3, <2>1
  <2> QED BY <2>2, <2>3, <2>4 DEF C, new, old, s
<1>15. CASE c \in LineWise
  <2>1. Newlines(r.text) = {} BY <1>15 DEF Simple, Inserts, LineWise
  <2>2. LineStart(r) = 0 /\ LineEnd(r) = n BY <2>1, LineEndsIs DEF n
  <2>3. CASE c.c = "MoveToLineStart"
    <3>1. old = [r EXCEPT !.pos = 0] BY <2>2, <2>3 DEF Edited, old
    <3>2. new = [s EXCEPT !.cursor_pos = 0]
      BY <1>2, <2>3 DEF new, update_from_edit_command, Shadow
    <3> QED BY <1>10, <2>3, <3>1, <3>2 DEF new, old, s
  <2>4. CASE c.c = "MoveToLineEnd"
    <3>1. old = [r EXCEPT !.pos = n] BY <2>2, <2>4 DEF Edited, old
    <3>2. new = [s EXCEPT !.cursor_pos = n]
      BY <1>2, <2>4 DEF new, update_from_edit_command, Shadow
    <3> QED BY <1>10, <2>4, <3>1, <3>2 DEF new, old, s
  <2>5. CASE c.c = "CutToLineEnd"
    <3>1. old = [text |-> cut(p, n), pos |-> p] BY <2>2, <2>5 DEF Edited, old, t, p, cut
    <3>2. cut(p, n) = SubSeq(t, 1, p) BY <1>1, CutIs DEF cut, n, t
    <3>3. Len(cut(p, n)) = p
      <4>1. p \in 0..n /\ n \in p..n /\ n - (n - p) = p BY <1>1
      <4> QED BY <1>6, <4>1
    <3>4. new = Shadow(SubSeq(t, 1, p), p, p, FALSE)
      BY <1>2, <1>5, <2>5 DEF new, update_from_edit_command, Shadow, n, t
    <3> QED BY <1>3, <3>1, <3>2, <3>3, <3>4 DEF C, new, old, s
  <2> QED BY <1>15, <2>3, <2>4, <2>5 DEF LineWise
<1> QED BY <1>7, <1>8, <1>9, <1>11, <1>12, <1>13, <1>14, <1>15 DEF Simple, Inserts

-----------------------------------------------------------------------------
(* Several commands, one after the other.                                  *)

EditRun(a, r, cmds) ==
  /\ a[0] = r /\ \A n \in 1..Len(cmds) : a[n] = Edited(a[n - 1], cmds[n])
  /\ \A n \in 0..Len(cmds) : a[n] \in Line
FollowRun(a, s, cmds) ==
  /\ a[0] = s /\ \A n \in 1..Len(cmds) : a[n] = update_from_edit_command(a[n - 1], cmds[n])
  /\ \A n \in 0..Len(cmds) : a[n] \in Sound

LEMMA EditFold ==
  ASSUME NEW r \in Line, NEW cmds \in Seq(EditCommands)
  PROVE  \E a : EditRun(a, r, cmds) /\ FoldLeft(Edited, r, cmds) = a[Len(cmds)]
<1> DEFINE N == Len(cmds)
           g == [x \in Line \X EditCommands |-> Edited(x[1], x[2])]
           Is(h) == h = [s \in SUBSET (1..N) |->
                           IF s = {} THEN r ELSE Edited(h[s \ {Max(s)}], cmds[Max(s)])]
<1>1. N \in Nat /\ cmds \in [1..N -> EditCommands] /\ DOMAIN cmds = 1..N OBVIOUS
<1>2. g \in [Line \X EditCommands -> Line] BY EditedIs
<1>3. \A x \in Line, c \in EditCommands : g[<<x, c>>] = Edited(x, c) OBVIOUS
<1>4. FoldLeft(Edited, r, cmds) = (CHOOSE h : Is(h))[1..N]
  BY <1>1 DEF FoldLeft, MapThenFoldSet
<1> HIDE DEF g, N
<1>5. PICK e \in [SUBSET (1..N) -> Line] : Folded(e, N, r, cmds, g)
  BY <1>1, <1>2, FoldExists
<1>6. ASSUME NEW s \in SUBSET (1..N), s # {}
      PROVE  cmds[Max(s)] \in EditCommands /\ s \ {Max(s)} \in SUBSET (1..N)
  <2>1. s \in SUBSET (0..N) BY <1>1
  <2>2. Max(s) \in s BY <1>1, <1>6, <2>1, GreatestUpTo
  <2> QED BY <1>1, <2>2
<1>7. Is(e)
  <2>1. ASSUME NEW s \in SUBSET (1..N)
        PROVE  e[s] = IF s = {} THEN r ELSE Edited(e[s \ {Max(s)}], cmds[Max(s)])
    <3>1. CASE s = {} BY <1>5, <3>1 DEF Folded
    <3>2. CASE s # {}
      <4>1. e[s] = g[<<e[s \ {Max(s)}], cmds[Max(s)]>>] BY <1>5, <3>2 DEF Folded
      <4>2. e[s \ {Max(s)}] \in Line /\ cmds[Max(s)] \in EditCommands BY <1>5, <1>6, <3>2
      <4>3. e[s] = Edited(e[s \ {Max(s)}], cmds[Max(s)]) BY <1>3, <4>1, <4>2
      <4> QED BY <3>2, <4>3
    <3> QED BY <3>1, <3>2
  <2> QED BY <1>5, <2>1
<1> HIDE DEF Is
<1> DEFINE h == CHOOSE h : Is(h)
<1>8. Is(h) BY <1>7
<1> HIDE DEF h
<1>9. FoldsIn(Line, EditCommands, h, N, r, cmds, g)
  <2>1. h[{}] = r BY <1>8 DEF Is
  <2>2. ASSUME NEW s \in SUBSET (1..N), s # {}, h[s \ {Max(s)}] \in Line
        PROVE  h[s] = g[<<h[s \ {Max(s)}], cmds[Max(s)]>>]
    <3>1. h[s] = Edited(h[s \ {Max(s)}], cmds[Max(s)]) BY <1>8, <2>2 DEF Is
    <3>2. cmds[Max(s)] \in EditCommands BY <1>6, <2>2
    <3> QED BY <1>3, <2>2, <3>1, <3>2
  <2> QED BY <1>1, <1>2, <2>1, <2>2 DEF FoldsIn
<1>10. PICK a : Runs(Line, a, N, r, cmds, g) /\ a[N] = h[1..N]
  BY <1>1, <1>9, FoldRuns
<1>11. ASSUME NEW n \in 1..N PROVE a[n] = Edited(a[n - 1], cmds[n])
  <2>1. n - 1 \in 0..N BY <1>1
  <2>2. a[n - 1] \in Line /\ cmds[n] \in EditCommands BY <1>1, <1>10, <2>1 DEF Runs
  <2>3. a[n] = g[<<a[n - 1], cmds[n]>>] BY <1>10 DEF Runs
  <2> QED BY <1>3, <2>2, <2>3
<1>12. EditRun(a, r, cmds) BY <1>10, <1>11 DEF EditRun, Runs, N
<1>13. FoldLeft(Edited, r, cmds) = a[N] BY <1>4, <1>10 DEF h
<1> QED BY <1>12, <1>13 DEF N

LEMMA FollowFold ==
  ASSUME NEW r \in Sound, NEW cmds \in Seq(EditCommands)
  PROVE  \E a : FollowRun(a, r, cmds) /\ Follow(r, cmds) = a[Len(cmds)]
<1> DEFINE N == Len(cmds)
           g == [x \in Sound \X EditCommands |-> update_from_edit_command(x[1], x[2])]
           Is(h) == h = [s \in SUBSET (1..N) |->
                           IF s = {} THEN r ELSE update_from_edit_command(h[s \ {Max(s)}], cmds[Max(s)])]
<1>1. N \in Nat /\ cmds \in [1..N -> EditCommands] /\ DOMAIN cmds = 1..N OBVIOUS
<1>2. g \in [Sound \X EditCommands -> Sound] BY FollowedIs
<1>3. \A x \in Sound, c \in EditCommands : g[<<x, c>>] = update_from_edit_command(x, c) OBVIOUS
<1>4. Follow(r, cmds) = (CHOOSE h : Is(h))[1..N]
  BY <1>1 DEF Follow, FoldLeft, MapThenFoldSet
<1> HIDE DEF g, N
<1>5. PICK e \in [SUBSET (1..N) -> Sound] : Folded(e, N, r, cmds, g)
  BY <1>1, <1>2, FoldExists
<1>6. ASSUME NEW s \in SUBSET (1..N), s # {}
      PROVE  cmds[Max(s)] \in EditCommands /\ s \ {Max(s)} \in SUBSET (1..N)
  <2>1. s \in SUBSET (0..N) BY <1>1
  <2>2. Max(s) \in s BY <1>1, <1>6, <2>1, GreatestUpTo
  <2> QED BY <1>1, <2>2
<1>7. Is(e)
  <2>1. ASSUME NEW s \in SUBSET (1..N)
        PROVE  e[s] = IF s = {} THEN r ELSE update_from_edit_command(e[s \ {Max(s)}], cmds[Max(s)])
    <3>1. CASE s = {} BY <1>5, <3>1 DEF Folded
    <3>2. CASE s # {}
      <4>1. e[s] = g[<<e[s \ {Max(s)}], cmds[Max(s)]>>] BY <1>5, <3>2 DEF Folded
      <4>2. e[s \ {Max(s)}] \in Sound /\ cmds[Max(s)] \in EditCommands BY <1>5, <1>6, <3>2
      <4>3. e[s] = update_from_edit_command(e[s \ {Max(s)}], cmds[Max(s)]) BY <1>3, <4>1, <4>2
      <4> QED BY <3>2, <4>3
    <3> QED BY <3>1, <3>2
  <2> QED BY <1>5, <2>1
<1> HIDE DEF Is
<1> DEFINE h == CHOOSE h : Is(h)
<1>8. Is(h) BY <1>7
<1> HIDE DEF h
<1>9. FoldsIn(Sound, EditCommands, h, N, r, cmds, g)
  <2>1. h[{}] = r BY <1>8 DEF Is
  <2>2. ASSUME NEW s \in SUBSET (1..N), s # {}, h[s \ {Max(s)}] \in Sound
        PROVE  h[s] = g[<<h[s \ {Max(s)}], cmds[Max(s)]>>]
    <3>1. h[s] = update_from_edit_command(h[s \ {Max(s)}], cmds[Max(s)]) BY <1>8, <2>2 DEF Is
    <3>2. cmds[Max(s)] \in EditCommands BY <1>6, <2>2
    <3> QED BY <1>3, <2>2, <3>1, <3>2
  <2> QED BY <1>1, <1>2, <2>1, <2>2 DEF FoldsIn
<1>10. PICK a : Runs(Sound, a, N, r, cmds, g) /\ a[N] = h[1..N]
  BY <1>1, <1>9, FoldRuns
<1>11. ASSUME NEW n \in 1..N PROVE a[n] = update_from_edit_command(a[n - 1], cmds[n])
  <2>1. n - 1 \in 0..N BY <1>1
  <2>2. a[n - 1] \in Sound /\ cmds[n] \in EditCommands BY <1>1, <1>10, <2>1 DEF Runs
  <2>3. a[n] = g[<<a[n - 1], cmds[n]>>] BY <1>10 DEF Runs
  <2> QED BY <1>3, <2>2, <2>3
<1>12. FollowRun(a, r, cmds) BY <1>10, <1>11 DEF FollowRun, Runs, N
<1>13. Follow(r, cmds) = a[N] BY <1>4, <1>10 DEF h
<1> QED BY <1>12, <1>13 DEF N

\* The shadow stays sound, and uncertain; where it is certain it goes as the line does.
LEMMA FollowIs ==
  ASSUME NEW s \in Sound, NEW cmds \in Seq(EditCommands)
  PROVE  Follow(s, cmds) \in Sound /\ (s.uncertain => Follow(s, cmds).uncertain)
<1>1. Len(cmds) \in Nat /\ \A n \in 1..Len(cmds) : cmds[n] \in EditCommands OBVIOUS
<1>2. PICK a : FollowRun(a, s, cmds) /\ Follow(s, cmds) = a[Len(cmds)] BY FollowFold
<1>3. Len(cmds) \in 0..Len(cmds) BY <1>1
<1>4. Follow(s, cmds) \in Sound BY <1>2, <1>3 DEF FollowRun
<1>5. ASSUME s.uncertain PROVE a[Len(cmds)].uncertain
  <2> DEFINE S == {n \in 0..Len(cmds) : a[n].uncertain}
  <2>1. 0 \in S BY <1>1, <1>2, <1>5 DEF FollowRun
  <2>2. ASSUME NEW n \in 0..Len(cmds) - 1, n \in S PROVE n + 1 \in S
    <3>1. /\ n + 1 \in 1..Len(cmds) /\ n + 1 - 1 = n /\ n \in 0..Len(cmds)
          /\ n + 1 \in 0..Len(cmds)
      BY <1>1
    <3>2. a[n + 1] = update_from_edit_command(a[n], cmds[n + 1]) /\ a[n] \in Sound
      BY <1>2, <3>1 DEF FollowRun
    <3>3. a[n + 1].uncertain BY <1>1, <2>2, <3>1, <3>2, FollowedIs
    <3> QED BY <3>1, <3>3
  <2> HIDE DEF S
  <2>3. 0..Len(cmds) \subseteq S BY <1>1, <2>1, <2>2, InductionUpTo
  <2> QED BY <1>3, <2>3 DEF S
<1> QED BY <1>2, <1>4, <1>5

LEMMA CertainIs ==
  ASSUME NEW r \in Line
  PROVE  Certain(r) \in Sound
<1>1. r.text \in Seq(Characters) /\ Len(r.text) \in Nat /\ r.pos \in Nat /\ r.pos <= Len(r.text)
  BY DEF Line
<1> QED BY <1>1 DEF Certain, Sound

LEMMA FollowExactly ==
  ASSUME NEW r \in Line, NEW cmds \in Seq(Simple)
  PROVE  Follow(Certain(r), cmds) = Certain(FoldLeft(Edited, r, cmds))
<1>1. Len(cmds) \in Nat /\ \A n \in 1..Len(cmds) : cmds[n] \in Simple OBVIOUS
<1>2. cmds \in Seq(EditCommands)
  <2>1. Simple \subseteq EditCommands BY DEF EditCommands
  <2> QED BY <2>1
<1>3. PICK a : EditRun(a, r, cmds) /\ FoldLeft(Edited, r, cmds) = a[Len(cmds)]
  BY <1>2, EditFold
<1>4. PICK s \in Sound : s = Certain(r) BY CertainIs
<1>5. PICK b : FollowRun(b, s, cmds) /\ Follow(s, cmds) = b[Len(cmds)]
  BY <1>2, FollowFold
<1> DEFINE S == {n \in 0..Len(cmds) : b[n] = Certain(a[n])}
<1>6. 0 \in S BY <1>1, <1>3, <1>4, <1>5 DEF EditRun, FollowRun
<1>7. ASSUME NEW n \in 0..Len(cmds) - 1, n \in S PROVE n + 1 \in S
  <2>1. /\ n + 1 \in 1..Len(cmds) /\ n + 1 - 1 = n /\ n \in 0..Len(cmds)
        /\ n + 1 \in 0..Len(cmds)
    BY <1>1
  <2>2. b[n + 1] = update_from_edit_command(b[n], cmds[n + 1]) BY <1>5, <2>1 DEF FollowRun
  <2>3. a[n + 1] = Edited(a[n], cmds[n + 1]) /\ a[n] \in Line BY <1>3, <2>1 DEF EditRun
  <2>4. b[n] = Certain(a[n]) BY <1>7
  <2>5. update_from_edit_command(Certain(a[n]), cmds[n + 1]) = Certain(Edited(a[n], cmds[n + 1]))
    BY <1>1, <2>1, <2>3, FollowedExactly
  <2> QED BY <2>1, <2>2, <2>3, <2>4, <2>5
<1> HIDE DEF S
<1>8. 0..Len(cmds) \subseteq S BY <1>1, <1>6, <1>7, InductionUpTo
<1>9. Len(cmds) \in S BY <1>1, <1>8
<1> QED BY <1>3, <1>4, <1>5, <1>9 DEF S

\* One command alone
LEMMA Alone ==
  ASSUME NEW c \in EditCommands
  PROVE  /\ \A r \in Line : FoldLeft(Edited, r, <<c>>) = Edited(r, c)
         /\ \A s \in Sound : Follow(s, <<c>>) = update_from_edit_command(s, c)
<1>1. <<c>> \in Seq(EditCommands) /\ Len(<<c>>) = 1 /\ <<c>>[1] = c OBVIOUS
<1>2. PICK cmds \in Seq(EditCommands) : cmds = <<c>> BY <1>1
<1>3. Len(cmds) = 1 /\ cmds[1] = c BY <1>1, <1>2
<1>4. 1 \in 1..Len(cmds) /\ 1 - 1 = 0 BY <1>3
<1>5. ASSUME NEW r \in Line PROVE FoldLeft(Edited, r, cmds) = Edited(r, c)
  <2>1. PICK a : EditRun(a, r, cmds) /\ FoldLeft(Edited, r, cmds) = a[Len(cmds)] BY EditFold
  <2> QED BY <1>3, <1>4, <2>1 DEF EditRun
<1>6. ASSUME NEW s \in Sound PROVE Follow(s, cmds) = update_from_edit_command(s, c)
  <2>1. PICK a : FollowRun(a, s, cmds) /\ Follow(s, cmds) = a[Len(cmds)] BY FollowFold
  <2> QED BY <1>3, <1>4, <2>1 DEF FollowRun
<1> QED BY <1>2, <1>5, <1>6

-----------------------------------------------------------------------------
(* Events.                                                                 *)

Edits == [k : {"Edit", "Hint"}, cmds : Seq(EditCommands)]
Foreseeable == Edits \cup [k : {"Left"}]
Event == Foreseeable \cup [k : {"Shell", "Recall", "CtrlD", "CtrlC", "Enter"}]

\* The commands of one event are all followed in any line, or there is one only.
Regular ==
  {e \in Event : e \in Edits => e.cmds \in Seq(Simple) \/ \E c \in EditCommands : e.cmds = <<c>>}

LEMMA MovedIs ==
  ASSUME NEW r \in Line, NEW e \in Foreseeable
  PROVE  Moved(r, e) \in Line
<1>1. CASE e.k = "Left"
  <2>1. Cmd("MoveLeft") \in EditCommands BY DEF Cmd, EditCommands, Simple
  <2> QED BY <1>1, <2>1, EditedIs DEF Moved
<1>2. CASE e.k # "Left"
  <2>1. e.cmds \in Seq(EditCommands) BY <1>2 DEF Foreseeable, Edits
  <2>2. PICK cmds \in Seq(EditCommands) : cmds = e.cmds BY <2>1
  <2>3. PICK a : EditRun(a, r, cmds) /\ FoldLeft(Edited, r, cmds) = a[Len(cmds)]
    BY EditFold
  <2>4. Len(cmds) \in 0..Len(cmds) OBVIOUS
  <2> QED BY <1>2, <2>2, <2>3, <2>4 DEF Moved, EditRun
<1> QED BY <1>1, <1>2

MoveRun(a, r, given) ==
  /\ a[0] = r /\ \A n \in 1..Len(given) : a[n] = Moved(a[n - 1], given[n])
  /\ \A n \in 0..Len(given) : a[n] \in Line

LEMMA AheadFold ==
  ASSUME NEW r \in Line, NEW given \in Seq(Foreseeable)
  PROVE  \E a : MoveRun(a, r, given) /\ FoldLeft(Moved, r, given) = a[Len(given)]
<1> DEFINE N == Len(given)
           g == [x \in Line \X Foreseeable |-> Moved(x[1], x[2])]
           Is(h) == h = [s \in SUBSET (1..N) |->
                           IF s = {} THEN r ELSE Moved(h[s \ {Max(s)}], given[Max(s)])]
<1>1. N \in Nat /\ given \in [1..N -> Foreseeable] /\ DOMAIN given = 1..N OBVIOUS
<1>2. g \in [Line \X Foreseeable -> Line] BY MovedIs
<1>3. \A x \in Line, c \in Foreseeable : g[<<x, c>>] = Moved(x, c) OBVIOUS
<1>4. FoldLeft(Moved, r, given) = (CHOOSE h : Is(h))[1..N]
  BY <1>1 DEF FoldLeft, MapThenFoldSet
<1> HIDE DEF g, N
<1>5. PICK e \in [SUBSET (1..N) -> Line] : Folded(e, N, r, given, g)
  BY <1>1, <1>2, FoldExists
<1>6. ASSUME NEW s \in SUBSET (1..N), s # {}
      PROVE  given[Max(s)] \in Foreseeable /\ s \ {Max(s)} \in SUBSET (1..N)
  <2>1. s \in SUBSET (0..N) BY <1>1
  <2>2. Max(s) \in s BY <1>1, <1>6, <2>1, GreatestUpTo
  <2> QED BY <1>1, <2>2
<1>7. Is(e)
  <2>1. ASSUME NEW s \in SUBSET (1..N)
        PROVE  e[s] = IF s = {} THEN r ELSE Moved(e[s \ {Max(s)}], given[Max(s)])
    <3>1. CASE s = {} BY <1>5, <3>1 DEF Folded
    <3>2. CASE s # {}
      <4>1. e[s] = g[<<e[s \ {Max(s)}], given[Max(s)]>>] BY <1>5, <3>2 DEF Folded
      <4>2. e[s \ {Max(s)}] \in Line /\ given[Max(s)] \in Foreseeable BY <1>5, <1>6, <3>2
      <4>3. e[s] = Moved(e[s \ {Max(s)}], given[Max(s)]) BY <1>3, <4>1, <4>2
      <4> QED BY <3>2, <4>3
    <3> QED BY <3>1, <3>2
  <2> QED BY <1>5, <2>1
<1> HIDE DEF Is
<1> DEFINE h == CHOOSE h : Is(h)
<1>8. Is(h) BY <1>7
<1> HIDE DEF h
<1>9. FoldsIn(Line, Foreseeable, h, N, r, given, g)
  <2>1. h[{}] = r BY <1>8 DEF Is
  <2>2. ASSUME NEW s \in SUBSET (1..N), s # {}, h[s \ {Max(s)}] \in Line
        PROVE  h[s] = g[<<h[s \ {Max(s)}], given[Max(s)]>>]
    <3>1. h[s] = Moved(h[s \ {Max(s)}], given[Max(s)]) BY <1>8, <2>2 DEF Is
    <3>2. given[Max(s)] \in Foreseeable BY <1>6, <2>2
    <3> QED BY <1>3, <2>2, <3>1, <3>2
  <2> QED BY <1>1, <1>2, <2>1, <2>2 DEF FoldsIn
<1>10. PICK a : Runs(Line, a, N, r, given, g) /\ a[N] = h[1..N]
  BY <1>1, <1>9, FoldRuns
<1>11. ASSUME NEW n \in 1..N PROVE a[n] = Moved(a[n - 1], given[n])
  <2>1. n - 1 \in 0..N BY <1>1
  <2>2. a[n - 1] \in Line /\ given[n] \in Foreseeable BY <1>1, <1>10, <2>1 DEF Runs
  <2>3. a[n] = g[<<a[n - 1], given[n]>>] BY <1>10 DEF Runs
  <2> QED BY <1>3, <2>2, <2>3
<1>12. MoveRun(a, r, given) BY <1>10, <1>11 DEF MoveRun, Runs, N
<1>13. FoldLeft(Moved, r, given) = a[N] BY <1>4, <1>10 DEF h
<1> QED BY <1>12, <1>13 DEF N

\* The line has a hint at its end; and what a key does to the line is no question.
AtHint(r) == r.pos = Len(r.text) /\ r.text # <<>>
Sure(r, e) ==
  /\ e.k = "Hint" => ~AtHint(r)
  /\ e.k \in {"Edit", "Hint"} /\ e.cmds # <<>> =>
       e.cmds[1].c \notin {"CutWordLeft", "CutWordRight", "Other"}

LEMMA EventIs ==
  ASSUME NEW e \in Event
  PROVE  /\ e.k \in {"Edit", "Hint"} <=> e \in Edits
         /\ e.k \in {"Edit", "Hint", "Left"} <=> e \in Foreseeable
         /\ e \in Edits => e.cmds \in Seq(EditCommands)
BY DEF Event, Foreseeable, Edits

LEMMA LeftIs == Cmd("MoveLeft") \in EditCommands /\ Cmd("MoveLeft") \in Simple
BY DEF Cmd, EditCommands, Simple

\* An event leaves the shadow sound and uncertain; what ends the reading makes it so.
LEMMA EventKept ==
  ASSUME NEW s \in Sound, NEW e \in Event
  PROVE  /\ update_from_event(s, e) \in Sound
         /\ s.uncertain => update_from_event(s, e).uncertain
         /\ e.k \in {"Shell", "Enter"} => update_from_event(s, e).uncertain
<1> DEFINE unsure(x) == [x EXCEPT !.uncertain = TRUE]
           new == update_from_event(s, e)
<1>1. ASSUME NEW x \in Sound PROVE unsure(x) \in Sound /\ unsure(x).uncertain BY DEF Sound
<1> HIDE DEF unsure
<1>2. CASE e.k = "Hint" /\ s.cursor_pos = s.buffer_len /\ s.buffer_len > 0
  <2>1. new = unsure(s) BY <1>2 DEF update_from_event, unsure
  <2> QED BY <1>1, <2>1
<1>3. CASE ~(e.k = "Hint" /\ s.cursor_pos = s.buffer_len /\ s.buffer_len > 0)
  <2>1. new = update_without_hint(s, e) BY <1>3 DEF update_from_event
  <2>2. CASE e.k \in {"Edit", "Hint"}
    <3>1. new = Follow(s, e.cmds) /\ e.cmds \in Seq(EditCommands)
      BY <2>1, <2>2, EventIs DEF update_without_hint
    <3> QED BY <2>2, <3>1, FollowIs
  <2>3. CASE e.k = "Shell"
    <3>1. new = unsure(Follow(s, <<ShellCommand>>)) BY <2>1, <2>3 DEF update_without_hint, unsure
    <3>2. ShellCommand \in EditCommands
      <4>1. ":" \in Characters /\ "a" \in Characters BY DEF Characters
      <4>2. <<":", "a">> \in Seq(Characters) BY <4>1
      <4> QED BY <4>2 DEF ShellCommand, Insert, EditCommands, Simple, Inserts
    <3>3. <<ShellCommand>> \in Seq(EditCommands) BY <3>2
    <3> QED BY <1>1, <3>1, <3>3, FollowIs
  <2>4. CASE e.k = "Enter"
    <3>1. new = unsure(s) BY <2>1, <2>4 DEF update_without_hint, unsure
    <3> QED BY <1>1, <3>1
  <2>5. CASE e.k = "Left"
    <3>1. new = Follow(s, <<Cmd("MoveLeft")>>) BY <2>1, <2>5 DEF update_without_hint
    <3>2. <<Cmd("MoveLeft")>> \in Seq(EditCommands) BY LeftIs
    <3> QED BY <2>5, <3>1, <3>2, FollowIs
  <2>6. CASE e.k \in {"Recall", "CtrlD", "CtrlC"}
    <3>1. new = s BY <2>1, <2>6 DEF update_without_hint
    <3> QED BY <2>6, <3>1
  <2> QED BY <2>2, <2>3, <2>4, <2>5, <2>6 DEF Event, Foreseeable, Edits
<1> QED BY <1>2, <1>3

\* An exact shadow that stays certain stays exact, and nothing that may happen is left open.
LEMMA EventFollowed ==
  ASSUME NEW r \in Line, NEW e \in Regular, e \in Foreseeable,
         ~update_from_event(Certain(r), e).uncertain,
         Newlines(r.text) = {} \/ ~(e \in Edits /\ \E i \in DOMAIN e.cmds :
           e.cmds[i].c \in {"MoveToLineStart", "MoveToLineEnd", "CutToLineEnd"})
  PROVE  Sure(r, e) /\ update_from_event(Certain(r), e) = Certain(Moved(r, e))
<1> DEFINE s == Certain(r)  new == update_from_event(s, e)
<1>1. s \in Sound BY CertainIs
<1>2. ~(e.k = "Hint" /\ AtHint(r))
  <2> SUFFICES ASSUME e.k = "Hint", AtHint(r) PROVE FALSE OBVIOUS
  <2>1. r.text \in Seq(Characters) /\ r.text # <<>> /\ r.pos = Len(r.text) BY DEF AtHint, Line
  <2>2. Len(r.text) \in Nat /\ Len(r.text) > 0 BY <2>1
  <2>3. s.cursor_pos = s.buffer_len /\ s.buffer_len > 0 BY <2>1, <2>2 DEF Certain
  <2>4. new = [s EXCEPT !.uncertain = TRUE] BY <2>3 DEF update_from_event
  <2>5. new.uncertain BY <1>1, <2>4 DEF Sound
  <2> QED BY <2>5
<1>3. new = update_without_hint(s, e)
  <2>1. ~(e.k = "Hint" /\ s.cursor_pos = s.buffer_len /\ s.buffer_len > 0)
    <3> SUFFICES ASSUME e.k = "Hint", s.cursor_pos = s.buffer_len, s.buffer_len > 0 PROVE FALSE
      OBVIOUS
    <3>1. r.pos = Len(r.text) /\ Len(r.text) > 0 BY DEF Certain
    <3>2. r.text # <<>> BY <3>1
    <3> QED BY <1>2, <3>1, <3>2 DEF AtHint
  <2> QED BY <2>1 DEF update_from_event
<1>4. CASE e.k = "Left"
  <2>1. new = Follow(s, <<Cmd("MoveLeft")>>) BY <1>3, <1>4 DEF update_without_hint
  <2>2. new = update_from_edit_command(s, Cmd("MoveLeft")) BY <1>1, <2>1, LeftIs, Alone
  <2>3. new = Certain(Edited(r, Cmd("MoveLeft"))) BY <2>2, LeftIs, FollowedExactly
  <2> QED BY <1>4, <2>3 DEF Moved, Sure
<1>5. CASE e.k # "Left"
  <2>0. e \in Edits /\ e.k \in {"Edit", "Hint"} BY <1>5 DEF Foreseeable, Edits
  <2>1. new = Follow(s, e.cmds) BY <1>3, <2>0 DEF update_without_hint
  <2>2. Moved(r, e) = FoldLeft(Edited, r, e.cmds) BY <1>5 DEF Moved
  <2>3. CASE e.cmds \in Seq(Simple)
    <3>1. new = Certain(Moved(r, e)) BY <2>1, <2>2, <2>3, FollowExactly
    <3>2. e.cmds # <<>> => e.cmds[1] \in Simple BY <2>3
    <3>3. \A c \in Simple : c.c \notin {"CutWordLeft", "CutWordRight", "Other"}
      BY DEF Simple, Inserts
    <3> QED BY <1>2, <3>1, <3>2, <3>3 DEF Sure
  <2>4. CASE \E c \in EditCommands : e.cmds = <<c>>
    <3>1. PICK c \in EditCommands : e.cmds = <<c>> BY <2>4
    <3>2. new = update_from_edit_command(s, c) BY <1>1, <2>1, <3>1, Alone
    <3>3. c \notin Unsure BY <1>1, <3>2, FollowedIs
    <3>4. c \in Simple \cup LineWise BY <3>3 DEF EditCommands
    <3>5. e.cmds[1] = c /\ 1 \in DOMAIN e.cmds BY <3>1
    <3>6. c \in Simple \/ Newlines(r.text) = {}
      <4>1. c \in LineWise => c.c \in {"MoveToLineStart", "MoveToLineEnd", "CutToLineEnd"}
        BY DEF LineWise
      <4> QED BY <2>0, <3>4, <3>5, <4>1
    <3>7. new = Certain(Edited(r, c)) BY <3>2, <3>4, <3>6, FollowedExactly
    <3>8. Moved(r, e) = Edited(r, c) BY <2>2, <3>1, Alone
    <3>9. c.c \notin {"CutWordLeft", "CutWordRight", "Other"}
      BY <3>4 DEF Simple, Inserts, LineWise
    <3> QED BY <1>2, <3>5, <3>7, <3>8, <3>9 DEF Sure
  <2> QED BY <2>0, <2>3, <2>4 DEF Regular
<1> QED BY <1>4, <1>5

-----------------------------------------------------------------------------
(* The keys.                                                               *)

LEMMA CommandsAre ==
  /\ \A c \in {"Backspace", "Delete", "MoveLeft", "MoveRight", "MoveToEnd", "CutFromStart"} :
       Cmd(c) \in Simple
  /\ \A c \in {"MoveToLineStart", "MoveToLineEnd", "CutToLineEnd"} : Cmd(c) \in LineWise
  /\ \A c \in {"CutWordLeft", "CutWordRight", "Other"} : Cmd(c) \in Unsure
  /\ \A s \in Seq(Characters) : Insert(s) \in Simple
BY DEF Cmd, Insert, Simple, Inserts, LineWise, Unsure

LEMMA SimpleRegular ==
  ASSUME NEW cmds \in Seq(Simple), NEW k \in {"Edit", "Hint"}
  PROVE  [k |-> k, cmds |-> cmds] \in Regular
<1>1. cmds \in Seq(EditCommands)
  <2>1. Simple \subseteq EditCommands BY DEF EditCommands
  <2> QED BY <2>1
<1> QED BY <1>1 DEF Regular, Event, Foreseeable, Edits

LEMMA SingleRegular ==
  ASSUME NEW c \in EditCommands, NEW k \in {"Edit", "Hint"}
  PROVE  [k |-> k, cmds |-> <<c>>] \in Regular
<1>1. <<c>> \in Seq(EditCommands) OBVIOUS
<1> QED BY <1>1 DEF Regular, Event, Foreseeable, Edits

LEMMA TypedIs ==
  ASSUME EditorAssumption, NEW c \in Typed
  PROVE  apply_rules(c) \in Regular
<1>1. c \in Characters BY DEF EditorAssumption
<1>2. \A x \in Characters : <<x>> \in Seq(Characters) OBVIOUS
<1>3. \A x, y \in Characters : <<x, y>> \in Seq(Characters) OBVIOUS
<1>4. /\ "(" \in Characters /\ ")" \in Characters /\ "quote" \in Characters /\ ";" \in Characters
  BY DEF Characters
<1>5. ASSUME NEW x \in Characters PROVE Char(x) \in Regular
  <2>1. Insert(<<x>>) \in Simple BY <1>2, CommandsAre
  <2>2. <<Insert(<<x>>)>> \in Seq(Simple) BY <2>1
  <2> QED BY <2>2, SimpleRegular DEF Char, Edit
<1>6. ASSUME NEW x \in Characters, NEW y \in Characters PROVE Pair(x, y) \in Regular
  <2>1. Insert(<<x, y>>) \in Simple /\ Cmd("MoveLeft") \in Simple BY <1>3, CommandsAre
  <2>2. <<Insert(<<x, y>>), Cmd("MoveLeft")>> \in Seq(Simple) BY <2>1
  <2> QED BY <2>2, SimpleRegular DEF Pair, Edit
<1>7. MoveRight \in Regular
  <2>1. Cmd("MoveRight") \in Simple BY CommandsAre
  <2>2. <<Cmd("MoveRight")>> \in Seq(Simple) BY <2>1
  <2> QED BY <2>2, SimpleRegular DEF MoveRight, Edit
<1>8. [k |-> "Shell"] \in Regular BY DEF Regular, Event, Foreseeable, Edits
<1>9. apply_rules(c) \in {Pair("(", ")"), Pair("quote", "quote"), MoveRight, Char(c),
                          Char("("), Char(")"), Char("quote"), Char(";"), [k |-> "Shell"]}
  <2>1. CASE c = "(" BY <2>1 DEF apply_rules
  <2>2. CASE c = ")" BY <2>2 DEF apply_rules
  <2>3. CASE c = "quote" BY <2>3 DEF apply_rules
  <2>4. CASE c = ";" BY <2>4 DEF apply_rules
  <2>5. CASE c \notin {"(", ")", "quote", ";"} BY <2>5 DEF apply_rules
  <2> QED BY <2>1, <2>2, <2>3, <2>4, <2>5
<1> QED BY <1>1, <1>4, <1>5, <1>6, <1>7, <1>8, <1>9

LEMMA RepeatedIs ==
  ASSUME NEW n \in Nat, NEW c \in Simple
  PROVE  [i \in 1..n |-> c] \in Seq(Simple)
OBVIOUS

LEMMA BackspaceIs == BackspaceEvent \in Regular
<1>1. Cmd("Backspace") \in Simple /\ Cmd("Delete") \in Simple BY CommandsAre
<1>2. <<Cmd("Backspace"), Cmd("Delete")>> \in Seq(Simple) /\ <<Cmd("Backspace")>> \in Seq(Simple)
  BY <1>1
<1> QED BY <1>2, SimpleRegular DEF BackspaceEvent, Edit

LEMMA WordsAre ==
  ASSUME eShadow \in Sound, NEW e \in WordLeftEvents \cup HintEvents
  PROVE  e \in Regular
<1>1. eShadow.cursor_pos \in Nat /\ Len(eShadow.buffer) \in Nat BY DEF Sound
<1>2. /\ Cmd("MoveLeft") \in Simple /\ Cmd("MoveRight") \in Simple
      /\ Cmd("MoveRight") \in EditCommands /\ Cmd("MoveToLineEnd") \in EditCommands
      /\ Cmd("Other") \in EditCommands
  BY CommandsAre DEF EditCommands
<1>3. CASE e \in WordLeftEvents
  <2>1. CASE eShadow.uncertain
    <3>1. e = [k |-> "Edit", cmds |-> <<Cmd("Other")>>] BY <1>3, <2>1 DEF WordLeftEvents, Edit
    <3> QED BY <1>2, <3>1, SingleRegular
  <2>2. CASE ~eShadow.uncertain
    <3>1. PICK n \in 0..eShadow.cursor_pos :
            e = [k |-> "Edit", cmds |-> [i \in 1..n |-> Cmd("MoveLeft")]]
      BY <1>3, <2>2 DEF WordLeftEvents, Edit
    <3>2. n \in Nat BY <1>1
    <3>3. [i \in 1..n |-> Cmd("MoveLeft")] \in Seq(Simple) BY <1>2, <3>2, RepeatedIs
    <3> QED BY <3>1, <3>3, SimpleRegular
  <2> QED BY <2>1, <2>2
<1>4. CASE e \in HintEvents
  <2>1. ASSUME NEW c \in {"MoveRight", "MoveToLineEnd", "Other"},
               e = [k |-> "Hint", cmds |-> <<Cmd(c)>>]
        PROVE  e \in Regular
    <3>1. Cmd(c) \in EditCommands BY <1>2
    <3> QED BY <2>1, <3>1, SingleRegular
  <2>2. ASSUME NEW n \in 0..Len(eShadow.buffer),
               e = [k |-> "Hint", cmds |-> [i \in 1..n |-> Cmd("MoveRight")]]
        PROVE  e \in Regular
    <3>2. n \in Nat BY <1>1
    <3>3. [i \in 1..n |-> Cmd("MoveRight")] \in Seq(Simple) BY <1>2, <3>2, RepeatedIs
    <3> QED BY <2>2, <3>3, SimpleRegular
  <2>3. \/ \E c \in {"MoveRight", "MoveToLineEnd", "Other"} : e = [k |-> "Hint", cmds |-> <<Cmd(c)>>]
        \/ \E n \in 0..Len(eShadow.buffer) :
             e = [k |-> "Hint", cmds |-> [i \in 1..n |-> Cmd("MoveRight")]]
    <3>1. CASE eShadow.uncertain BY <1>4, <3>1 DEF HintEvents
    <3>2. CASE ~eShadow.uncertain BY <1>4, <3>2 DEF HintEvents
    <3> QED BY <3>1, <3>2
  <2> QED BY <2>1, <2>2, <2>3
<1> QED BY <1>3, <1>4

LEMMA OthersAre ==
  ASSUME NEW e \in PlainEdits \cup OtherEvents
  PROVE  e \in Regular
<1>1. CASE e \in PlainEdits
  <2>1. PICK c \in {"Delete", "MoveToLineStart", "MoveToEnd", "CutFromStart",
                    "CutToLineEnd", "CutWordLeft", "CutWordRight", "Other"} :
          e = [k |-> "Edit", cmds |-> <<Cmd(c)>>]
    BY <1>1 DEF PlainEdits, Edit
  <2>2. Cmd(c) \in EditCommands BY DEF Cmd, EditCommands, Simple, LineWise, Unsure
  <2> QED BY <2>1, <2>2, SingleRegular
<1>2. CASE e \in OtherEvents
  BY <1>2 DEF OtherEvents, Regular, Event, Foreseeable, Edits
<1> QED BY <1>1, <1>2

-----------------------------------------------------------------------------
(* The invariant.  A shadow is exact when handling the keys that have been *)
(* parsed leads to it, and none of them leaves open what it does; it may   *)
(* be inexact, or have its cursor behind its end, only between the end of  *)
(* a line, or a line that goes on, and the drawing that corrects it.       *)

Course(a, given, r, s) ==
  /\ MoveRun(a, r, given)
  /\ \A n \in 1..Len(given) : given[n] \in Foreseeable /\ Sure(a[n - 1], given[n])
  /\ s = Certain(a[Len(given)])
Exact(given, r, s) == \E a : Course(a, given, r, s)

ShadowType ==
  [buffer : Seq(Characters), buffer_len : Nat, cursor_pos : Nat, uncertain : BOOLEAN]
EditorTyped ==
  /\ eReal \in Line /\ eShadow \in ShadowType /\ ePending \in Seq(Event)
  /\ eBusy \in BOOLEAN /\ eBlind \in BOOLEAN
PendingTold ==
  \A i \in 1..Len(ePending) :
    /\ ePending[i].k \in {"Recall", "CtrlD"} => eBlind
    /\ ePending[i].k \in {"Shell", "Enter"} => eShadow.uncertain
    /\ ePending[i].k = "Enter" => i = Len(ePending)
InBounds ==
  \/ eShadow.cursor_pos <= eShadow.buffer_len
  \/ eBusy /\ ePending = <<>> /\ ~IsMeta(eReal.text)
FollowsKeys ==
  \/ ~eBlind /\ ~eShadow.uncertain /\ Predictable => Exact(ePending, eReal, eShadow)
  \/ eBusy /\ ePending = <<>> /\ eReal = EmptyLine
EditorInv == EditorTyped /\ PendingTold /\ InBounds /\ FollowsKeys

LEMMA EmptyIs == EmptyLine \in Line /\ ~IsMeta(EmptyLine.text) /\ Newlines(EmptyLine.text) = {}
BY DEF EmptyLine, Line, IsMeta, Newlines

\* With nothing to handle, exact means the same.
LEMMA ExactNow ==
  ASSUME NEW r \in Line
  PROVE  Exact(<<>>, r, Certain(r))
<1> DEFINE a == [n \in {0} |-> r]
<1>1. a[0] = r /\ Len(<<>>) = 0 OBVIOUS
<1>2. MoveRun(a, r, <<>>) BY <1>1 DEF MoveRun
<1> QED BY <1>1, <1>2 DEF Exact, Course

LEMMA CourseStarts ==
  ASSUME EditorAssumption, EditorInit
  PROVE  EditorInv
<1>1. eReal \in Line BY EmptyIs DEF EditorInit
<1>2. eShadow \in Sound BY EmptyIs, CertainIs DEF EditorInit
<1>3. eShadow \in ShadowType /\ eShadow.cursor_pos <= eShadow.buffer_len
  BY <1>2 DEF Sound, ShadowType
<1>4. ePending = <<>> /\ Len(ePending) = 0 /\ ePending \in Seq(Event) BY DEF EditorInit
<1>5. Exact(ePending, eReal, eShadow) BY <1>4, EmptyIs, ExactNow DEF EditorInit
<1>6. eBusy \in BOOLEAN /\ eBlind \in BOOLEAN BY DEF EditorInit
<1> QED BY <1>1, <1>3, <1>4, <1>5, <1>6
    DEF EditorInv, EditorTyped, PendingTold, InBounds, FollowsKeys

\* One key more
LEMMA CourseGrows ==
  ASSUME NEW given \in Seq(Event), NEW r \in Line, NEW s, Exact(given, r, s), NEW e \in Regular,
         e \in Foreseeable, ~update_from_event(s, e).uncertain,
         Newlines(s.buffer) = {} \/ ~(e \in Edits /\ \E i \in DOMAIN e.cmds :
           e.cmds[i].c \in {"MoveToLineStart", "MoveToLineEnd", "CutToLineEnd"})
  PROVE  Exact(Append(given, e), r, update_from_event(s, e))
<1>1. PICK a : Course(a, given, r, s) BY DEF Exact
<1> DEFINE N == Len(given)
           more == Append(given, e)
           b == [n \in 0..N + 1 |-> IF n <= N THEN a[n] ELSE Moved(a[N], e)]
<1>2. /\ N \in Nat /\ N \in 0..N /\ Len(more) = N + 1 /\ more[N + 1] = e
      /\ \A n \in 1..N : more[n] = given[n]
  OBVIOUS
<1>3. a[N] \in Line /\ s = Certain(a[N]) BY <1>1, <1>2 DEF Course, MoveRun
<1>4. Newlines(s.buffer) = Newlines(a[N].text) BY <1>3 DEF Certain
<1>5. Sure(a[N], e) /\ update_from_event(s, e) = Certain(Moved(a[N], e))
  BY <1>3, <1>4, EventFollowed
<1>6. Moved(a[N], e) \in Line BY <1>3, MovedIs
<1> HIDE DEF more, N
<1>7. /\ \A n \in 0..N : b[n] = a[n]
      /\ b[N + 1] = Moved(a[N], e)
  <2>1. N + 1 \in 0..N + 1 /\ ~(N + 1 <= N) /\ \A n \in 0..N : n \in 0..N + 1 /\ n <= N
    BY <1>2
  <2> QED BY <2>1
<1> HIDE DEF b
<1>8. ASSUME NEW n \in 1..N + 1
      PROVE  b[n] = Moved(b[n - 1], more[n]) /\ more[n] \in Foreseeable /\ Sure(b[n - 1], more[n])
  <2>1. CASE n = N + 1
    <3>1. n - 1 = N BY <1>2, <2>1
    <3> QED BY <1>2, <1>5, <1>7, <2>1, <3>1
  <2>2. CASE n # N + 1
    <3>1. n \in 1..N /\ n \in 0..N /\ n - 1 \in 0..N BY <1>2, <2>2
    <3>2. a[n] = Moved(a[n - 1], given[n]) /\ given[n] \in Foreseeable /\ Sure(a[n - 1], given[n])
      BY <1>1, <3>1 DEF Course, MoveRun, N
    <3> QED BY <1>2, <1>7, <3>1, <3>2
  <2> QED BY <2>1, <2>2
<1>9. ASSUME NEW n \in 0..N + 1 PROVE b[n] \in Line
  <2>1. n \in 0..N \/ n = N + 1 BY <1>2
  <2>2. \A m \in 0..N : a[m] \in Line BY <1>1 DEF Course, MoveRun, N
  <2> QED BY <1>6, <1>7, <2>1, <2>2
<1>10. b[0] = r
  <2>1. 0 \in 0..N BY <1>2
  <2> QED BY <1>1, <1>7, <2>1 DEF Course, MoveRun
<1>11. Course(b, more, r, update_from_event(s, e))
  BY <1>2, <1>5, <1>7, <1>8, <1>9, <1>10 DEF Course, MoveRun
<1> QED BY <1>11 DEF Exact, more

\* One key less
LEMMA CourseGoesOn ==
  ASSUME NEW given \in Seq(Event), given # <<>>, NEW r, NEW s, Exact(given, r, s)
  PROVE  /\ Head(given) \in Foreseeable /\ Sure(r, Head(given))
         /\ Exact(Tail(given), Moved(r, Head(given)), s)
<1>1. PICK a : Course(a, given, r, s) BY DEF Exact
<1> DEFINE N == Len(given)  rest == Tail(given)
           b == [n \in 0..N - 1 |-> a[n + 1]]
<1>2. /\ N \in Nat /\ N >= 1 /\ Len(rest) = N - 1 /\ Head(given) = given[1]
      /\ \A n \in 1..N - 1 : rest[n] = given[n + 1]
  OBVIOUS
<1>3. /\ a[0] = r /\ \A n \in 1..N : a[n] = Moved(a[n - 1], given[n])
      /\ \A n \in 0..N : a[n] \in Line
      /\ \A n \in 1..N : given[n] \in Foreseeable /\ Sure(a[n - 1], given[n])
      /\ s = Certain(a[N])
  BY <1>1 DEF Course, MoveRun
<1> HIDE DEF N, rest
<1>4. given[1] \in Foreseeable /\ Sure(r, given[1]) /\ a[1] = Moved(r, given[1])
  <2>1. 1 \in 1..N /\ 1 - 1 = 0 BY <1>2
  <2> QED BY <1>3, <2>1
<1>5. \A n \in 0..N - 1 : b[n] = a[n + 1] OBVIOUS
<1> HIDE DEF b
<1>6. ASSUME NEW n \in 1..N - 1
      PROVE  b[n] = Moved(b[n - 1], rest[n]) /\ rest[n] \in Foreseeable /\ Sure(b[n - 1], rest[n])
  <2>1. n + 1 \in 1..N /\ n + 1 - 1 = n /\ n - 1 + 1 = n /\ n \in 0..N - 1 /\ n - 1 \in 0..N - 1
    BY <1>2
  <2>2. b[n] = a[n + 1] /\ b[n - 1] = a[n] /\ rest[n] = given[n + 1] BY <1>2, <1>5, <2>1
  <2> QED BY <1>3, <2>1, <2>2
<1>7. ASSUME NEW n \in 0..N - 1 PROVE b[n] \in Line
  <2>1. n + 1 \in 0..N BY <1>2
  <2> QED BY <1>3, <1>5, <2>1
<1>8. b[0] = a[1] /\ b[N - 1] = a[N]
  <2>1. 0 \in 0..N - 1 /\ N - 1 \in 0..N - 1 /\ N - 1 + 1 = N /\ 0 + 1 = 1 BY <1>2
  <2> QED BY <1>5, <2>1
<1>9. Course(b, rest, a[1], s) BY <1>2, <1>3, <1>6, <1>7, <1>8 DEF Course, MoveRun
<1> QED BY <1>2, <1>4, <1>9 DEF Exact, rest

\* Handled all together, the keys lead there too.
LEMMA CourseEnds ==
  ASSUME NEW given \in Seq(Event), NEW r \in Line, NEW s, Exact(given, r, s)
  PROVE  s = Certain(FoldLeft(Moved, r, given))
<1>1. PICK a : Course(a, given, r, s) BY DEF Exact
<1>2. given \in Seq(Foreseeable)
  <2>1. \A n \in 1..Len(given) : given[n] \in Foreseeable BY <1>1 DEF Course
  <2> QED BY <2>1
<1>3. PICK b : MoveRun(b, r, given) /\ FoldLeft(Moved, r, given) = b[Len(given)]
  BY <1>2, AheadFold
<1> DEFINE S == {n \in 0..Len(given) : a[n] = b[n]}
<1>4. Len(given) \in Nat OBVIOUS
<1>5. 0 \in S BY <1>1, <1>3, <1>4 DEF Course, MoveRun
<1>6. ASSUME NEW n \in 0..Len(given) - 1, n \in S PROVE n + 1 \in S
  <2>1. n + 1 \in 1..Len(given) /\ n + 1 - 1 = n /\ n + 1 \in 0..Len(given) BY <1>4
  <2>2. a[n + 1] = Moved(a[n], given[n + 1]) /\ b[n + 1] = Moved(b[n], given[n + 1])
    BY <1>1, <1>3, <2>1 DEF Course, MoveRun
  <2> QED BY <1>6, <2>1, <2>2
<1> HIDE DEF S
<1>7. 0..Len(given) \subseteq S BY <1>4, <1>5, <1>6, InductionUpTo
<1>8. Len(given) \in S BY <1>4, <1>7
<1> QED BY <1>1, <1>3, <1>8 DEF Course, S

\* A new line does not make a meta command.
LEMMA GoesOnPlain ==
  ASSUME NEW r \in Line, ~IsMeta(r.text)
  PROVE  /\ Edited(r, Insert(<<"newline">>)) \in Line
         /\ ~IsMeta(Edited(r, Insert(<<"newline">>)).text)
<1> DEFINE t == r.text  p == r.pos  left == SubSeq(t, 1, p)  right == SubSeq(t, p + 1, Len(t))
           new == (left \o <<"newline">>) \o right
<1>1. t \in Seq(Characters) /\ Len(t) \in Nat /\ p \in Nat /\ p <= Len(t) BY DEF Line
<1>2. /\ left \in Seq(Characters) /\ Len(left) = p /\ \A i \in 1..p : left[i] = t[i]
      /\ right \in Seq(Characters) /\ Len(right) = Len(t) - p
      /\ \A i \in 1..Len(t) - p : right[i] = t[p + i]
  <2>1. left \in Seq(Characters) /\ Len(left) = p /\ \A i \in 1..p : left[i] = t[i] BY <1>1
  <2>2. right \in Seq(Characters) /\ Len(right) = Len(t) - p BY <1>1
  <2>3. \A i \in 1..Len(t) - p : right[i] = t[p + 1 + i - 1] /\ p + 1 + i - 1 = p + i BY <1>1
  <2> QED BY <2>1, <2>2, <2>3
<1>3. <<"newline">> \in Seq(Characters) /\ Len(<<"newline">>) = 1 /\ <<"newline">>[1] = "newline"
  BY DEF Characters
<1>4. Edited(r, Insert(<<"newline">>)).text = new BY DEF Edited, Insert, Splice
<1>5. Edited(r, Insert(<<"newline">>)) \in Line
  <2>1. Insert(<<"newline">>) \in EditCommands BY <1>3, CommandsAre DEF EditCommands
  <2> QED BY <2>1, EditedIs
<1> HIDE DEF t, p, left, right
<1> DEFINE l == left \o <<"newline">>
<1>6. PICK nl \in Seq(Characters) : nl = <<"newline">> /\ Len(nl) = 1 /\ nl[1] = "newline"
  BY <1>3
<1>7. /\ l \in Seq(Characters) /\ Len(l) = p + 1 /\ \A i \in 1..p : l[i] = t[i]
      /\ l[p + 1] = "newline"
  <2>1. /\ left \o nl \in Seq(Characters) /\ Len(left \o nl) = p + 1
        /\ \A i \in 1..p + 1 : (left \o nl)[i] = IF i <= p THEN left[i] ELSE nl[i - p]
    BY <1>1, <1>2, <1>6, ConcatProperties
  <2>2. p + 1 \in 1..p + 1 /\ ~(p + 1 <= p) /\ p + 1 - p = 1 BY <1>1
  <2>3. \A i \in 1..p : i \in 1..p + 1 /\ i <= p BY <1>1
  <2> QED BY <1>2, <1>6, <2>1, <2>2, <2>3
<1> HIDE DEF l
<1>8. /\ Len(new) = Len(t) + 1 /\ new \in Seq(Characters)
      /\ \A i \in 1..p : new[i] = t[i]
      /\ new[p + 1] = "newline"
      /\ \A k \in p + 2..Len(t) + 1 : new[k] = t[k - 1]
  <2>1. /\ l \o right \in Seq(Characters) /\ Len(l \o right) = (p + 1) + (Len(t) - p)
        /\ \A i \in 1..(p + 1) + (Len(t) - p) :
             (l \o right)[i] = IF i <= p + 1 THEN l[i] ELSE right[i - (p + 1)]
    <3>1. /\ l \o right \in Seq(Characters) /\ Len(l \o right) = Len(l) + Len(right)
          /\ \A i \in 1..Len(l) + Len(right) :
               (l \o right)[i] = IF i <= Len(l) THEN l[i] ELSE right[i - Len(l)]
      <4>1. l \in Seq(Characters) /\ right \in Seq(Characters) BY <1>2, <1>7
      <4> QED BY <4>1, ConcatProperties
    <3>2. Len(l) = p + 1 /\ Len(right) = Len(t) - p BY <1>2, <1>7
    <3> QED BY <3>1, <3>2
  <2>2. (p + 1) + (Len(t) - p) = Len(t) + 1 BY <1>1
  <2>3. \A i \in 1..p + 1 : i \in 1..Len(t) + 1 /\ i <= p + 1 BY <1>1
  <2>4. \A i \in 1..p : i \in 1..p + 1 BY <1>1
  <2>5. p + 1 \in 1..p + 1 BY <1>1
  <2>6. \A k \in p + 2..Len(t) + 1 :
          /\ k \in 1..(p + 1) + (Len(t) - p) /\ ~(k <= p + 1)
          /\ k - (p + 1) \in 1..Len(t) - p /\ p + (k - (p + 1)) = k - 1
    BY <1>1
  <2>7. new = l \o right BY DEF l
  <2> HIDE DEF new
  <2>8. \A i \in 1..p + 1 : new[i] = l[i] BY <2>1, <2>2, <2>3, <2>7
  <2>9. ASSUME NEW k \in p + 2..Len(t) + 1 PROVE new[k] = t[k - 1]
    <3>1. new[k] = right[k - (p + 1)] BY <2>1, <2>6, <2>7
    <3>2. right[k - (p + 1)] = t[p + (k - (p + 1))] BY <1>2, <2>6
    <3> QED BY <2>6, <3>1, <3>2
  <2> QED BY <1>7, <2>1, <2>2, <2>4, <2>5, <2>7, <2>8, <2>9
<1> HIDE DEF new
<1>9. ~IsMeta(new)
  <2> SUFFICES ASSUME IsMeta(new) PROVE FALSE OBVIOUS
  <2>1. PICK i \in 1..Len(t) + 1 : new[i] = ":" /\ \A j \in 1..i - 1 : new[j] = "newline"
    <3>1. DOMAIN new = 1..Len(t) + 1 BY <1>8
    <3> QED BY <3>1 DEF IsMeta
  <2>2. DOMAIN t = 1..Len(t) BY <1>1
  <2>3. CASE i <= p
    <3>1. i \in 1..p /\ i \in 1..Len(t) /\ \A j \in 1..i - 1 : j \in 1..p BY <1>1, <2>3
    <3>2. t[i] = ":" /\ \A j \in 1..i - 1 : t[j] = "newline" BY <1>8, <2>1, <3>1
    <3>3. IsMeta(t) BY <2>2, <3>1, <3>2 DEF IsMeta
    <3> QED BY <3>3 DEF t
  <2>4. CASE i = p + 1 BY <1>8, <2>1, <2>4
  <2>5. CASE i > p + 1
    <3>1. /\ i \in p + 2..Len(t) + 1 /\ i - 1 \in 1..Len(t)
          /\ \A j \in 1..i - 1 - 1 : \/ j \in 1..p /\ j \in 1..i - 1
                                     \/ /\ j + 1 \in p + 2..Len(t) + 1 /\ j + 1 \in 1..i - 1
                                        /\ j + 1 - 1 = j
      BY <1>1, <2>5
    <3>2. t[i - 1] = ":" BY <1>8, <2>1, <3>1
    <3>3. ASSUME NEW j \in 1..i - 1 - 1 PROVE t[j] = "newline"
      <4>1. CASE j \in 1..p /\ j \in 1..i - 1 BY <1>8, <2>1, <4>1
      <4>2. CASE j + 1 \in p + 2..Len(t) + 1 /\ j + 1 \in 1..i - 1 /\ j + 1 - 1 = j
        <5>1. new[j + 1] = "newline" BY <2>1, <4>2
        <5>2. new[j + 1] = t[j + 1 - 1] BY <1>8, <4>2
        <5> QED BY <4>2, <5>1, <5>2
      <4> QED BY <3>1, <4>1, <4>2
    <3>4. IsMeta(t) BY <2>2, <3>1, <3>2, <3>3 DEF IsMeta
    <3> QED BY <3>4 DEF t
  <2> QED BY <1>1, <2>3, <2>4, <2>5
<1> QED BY <1>4, <1>5, <1>9

-----------------------------------------------------------------------------
(* A key is parsed.                                                        *)

LEMMA ShadowSound ==
  ASSUME EditorInv, ~eBusy \/ ePending # <<>>
  PROVE  eShadow \in Sound
BY DEF EditorInv, EditorTyped, InBounds, ShadowType, Sound

LEMMA ParseKeeps ==
  ASSUME EditorInv, NEW e \in Regular, Parse(e)
  PROVE  EditorInv'
<1>1. /\ ~eBusy /\ UNCHANGED <<eReal, eBusy>>
      /\ eShadow' = update_from_event(eShadow, e)
      /\ ePending' = Append(ePending, e)
      /\ eBlind' = (eBlind \/ e.k \in {"Recall", "CtrlD"} \/ ActsOnLine(e))
  BY DEF Parse
<1>2. EditorTyped /\ PendingTold /\ eShadow \in Sound BY <1>1, ShadowSound DEF EditorInv
<1>3. e \in Event BY DEF Regular
<1>4. /\ eShadow' \in Sound /\ (eShadow.uncertain => eShadow'.uncertain)
      /\ e.k \in {"Shell", "Enter"} => eShadow'.uncertain
  BY <1>1, <1>2, <1>3, EventKept
<1>5. /\ eReal \in Line /\ ePending \in Seq(Event) /\ Len(ePending) \in Nat
      /\ eBusy \in BOOLEAN /\ eBlind \in BOOLEAN
  BY <1>2 DEF EditorTyped
<1>6. /\ ePending' \in Seq(Event) /\ Len(ePending') = Len(ePending) + 1
      /\ \A i \in 1..Len(ePending) : ePending'[i] = ePending[i]
      /\ ePending'[Len(ePending) + 1] = e
  BY <1>1, <1>3, <1>5
<1>7. EditorTyped' BY <1>1, <1>4, <1>5, <1>6 DEF EditorTyped, ShadowType, Sound
<1>8. InBounds' BY <1>4 DEF InBounds, Sound
<1>9. PendingTold'
  <2> SUFFICES ASSUME NEW i \in 1..Len(ePending')
               PROVE  /\ ePending'[i].k \in {"Recall", "CtrlD"} => eBlind'
                      /\ ePending'[i].k \in {"Shell", "Enter"} => eShadow'.uncertain
                      /\ ePending'[i].k = "Enter" => i = Len(ePending')
    BY DEF PendingTold
  <2>1. i \in 1..Len(ePending) \/ i = Len(ePending) + 1 BY <1>5, <1>6
  <2>2. CASE i = Len(ePending) + 1 BY <1>1, <1>4, <1>6, <2>2
  <2>3. CASE i \in 1..Len(ePending)
    <3>1. /\ ePending[i].k \in {"Recall", "CtrlD"} => eBlind
          /\ ePending[i].k \in {"Shell", "Enter"} => eShadow.uncertain
          /\ ePending[i].k = "Enter" => i = Len(ePending)
      BY <1>2, <2>3 DEF PendingTold
    <3>2. ePending # <<>> /\ ePending[Len(ePending)].k # "Enter" BY <1>5, <2>3 DEF Parse, Last
    <3> QED BY <1>1, <1>4, <1>6, <2>3, <3>1, <3>2
  <2> QED BY <2>1, <2>2, <2>3
<1>10. FollowsKeys'
  <2> SUFFICES ASSUME ~eBlind', ~eShadow'.uncertain, Predictable'
               PROVE  Exact(ePending', eReal', eShadow')
    BY DEF FollowsKeys
  <2>1. ~eBlind /\ ~ActsOnLine(e) /\ ~eShadow.uncertain BY <1>1, <1>4
  <2>2. DOMAIN ePending = 1..Len(ePending) /\ DOMAIN ePending' = 1..Len(ePending) + 1
    BY <1>5, <1>6
  <2>3. e.k \in {"Edit", "Hint", "Left"}
    <3>1. Len(ePending) + 1 \in 1..Len(ePending) + 1 BY <1>5
    <3> QED BY <1>6, <2>2, <3>1 DEF Predictable
  <2>4. Predictable
    <3>1. \A i \in 1..Len(ePending) : i \in 1..Len(ePending) + 1 BY <1>5
    <3> QED BY <1>6, <2>2, <3>1 DEF Predictable
  <2>5. Exact(ePending, eReal, eShadow) BY <1>1, <2>1, <2>4 DEF EditorInv, FollowsKeys
  <2>6. e \in Foreseeable BY <1>3, <2>3, EventIs
  <2>7. Newlines(eShadow.buffer) = {} \/ ~(e \in Edits /\ \E i \in DOMAIN e.cmds :
          e.cmds[i].c \in {"MoveToLineStart", "MoveToLineEnd", "CutToLineEnd"})
    BY <1>3, <2>1, EventIs DEF ActsOnLine
  <2>8. ~update_from_event(eShadow, e).uncertain BY <1>1
  <2>9. PICK s : s = eShadow OBVIOUS
  <2>10. Exact(Append(ePending, e), eReal, update_from_event(s, e))
    BY <1>5, <2>5, <2>6, <2>7, <2>8, <2>9, CourseGrows
  <2> QED BY <1>1, <2>9, <2>10
<1> QED BY <1>7, <1>8, <1>9, <1>10 DEF EditorInv

-----------------------------------------------------------------------------
(* An event is handled.                                                    *)

\* A step that takes the first event leaves what is pending told.
LEMMA RestTold ==
  ASSUME EditorInv, ePending # <<>>, ePending' = Tail(ePending),
         eShadow' = eShadow, eBlind => eBlind'
  PROVE  PendingTold' /\ ePending' \in Seq(Event)
<1>1. ePending \in Seq(Event) /\ PendingTold BY DEF EditorInv, EditorTyped
<1>2. /\ Len(ePending) \in Nat /\ ePending' \in Seq(Event) /\ Len(ePending') = Len(ePending) - 1
      /\ \A i \in 1..Len(ePending) - 1 : ePending'[i] = ePending[i + 1]
  BY <1>1
<1>3. ASSUME NEW i \in 1..Len(ePending')
      PROVE  /\ ePending'[i].k \in {"Recall", "CtrlD"} => eBlind'
             /\ ePending'[i].k \in {"Shell", "Enter"} => eShadow'.uncertain
             /\ ePending'[i].k = "Enter" => i = Len(ePending')
  <2>0. i \in 1..Len(ePending) - 1 BY <1>2
  <2>1. /\ i \in 1..Len(ePending) - 1 /\ i + 1 \in 1..Len(ePending)
        /\ (i + 1 = Len(ePending) => i = Len(ePending) - 1)
    <3>1. PICK n \in Nat : n = Len(ePending) BY <1>2
    <3>2. i \in 1..n - 1 BY <2>0, <3>1
    <3>3. i \in 1..n - 1 /\ i + 1 \in 1..n /\ (i + 1 = n => i = n - 1) BY <3>2
    <3> QED BY <3>1, <3>3
  <2>2. ePending'[i] = ePending[i + 1] BY <1>2, <2>1
  <2> QED BY <1>1, <1>2, <2>1, <2>2 DEF PendingTold
<1> QED BY <1>2, <1>3 DEF PendingTold

\* With nothing pending there is nothing to be told.
LEMMA NothingPending ==
  ASSUME ePending' = <<>>
  PROVE  PendingTold' /\ ePending' \in Seq(Event)
BY DEF PendingTold

\* Of an event that the shadow does not follow, and after which it calls itself blind or
\* uncertain, only the line matters.
LEMMA HandleKeeps ==
  ASSUME EditorInv, NEW k, Unfollowed(k), ePending' = Tail(ePending), eReal' \in Line,
         eBlind' \in BOOLEAN, eBlind => eBlind',
         \/ eBlind'
         \/ /\ k \in {"Edit", "Hint", "Left"}
            /\ Sure(eReal, Head(ePending)) => eReal' = Moved(eReal, Head(ePending))
         \/ eShadow.uncertain
  PROVE  EditorInv'
<1>1. ePending # <<>> /\ Head(ePending).k = k /\ eBusy' = TRUE /\ eShadow' = eShadow
  BY DEF Unfollowed, Does
<1>2. PendingTold' /\ ePending' \in Seq(Event) BY <1>1, RestTold
<1>3. eShadow \in Sound BY <1>1, ShadowSound
<1>4. EditorTyped' BY <1>1, <1>2, <1>3 DEF EditorTyped, Sound, ShadowType
<1>5. InBounds' BY <1>1, <1>3 DEF InBounds, Sound
<1>6. FollowsKeys'
  <2> SUFFICES ASSUME ~eBlind', ~eShadow'.uncertain, Predictable'
               PROVE  Exact(ePending', eReal', eShadow')
    BY DEF FollowsKeys
  <2>1. /\ ~eBlind /\ k \in {"Edit", "Hint", "Left"} /\ ~eShadow.uncertain
        /\ Sure(eReal, Head(ePending)) => eReal' = Moved(eReal, Head(ePending))
    BY <1>1
  <2>2. ePending \in Seq(Event) /\ eReal \in Line BY DEF EditorInv, EditorTyped
  <2>3. Predictable
    <3>1. /\ Len(ePending) \in Nat /\ DOMAIN ePending = 1..Len(ePending)
          /\ Head(ePending) = ePending[1]
          /\ DOMAIN Tail(ePending) = 1..Len(ePending) - 1
          /\ \A i \in 1..Len(ePending) - 1 : Tail(ePending)[i] = ePending[i + 1]
      BY <1>1, <2>2
    <3>2. ASSUME NEW i \in 1..Len(ePending) PROVE ePending[i].k \in {"Edit", "Hint", "Left"}
      <4>1. CASE i = 1 BY <1>1, <2>1, <3>1, <4>1
      <4>2. CASE i # 1
        <5>1. i - 1 \in 1..Len(ePending) - 1 /\ i - 1 + 1 = i BY <3>1, <4>2
        <5> QED BY <3>1, <5>1 DEF Predictable
      <4> QED BY <4>1, <4>2
    <3> QED BY <3>1, <3>2 DEF Predictable
  <2>4. Exact(ePending, eReal, eShadow) BY <1>1, <2>1, <2>3 DEF EditorInv, FollowsKeys
  <2>5. PICK s : s = eShadow OBVIOUS
  <2>6. PICK r : r = eReal OBVIOUS
  <2>7. Sure(r, Head(ePending)) /\ Exact(Tail(ePending), Moved(r, Head(ePending)), s)
    BY <1>1, <2>2, <2>4, <2>5, <2>6, CourseGoesOn
  <2> QED BY <1>1, <2>1, <2>5, <2>6, <2>7
<1> QED BY <1>2, <1>4, <1>5, <1>6 DEF EditorInv

\* The editor's own commands and the words it leaves open keep it a line.
LEMMA CutLine ==
  ASSUME NEW r \in Line, NEW from \in 0..Len(r.text), NEW to \in from..Len(r.text)
  PROVE  [text |-> Splice(r.text, from, to, <<>>), pos |-> from] \in Line
<1>1. r.text \in Seq(Characters) /\ Len(r.text) \in Nat BY DEF Line
<1>2. from \in Nat /\ to \in Nat /\ from <= to /\ to <= Len(r.text) BY <1>1
<1>3. <<>> \in Seq(Characters) /\ Len(<<>>) = 0 OBVIOUS
<1>4. /\ Splice(r.text, from, to, <<>>) \in Seq(Characters)
      /\ Len(Splice(r.text, from, to, <<>>)) = Len(r.text) - (to - from) + 0
  BY <1>1, <1>2, <1>3, SpliceIs
<1> QED BY <1>1, <1>2, <1>4 DEF Line

LEMMA AtLine ==
  ASSUME NEW r \in Line, NEW pos \in 0..Len(r.text)
  PROVE  [r EXCEPT !.pos = pos] \in Line
<1>1. r.text \in Seq(Characters) /\ Len(r.text) \in Nat BY DEF Line
<1> QED BY <1>1 DEF Line

LEMMA LineIs ==
  ASSUME NEW r \in Line
  PROVE  r.pos \in 0..Len(r.text) /\ Len(r.text) \in r.pos..Len(r.text) /\ Len(r.text) \in Nat
BY DEF Line

LEMMA HeadIs ==
  ASSUME EditorInv, ePending # <<>>
  PROVE  /\ Head(ePending) \in Event /\ eReal \in Line
         /\ Head(ePending).k \in {"Recall", "CtrlD"} => eBlind
         /\ Head(ePending).k \in {"Shell", "Enter"} => eShadow.uncertain
         /\ Head(ePending).k = "Enter" => Tail(ePending) = <<>>
<1>1. ePending \in Seq(Event) /\ eReal \in Line /\ PendingTold BY DEF EditorInv, EditorTyped
<1>2. /\ Len(ePending) \in Nat /\ 1 \in 1..Len(ePending) /\ Head(ePending) = ePending[1]
      /\ ePending[1] \in Event
  BY <1>1
<1>3. ASSUME Len(ePending) = 1 PROVE Tail(ePending) = <<>>
  <2>1. Tail(ePending) \in Seq(Event) /\ Len(Tail(ePending)) = Len(ePending) - 1 BY <1>1
  <2>2. PICK rest \in Seq(Event) : rest = Tail(ePending) BY <2>1
  <2>3. Len(rest) = 0 BY <1>3, <2>1, <2>2
  <2>4. rest = <<>> BY <2>3
  <2> QED BY <2>2, <2>4
<1> QED BY <1>1, <1>2, <1>3 DEF PendingTold

LEMMA EditKeeps ==
  ASSUME EditorInv, HandleEdit
  PROVE  EditorInv'
<1> DEFINE e == Head(ePending)
<1>1. /\ Unfollowed("Edit") /\ UNCHANGED eBlind /\ ePending # <<>> /\ e.k = "Edit"
  BY DEF HandleEdit, Unfollowed, Does
<1>2. e \in Event /\ eReal \in Line BY <1>1, HeadIs
<1>3. e \in Foreseeable /\ e.cmds \in Seq(EditCommands) BY <1>1, <1>2, EventIs
<1>4. Moved(eReal, e) = FoldLeft(Edited, eReal, e.cmds) /\ Moved(eReal, e) \in Line
  BY <1>1, <1>2, <1>3, MovedIs DEF Moved
<1>5. eBlind \in BOOLEAN BY DEF EditorInv, EditorTyped
<1>6. ASSUME NEW real \in Line, Rest(real), Sure(eReal, e) => real = Moved(eReal, e)
      PROVE  EditorInv'
  BY <1>1, <1>5, <1>6, HandleKeeps DEF Rest
<1>7. CASE Rest(IF e.cmds = <<>> THEN eReal ELSE EditBuffer)
  <2>1. e.cmds = <<>> => FoldLeft(Edited, eReal, e.cmds) = eReal
    <3> SUFFICES ASSUME e.cmds = <<>> PROVE FoldLeft(Edited, eReal, e.cmds) = eReal OBVIOUS
    <3>1. PICK a : EditRun(a, eReal, e.cmds) /\ FoldLeft(Edited, eReal, e.cmds) = a[Len(e.cmds)]
      BY <1>2, <1>3, EditFold
    <3>2. Len(e.cmds) = 0 OBVIOUS
    <3> QED BY <3>1, <3>2 DEF EditRun
  <2>2. Rest(Moved(eReal, e)) BY <1>4, <1>7, <2>1 DEF EditBuffer
  <2> QED BY <1>4, <1>6, <2>2
<1>8. CASE /\ e.cmds # <<>> /\ e.cmds[1].c = "Other"
           /\ \E pos \in 0..Len(eReal.text) : Rest([eReal EXCEPT !.pos = pos])
  <2>1. PICK pos \in 0..Len(eReal.text) : Rest([eReal EXCEPT !.pos = pos]) BY <1>8
  <2>2. ~Sure(eReal, e) BY <1>1, <1>8 DEF Sure
  <2> QED BY <1>2, <1>6, <2>1, <2>2, AtLine
<1>9. CASE /\ e.cmds # <<>> /\ e.cmds[1].c \in {"CutWordLeft", "Other"}
           /\ \E from \in 0..eReal.pos : Rest([text |-> Splice(eReal.text, from, eReal.pos, <<>>),
                                               pos |-> from])
  <2>1. PICK from \in 0..eReal.pos : Rest([text |-> Splice(eReal.text, from, eReal.pos, <<>>),
                                           pos |-> from])
    BY <1>9
  <2>2. ~Sure(eReal, e) BY <1>1, <1>9 DEF Sure
  <2>3. from \in 0..Len(eReal.text) /\ eReal.pos \in from..Len(eReal.text) BY <1>2, LineIs
  <2> QED BY <1>2, <1>6, <2>1, <2>2, <2>3, CutLine
<1>10. CASE /\ e.cmds # <<>> /\ e.cmds[1].c \in {"CutWordRight", "Other"}
            /\ \E to \in eReal.pos..Len(eReal.text) :
                 Rest([eReal EXCEPT !.text = Splice(@, eReal.pos, to, <<>>)])
  <2>1. PICK to \in eReal.pos..Len(eReal.text) :
          Rest([eReal EXCEPT !.text = Splice(@, eReal.pos, to, <<>>)])
    BY <1>10
  <2>2. ~Sure(eReal, e) BY <1>1, <1>10 DEF Sure
  <2>3. eReal.pos \in 0..Len(eReal.text) BY <1>2, LineIs
  <2>4. [eReal EXCEPT !.text = Splice(@, eReal.pos, to, <<>>)]
          = [text |-> Splice(eReal.text, eReal.pos, to, <<>>), pos |-> eReal.pos]
    BY <1>2 DEF Line
  <2> QED BY <1>2, <1>6, <2>1, <2>2, <2>3, <2>4, CutLine
<1> QED BY <1>7, <1>8, <1>9, <1>10 DEF HandleEdit

LEMMA HintKeeps ==
  ASSUME EditorInv, HandleHint
  PROVE  EditorInv'
<1> DEFINE e == Head(ePending)
<1>1. /\ Unfollowed("Hint") /\ ePending # <<>> /\ e.k = "Hint"
  BY DEF HandleHint, Unfollowed, Does
<1>2. e \in Event /\ eReal \in Line BY <1>1, HeadIs
<1>3. e \in Foreseeable /\ e.cmds \in Seq(EditCommands) BY <1>1, <1>2, EventIs
<1>4. Moved(eReal, e) = FoldLeft(Edited, eReal, e.cmds) /\ Moved(eReal, e) \in Line
  BY <1>1, <1>2, <1>3, MovedIs DEF Moved
<1>5. eBlind \in BOOLEAN BY DEF EditorInv, EditorTyped
<1>6. ASSUME NEW real \in Line, Rest(real), eBlind' = eBlind,
             Sure(eReal, e) => real = Moved(eReal, e)
      PROVE  EditorInv'
  BY <1>1, <1>5, <1>6, HandleKeeps DEF Rest
<1>7. CASE /\ eReal.pos = Len(eReal.text) /\ eReal.text # <<>>
           /\ Rest(Edited(eReal, Insert(<<"a">>))) /\ UNCHANGED eBlind
  <2>1. <<"a">> \in Seq(Characters)
    <3>1. "a" \in Characters BY DEF Characters
    <3> QED BY <3>1
  <2>2. Insert(<<"a">>) \in EditCommands BY <2>1, CommandsAre DEF EditCommands
  <2>3. ~Sure(eReal, e) BY <1>1, <1>7 DEF Sure, AtHint
  <2> QED BY <1>2, <1>6, <1>7, <2>2, <2>3, EditedIs
<1>8. CASE Rest(eReal) /\ eBlind' = TRUE BY <1>1, <1>2, <1>8, HandleKeeps DEF Rest
<1>9. CASE Rest(EditBuffer) /\ UNCHANGED eBlind BY <1>4, <1>6, <1>9 DEF EditBuffer
<1>10. CASE /\ e.cmds = <<Cmd("Other")>> /\ UNCHANGED eBlind
            /\ \E pos \in eReal.pos..Len(eReal.text) : Rest([eReal EXCEPT !.pos = pos])
  <2>1. PICK pos \in eReal.pos..Len(eReal.text) : Rest([eReal EXCEPT !.pos = pos]) BY <1>10
  <2>2. e.cmds # <<>> /\ e.cmds[1].c = "Other" BY <1>10 DEF Cmd
  <2>3. ~Sure(eReal, e) BY <1>1, <2>2 DEF Sure
  <2>4. pos \in 0..Len(eReal.text) BY <1>2, LineIs
  <2> QED BY <1>2, <1>6, <1>10, <2>1, <2>3, <2>4, AtLine
<1> QED BY <1>7, <1>8, <1>9, <1>10 DEF HandleHint

LEMMA LeftKeeps ==
  ASSUME EditorInv, HandleLeft
  PROVE  EditorInv'
<1> DEFINE e == Head(ePending)
<1>1. Unfollowed("Left") /\ ePending # <<>> /\ e.k = "Left"
  BY DEF HandleLeft, Unfollowed, Does
<1>2. e \in Event /\ eReal \in Line BY <1>1, HeadIs
<1>3. Moved(eReal, e) = Edited(eReal, Cmd("MoveLeft")) /\ Moved(eReal, e) \in Line
  BY <1>1, <1>2, LeftIs, EditedIs DEF Moved
<1>4. eBlind \in BOOLEAN BY DEF EditorInv, EditorTyped
<1>5. CASE Rest(Edited(eReal, Cmd("MoveLeft"))) /\ UNCHANGED eBlind
  BY <1>1, <1>3, <1>4, <1>5, HandleKeeps DEF Rest
<1>6. CASE Rest(eReal) /\ eBlind' = TRUE BY <1>1, <1>2, <1>6, HandleKeeps DEF Rest
<1> QED BY <1>5, <1>6 DEF HandleLeft

LEMMA RecallKeeps ==
  ASSUME EditorAssumption, EditorInv, HandleRecall
  PROVE  EditorInv'
<1>1. Unfollowed("Recall") /\ UNCHANGED eBlind /\ ePending # <<>> /\ Head(ePending).k = "Recall"
  BY DEF HandleRecall, Unfollowed, Does
<1>2. eReal \in Line /\ eBlind BY <1>1, HeadIs
<1>3. ASSUME NEW real \in Line, Rest(real) PROVE EditorInv'
  BY <1>1, <1>2, <1>3, HandleKeeps DEF Rest
<1>4. ASSUME NEW text \in Recalled PROVE [text |-> text, pos |-> Len(text)] \in Line
  <2>1. text \in Seq(Characters) BY DEF EditorAssumption
  <2>2. Len(text) \in Nat BY <2>1
  <2> QED BY <2>1, <2>2 DEF Line
<1> QED BY <1>2, <1>3, <1>4, AtLine DEF HandleRecall

LEMMA CtrlDKeeps ==
  ASSUME EditorInv, HandleCtrlD
  PROVE  EditorInv'
<1>1. Unfollowed("CtrlD") /\ UNCHANGED eBlind /\ ePending # <<>> /\ Head(ePending).k = "CtrlD"
      /\ Rest(Edited(eReal, Cmd("Delete")))
  BY DEF HandleCtrlD, Unfollowed, Does
<1>2. eReal \in Line /\ eBlind BY <1>1, HeadIs
<1>3. Cmd("Delete") \in EditCommands BY CommandsAre DEF EditCommands
<1>4. Edited(eReal, Cmd("Delete")) \in Line BY <1>2, <1>3, EditedIs
<1> QED BY <1>1, <1>2, <1>4, HandleKeeps DEF Rest

LEMMA InterruptKeeps ==
  ASSUME EditorInv, HandleInterrupt
  PROVE  EditorInv'
<1>1. /\ ePending # <<>> /\ eBusy' = TRUE /\ eShadow' = eShadow /\ eBlind' = eBlind
      /\ eReal' = EmptyLine /\ ePending' = <<>>
  BY DEF HandleInterrupt, Unfollowed, Does, Finish
<1>2. eShadow \in Sound /\ eBlind \in BOOLEAN BY <1>1, ShadowSound DEF EditorInv, EditorTyped
<1>3. EditorTyped' BY <1>1, <1>2, EmptyIs, NothingPending DEF EditorTyped, Sound, ShadowType
<1>4. InBounds' /\ FollowsKeys' BY <1>1, <1>2 DEF InBounds, FollowsKeys, Sound
<1> QED BY <1>1, <1>3, <1>4, NothingPending DEF EditorInv

LEMMA EnterKeeps ==
  ASSUME EditorInv, HandleEnter
  PROVE  EditorInv'
<1>1. ePending # <<>> /\ Head(ePending).k = "Enter" /\ eBusy' = TRUE BY DEF HandleEnter, Does
<1>2. /\ eReal \in Line /\ eShadow.uncertain /\ Tail(ePending) = <<>> /\ eShadow \in Sound
      /\ eBlind \in BOOLEAN
  BY <1>1, HeadIs, ShadowSound DEF EditorInv, EditorTyped
<1>3. Validated \in ShadowType /\ (eReal.text # <<>> => Validated.uncertain)
  <2>1. CASE eReal.text = <<>>
    <3>1. Validated = Certain(EmptyLine) BY <2>1 DEF Validated
    <3>2. Validated \in Sound BY <3>1, EmptyIs, CertainIs
    <3> QED BY <2>1, <3>2 DEF Sound, ShadowType
  <2>2. CASE eReal.text # <<>> /\ eShadow.buffer = eReal.text
    <3>1. Validated = eShadow BY <2>2 DEF Validated
    <3> QED BY <1>2, <3>1 DEF Sound, ShadowType
  <2>3. CASE eReal.text # <<>> /\ eShadow.buffer # eReal.text
    <3>1. Validated = [eShadow EXCEPT !.buffer = eReal.text, !.buffer_len = Len(eReal.text),
                                      !.uncertain = TRUE]
      BY <2>3 DEF Validated
    <3>2. eReal.text \in Seq(Characters) /\ Len(eReal.text) \in Nat BY <1>2 DEF Line
    <3> QED BY <1>2, <3>1, <3>2 DEF Sound, ShadowType
  <2> QED BY <2>1, <2>2, <2>3
<1>4. CASE /\ Rest(Edited(eReal, Insert(<<"a">>))) /\ eBlind' = FALSE
           /\ eShadow' = Certain(Edited(eReal, Insert(<<"a">>)))
  <2>1. <<"a">> \in Seq(Characters)
    <3>1. "a" \in Characters BY DEF Characters
    <3> QED BY <3>1
  <2>2. Insert(<<"a">>) \in EditCommands BY <2>1, CommandsAre DEF EditCommands
  <2>3. PICK chosen \in Line : chosen = Edited(eReal, Insert(<<"a">>)) BY <1>2, <2>2, EditedIs
  <2>4. eReal' = chosen /\ ePending' = <<>> /\ eShadow' = Certain(chosen)
    BY <1>2, <1>4, <2>3 DEF Rest
  <2>5. eShadow' \in Sound BY <2>4, CertainIs
  <2>6. EditorTyped' BY <1>1, <1>4, <2>4, <2>5, NothingPending DEF EditorTyped, Sound, ShadowType
  <2>7. InBounds' BY <2>5 DEF InBounds, Sound
  <2>8. FollowsKeys' BY <2>4, ExactNow DEF FollowsKeys
  <2> QED BY <2>4, <2>6, <2>7, <2>8, NothingPending DEF EditorInv
<1>5. CASE Finish /\ eShadow' = Validated /\ UNCHANGED eBlind
  <2>1. eReal' = EmptyLine /\ ePending' = <<>> BY <1>5 DEF Finish
  <2>2. EditorTyped' BY <1>1, <1>2, <1>3, <1>5, <2>1, EmptyIs, NothingPending DEF EditorTyped
  <2>3. InBounds' /\ FollowsKeys' BY <1>1, <2>1, EmptyIs DEF InBounds, FollowsKeys
  <2> QED BY <2>1, <2>2, <2>3, NothingPending DEF EditorInv
<1>6. CASE /\ ~IsBlank /\ ~IsMeta(eReal.text) /\ UNCHANGED eBlind
           /\ Rest(Edited(eReal, Insert(<<"newline">>))) /\ eShadow' = Validated
  <2>1. eReal.text # <<>> BY <1>6 DEF IsBlank
  <2>2. eReal' \in Line /\ ~IsMeta(eReal'.text) BY <1>2, <1>6, GoesOnPlain DEF Rest
  <2>3. ePending' = <<>> /\ eShadow'.uncertain BY <1>2, <1>3, <1>6, <2>1 DEF Rest
  <2>4. EditorTyped' BY <1>1, <1>2, <1>3, <1>6, <2>2, <2>3, NothingPending DEF EditorTyped
  <2>5. InBounds' /\ FollowsKeys' BY <1>1, <2>2, <2>3 DEF InBounds, FollowsKeys
  <2> QED BY <2>3, <2>4, <2>5, NothingPending DEF EditorInv
<1> QED BY <1>4, <1>5, <1>6 DEF HandleEnter

LEMMA RedrawKeeps ==
  ASSUME EditorInv, Redraw
  PROVE  EditorInv'
<1>1. eBusy /\ ePending = <<>> /\ eBusy' = FALSE /\ eReal' = eReal /\ ePending' = <<>>
  BY DEF Redraw
<1>2. eReal \in Line /\ eBlind \in BOOLEAN /\ eShadow \in ShadowType BY DEF EditorInv, EditorTyped
<1>3. CASE IsMeta(eReal.text)
  <2>1. eShadow' = eShadow /\ eBlind' = eBlind BY <1>3 DEF Redraw
  <2>2. EditorTyped' BY <1>1, <1>2, <2>1, NothingPending DEF EditorTyped
  <2>3. InBounds' BY <1>3, <2>1 DEF EditorInv, InBounds
  <2>4. eReal # EmptyLine BY <1>3, EmptyIs
  <2>5. Predictable BY <1>1 DEF Predictable
  <2>6. FollowsKeys' BY <1>1, <2>1, <2>4, <2>5 DEF EditorInv, FollowsKeys
  <2> QED BY <1>1, <2>2, <2>3, <2>6, NothingPending DEF EditorInv
<1>4. CASE ~IsMeta(eReal.text)
  <2>1. eShadow' = Certain(eReal) /\ eBlind' = FALSE BY <1>4 DEF Redraw
  <2>2. eShadow' \in Sound BY <1>2, <2>1, CertainIs
  <2>3. EditorTyped' BY <1>1, <1>2, <2>1, <2>2, NothingPending DEF EditorTyped, Sound, ShadowType
  <2>4. InBounds' BY <2>2 DEF InBounds, Sound
  <2>5. FollowsKeys' BY <1>1, <1>2, <2>1, ExactNow DEF FollowsKeys
  <2> QED BY <1>1, <2>3, <2>4, <2>5, NothingPending DEF EditorInv
<1> QED BY <1>3, <1>4

LEMMA EditorStep ==
  ASSUME EditorAssumption, EditorInv, [EditorNext]_editorVars
  PROVE  EditorInv'
<1>1. CASE TypeCharacter
  <2>1. PICK c \in Typed : Parse(apply_rules(c)) BY <1>1 DEF TypeCharacter
  <2>2. PICK e \in Regular : e = apply_rules(c) BY TypedIs
  <2> QED BY <2>1, <2>2, ParseKeeps
<1>2. CASE PressBackspace
  <2>1. PICK e \in Regular : e = BackspaceEvent BY BackspaceIs
  <2> QED BY <1>2, <2>1, ParseKeeps DEF PressBackspace
<1>3. CASE MoveByWord
  <2>1. PICK e \in WordLeftEvents \cup HintEvents : Parse(e) BY <1>3 DEF MoveByWord
  <2>2. eShadow \in Sound BY <2>1, ShadowSound DEF Parse
  <2>3. e \in Regular BY <2>2, WordsAre
  <2> QED BY <2>1, <2>3, ParseKeeps
<1>4. CASE PressOther
  <2>1. PICK e \in PlainEdits \cup OtherEvents : Parse(e) BY <1>4 DEF PressOther
  <2>2. e \in Regular BY OthersAre
  <2> QED BY <2>1, <2>2, ParseKeeps
<1>5. CASE UNCHANGED editorVars
  <2>1. /\ eReal' = eReal /\ eShadow' = eShadow /\ ePending' = ePending /\ eBusy' = eBusy
        /\ eBlind' = eBlind
    BY <1>5 DEF editorVars
  <2>2. EditorTyped' BY <2>1 DEF EditorInv, EditorTyped
  <2>3. PendingTold' BY <2>1 DEF EditorInv, PendingTold
  <2>4. InBounds' BY <2>1 DEF EditorInv, InBounds
  <2>5. FollowsKeys' BY <2>1 DEF EditorInv, FollowsKeys, Predictable
  <2> QED BY <2>2, <2>3, <2>4, <2>5 DEF EditorInv
<1> QED BY <1>1, <1>2, <1>3, <1>4, <1>5, EditKeeps, HintKeeps, LeftKeeps, RecallKeeps,
    CtrlDKeeps, InterruptKeeps, EnterKeeps, RedrawKeeps DEF EditorNext

\* Whatever keys are pressed, however many arrive together, and whatever is typed and
\* recalled: when a key is parsed, a shadow that calls itself certain is the buffer as it
\* will be when the keys before it have been handled (EditorState and update_from_event,
\* editor/mode.rs).
THEOREM ShadowIsExact == EditorSpec => []ShadowExact
<1> USE EditorAssumption
<1>1. EditorInit => EditorInv BY CourseStarts
<1>2. EditorInv /\ [EditorNext]_editorVars => EditorInv' BY EditorStep
<1>3. EditorInv => ShadowExact
  <2> SUFFICES ASSUME EditorInv, ~eBusy, ~eBlind, ~eShadow.uncertain, Predictable
               PROVE  eShadow = Certain(Ahead)
    BY DEF ShadowExact
  <2>1. Exact(ePending, eReal, eShadow) BY DEF EditorInv, FollowsKeys
  <2>2. ePending \in Seq(Event) /\ eReal \in Line BY DEF EditorInv, EditorTyped
  <2>3. PICK s : s = eShadow OBVIOUS
  <2>4. s = Certain(FoldLeft(Moved, eReal, ePending)) BY <2>1, <2>2, <2>3, CourseEnds
  <2> QED BY <2>3, <2>4 DEF Ahead
<1> QED BY <1>1, <1>2, <1>3, PTL DEF EditorSpec

\* And its cursor is not behind its end then, so that the one, unsigned, can be taken from the
\* other (CutWordRight in update_from_edit_command, which does not check).
THEOREM NothingUnderflows == EditorSpec => [](~eBusy => eShadow.cursor_pos <= eShadow.buffer_len)
<1> USE EditorAssumption
<1>1. EditorInit => EditorInv BY CourseStarts
<1>2. EditorInv /\ [EditorNext]_editorVars => EditorInv' BY EditorStep
<1>3. EditorInv => (~eBusy => eShadow.cursor_pos <= eShadow.buffer_len)
  BY DEF EditorInv, InBounds
<1> QED BY <1>1, <1>2, <1>3, PTL DEF EditorSpec
=============================================================================
