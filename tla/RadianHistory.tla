---------------------------- MODULE RadianHistory ----------------------------
(***************************************************************************)
(* How a radian history file becomes entries (parse_radian_history in      *)
(* history/import.rs), line by line: headers apply to the command lines    *)
(* that follow them, and what ends an entry, and what carries over to the  *)
(* next one, depends on all of them.                                       *)
(***************************************************************************)
EXTENDS Naturals, Sequences, FiniteSets

CONSTANTS
  None,     \* Option::None
  Stamps,   \* timestamps that parse
  MaxLines  \* bound: lines of the file

ASSUME RadianAssumption == None \notin Stamps /\ MaxLines \in Nat

\* "# time: ", with a time or with something else; "# mode: "; a command line; blank
\* lines; comments and whatever else there is
Lines ==
  [k : {"time"}, at : Stamps \cup {None}]
  \cup [k : {"mode"}, mode : {"r", "shell", "browse", "other"}]
  \cup [k : {"command", "blank", "other"}]

VARIABLES
  file,              \* the lines read so far
  current_timestamp, \* of the headers since the last entry
  current_mode,
  current_lines,     \* how many command lines have been collected
  entries,           \* the entries found
  parsed             \* the end of the file has been seen

radianVars == <<file, current_timestamp, current_mode, current_lines, entries, parsed>>

RadianInit ==
  /\ file = <<>> /\ entries = <<>> /\ parsed = FALSE
  /\ current_timestamp = None /\ current_mode = None /\ current_lines = 0

\* ImportMode::from_external
from_external(mode) ==
  CASE mode = None -> "unspecified" [] mode = "other" -> "unsupported" [] OTHER -> mode

Pending == current_lines > 0

\* The entry that ends at the line being read, if there is one (history: where it ends).
Finalize ==
  IF Pending
  THEN Append(entries, [time |-> current_timestamp, mode |-> from_external(current_mode),
                        lines |-> current_lines, end |-> Len(file)])
  ELSE entries

Reads(line) == ~parsed /\ Len(file) < MaxLines /\ file' = Append(file, line)

\* The mode never carries over a time; a time that does not parse is none.
TimeHeader(line) ==
  /\ line.k = "time" /\ Reads(line)
  /\ entries' = Finalize
  /\ current_lines' = 0 /\ current_mode' = None
  /\ current_timestamp' = line.at
  /\ UNCHANGED parsed

ModeHeader(line) ==
  /\ line.k = "mode" /\ Reads(line)
  /\ current_mode' = line.mode
  /\ UNCHANGED <<current_timestamp, current_lines, entries, parsed>>

CommandLine(line) ==
  /\ line.k = "command" /\ Reads(line)
  /\ current_lines' = current_lines + 1
  /\ UNCHANGED <<current_timestamp, current_mode, entries, parsed>>

\* Bug: a blank line ends an entry and leaves its time to the next one.
BlankLineKeepsTime(line) ==
  /\ line.k = "blank" /\ Reads(line)
  /\ entries' = Finalize
  /\ current_lines' = 0
  /\ current_mode' = IF Pending THEN None ELSE current_mode
  /\ UNCHANGED <<current_timestamp, parsed>>

\* A blank line ends an entry; between headers it means nothing.
BlankLine(line) ==
  /\ line.k = "blank" /\ Reads(line)
  /\ entries' = Finalize
  /\ current_lines' = 0
  /\ current_mode' = IF Pending THEN None ELSE current_mode
  /\ current_timestamp' = IF Pending THEN None ELSE current_timestamp
  /\ UNCHANGED parsed

OtherLine(line) ==
  /\ line.k = "other" /\ Reads(line)
  /\ UNCHANGED <<current_timestamp, current_mode, current_lines, entries, parsed>>

EndOfFile ==
  /\ ~parsed
  /\ entries' = Finalize
  /\ current_mode' = IF Pending THEN None ELSE current_mode
  /\ parsed' = TRUE
  /\ UNCHANGED <<file, current_timestamp, current_lines>>

RadianNext ==
  \/ \E line \in Lines : \/ TimeHeader(line) \/ ModeHeader(line) \/ CommandLine(line)
                         \/ BlankLine(line) \/ OtherLine(line)
  \/ EndOfFile

RadianSpec == RadianInit /\ [][RadianNext]_radianVars

------------------------------------------------------------------------------
(* The file by its structure: blocks of command lines between separators *)

\* A separator is a time, or a blank line after a command line of its block.
IsCommand(i) == file[i].k = "command"
Separates(i) ==
  \/ file[i].k = "time"
  \/ /\ file[i].k = "blank"
     /\ \E c \in 1..i - 1 : /\ IsCommand(c)
                            /\ \A j \in c + 1..i - 1 : file[j].k \notin {"time", "blank"}

\* The lines from one separator (or the first line) to the next (or the end).
Blocks ==
  {b \in (0..Len(file)) \X (1..Len(file) + 1) :
     /\ b[1] < b[2]
     /\ b[1] = 0 \/ Separates(b[1])
     /\ b[2] = Len(file) + 1 \/ Separates(b[2])
     /\ \A i \in b[1] + 1..b[2] - 1 : ~Separates(i)}

CommandsOf(b) == {i \in b[1] + 1..b[2] - 1 : IsCommand(i)}
ModesOf(b) == {i \in b[1] + 1..b[2] - 1 : file[i].k = "mode"}
LastOf(S) == CHOOSE i \in S : \A j \in S : j <= i

EntryOf(b) ==
  [time |-> IF b[1] > 0 /\ file[b[1]].k = "time" THEN file[b[1]].at ELSE None,
   mode |-> from_external(IF ModesOf(b) = {} THEN None ELSE file[LastOf(ModesOf(b))].mode),
   lines |-> Cardinality(CommandsOf(b)),
   end |-> b[2] - 1]

\* Every block with a command line is one entry, in the order of the file, and none but
\* these: it has the time of the separator before it, if that is one, and the last mode
\* given in the block. Nothing carries over from one entry to the next
\* ("to prevent carryover", parse_radian_history).
EntriesAreBlocks ==
  parsed =>
    /\ {entries[i] : i \in DOMAIN entries}
         = {EntryOf(b) : b \in {x \in Blocks : CommandsOf(x) # {}}}
    /\ \A i, j \in DOMAIN entries : i < j => entries[i].end < entries[j].end
=============================================================================
