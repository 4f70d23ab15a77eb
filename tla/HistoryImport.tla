---------------------------- MODULE HistoryImport ----------------------------
(***************************************************************************)
(* `arf history import` and `arf history export` (history/import.rs,       *)
(* history/export.rs, app/commands.rs) on the two history databases, while *)
(* sessions write them and other imports run.  An import reads what is     *)
(* there once, then inserts and repairs entry by entry, each in a          *)
(* transaction of its own; an export writes a temporary file and renames.  *)
(***************************************************************************)
EXTENDS Naturals, Sequences, FiniteSets, SequencesExt

CONSTANTS
  Jobs,          \* processes that run one of the two commands each
  Sources,       \* what a history file parses to: sequences of entries
  Options,       \* without --import-duplicates, and with --hostname, or not
  Databases,     \* contents of the databases at the beginning
  Commands, Times,
  NULL,          \* Option::None, SQL NULL
  NoFile,        \* a path without a file
  MaxWrites,     \* bound: how often sessions write
  MaxFailures    \* bound: calls of a store or of the file system that fail

Targets == {"r", "shell"}
\* The columns that tell the properties apart; session_id, cwd and duration_ms are
\* treated as hostname or exit_status are.
Columns == {"hostname", "exit_status", "more_info"}
Values  == {"source", "override", "session", "malformed", NULL}
Modes   == {"r", "shell", "browse", "unspecified", "unsupported"}
Blank   == "blank"      \* a command line of white space

Unset == [c \in Columns |-> NULL]
SavedRow == [command : Commands, time : Times \cup {NULL}, value : [Columns -> Values]]
Entry == [mode : Modes, command : Commands \cup {Blank}, time : Times \cup {NULL},
          value : [Columns -> {"source", "override", NULL}]]

ASSUME ImportAssumption ==
  /\ Sources \subseteq Seq(Entry)
  /\ Options \subseteq [dedup : BOOLEAN, override : BOOLEAN]
  /\ Databases \subseteq [Targets -> Seq(SavedRow)]
  /\ Blank \notin Commands /\ NULL \notin Times
  /\ NULL \notin {"source", "override", "session", "malformed"}
  /\ MaxWrites \in Nat /\ MaxFailures \in Nat

VARIABLES
  source,      \* the file all imports of a behaviour read
  files,       \* which of r.db and shell.db there are
  history,     \* the rows of r.db and shell.db, by id
  nextId,      \* their AUTOINCREMENT counters
  job,         \* the state of each process, see ImportTypeOK
  output,      \* the output path of the exports: nothing, or the tables in the file
  temp,        \* the temporary file of each export
  failures, writes, \* how much of the bounds is used up
  \* History variables.
  predicted,   \* what a dry run would have reported in place of this import; NULL if
               \* somebody else has written meanwhile
  preceded,    \* imports that began after another one had ended well
  deleted      \* a session has deleted a row

importVars == <<source, files, history, nextId, job, output, temp, failures, writes, predicted,
          preceded, deleted>>
exportVars == <<output, temp>>
databaseVars  == <<files, history, nextId>>

Counts   == [imported : Nat, repaired : Nat, duplicates : Nat, skipped : Nat]
NoCounts == [imported |-> 0, repaired |-> 0, duplicates |-> 0, skipped |-> 0]

\* A table of an exported file: created, then filled in one transaction; or passed
\* over, as there is no database.
Files  == {NoFile} \cup [Targets -> {"absent", "created", "copied", "none"}]
Empty  == [t \in Targets |-> "absent"]

Running      == {"opened", "read", "importing"}
ImportPhases == {"idle", "imported"} \cup Running
ExportPhases == {"exporting", "failed", "exported"}
Idle == [phase |-> "idle", todo |-> <<>>, dedup |-> FALSE, override |-> FALSE,
         known |-> [t \in Targets |-> << >>], counts |-> NoCounts, failed |-> FALSE]

ImportTypeOK ==
  /\ source \in Sources /\ files \subseteq Targets
  /\ nextId \in [Targets -> Nat]
  /\ \A t \in Targets : \A i \in DOMAIN history[t] :
       i \in 1..(nextId[t] - 1) /\ history[t][i] \in SavedRow
  /\ \A j \in Jobs :
       /\ job[j].phase \in ImportPhases \cup ExportPhases \cup {"killed"}
       /\ job[j].todo \in Seq(Entry) /\ job[j].counts \in Counts
  /\ output \in Files /\ temp \in [Jobs -> Files]
  /\ failures \in 0..MaxFailures

-----------------------------------------------------------------------------
(* Reading another database, or an exported file, row by row: metadata     *)
(* that cannot be parsed is left out with a warning.                       *)

FromTable(table, mode) ==
  [i \in DOMAIN table |->
     [mode |-> mode, command |-> table[i].command, time |-> table[i].time,
      value |-> [c \in Columns |-> IF table[i].value[c] \in {NULL, "malformed"} THEN NULL
                                   ELSE "source"]]]

\* parse_unified_arf_history: the tables there are, that of R first.
FromExport(tables) ==
  (IF "r" \in DOMAIN tables THEN FromTable(tables["r"], "r") ELSE <<>>) \o
  (IF "shell" \in DOMAIN tables THEN FromTable(tables["shell"], "shell") ELSE <<>>)

-----------------------------------------------------------------------------
(* Planning.  What an import knows of a database (DedupSet) is a copy of   *)
(* its table, taken once: of their values only whether they are NULL or     *)
(* malformed is looked at.                                                 *)

Has(row, c) == row.value[c] # NULL

\* Mutant: rows without a time are in no index.
RowsMatching_TimeAlways(known, e) ==
  {i \in DOMAIN known : /\ known[i].command = e.command
                        /\ e.time = known[i].time /\ e.time # NULL}

\* Rows are looked up by command and time, an entry without a time by its command.
RowsMatching(known, e) ==
  {i \in DOMAIN known : known[i].command = e.command /\ e.time \in {NULL, known[i].time}}

NeedsRepair(row, e) == \E c \in Columns : Has(e, c) /\ ~Has(row, c)

TargetOf(e) == IF e.mode = "shell" THEN "shell" ELSE "r"

\* plan_entry, with the id of the row to repair where there is one.
Plan(known, dedup, e) ==
  LET found == RowsMatching(known[TargetOf(e)], e)
      row   == CHOOSE i \in found : TRUE
  IN IF e.command = Blank \/ e.mode = "unsupported" THEN [do |-> "skip"]
     ELSE IF ~dedup \/ found = {} THEN [do |-> "insert"]
     ELSE IF Cardinality(found) = 1 /\ NeedsRepair(known[TargetOf(e)][row], e)
          THEN [do |-> "repair", id |-> row]
     ELSE [do |-> "duplicate"]  \* several rows: ambiguous, a warning

\* mark_repaired: the copy advances with repairs, not with insertions.
MarkRepaired(known, id, e) ==
  [known EXCEPT ![TargetOf(e)][id].value =
     [c \in Columns |-> IF @[c] = NULL THEN e.value[c] ELSE @[c]]]

WithHostname(e, override) ==
  IF override THEN [e EXCEPT !.value["hostname"] = "override"] ELSE e

Add(counts, what) == [counts EXCEPT ![what] = @ + 1]
CountOf(plan) ==
  CASE plan.do = "insert" -> "imported" [] plan.do = "repair" -> "repaired"
    [] plan.do = "duplicate" -> "duplicates" [] plan.do = "skip" -> "skipped"

DryStep(acc, e, dedup) ==
  LET plan == Plan(acc.known, dedup, e)
  IN [known  |-> IF plan.do = "repair" THEN MarkRepaired(acc.known, plan.id, e)
                 ELSE acc.known,
      counts |-> Add(acc.counts, CountOf(plan))]

\* import_entries_dry_run
DryRun(entries, known, dedup) ==
  FoldLeft(LAMBDA acc, e : DryStep(acc, e, dedup),
           [known |-> known, counts |-> NoCounts], entries).counts

-----------------------------------------------------------------------------
(* An import.                                                              *)

ImportInit ==
  /\ source \in Sources
  /\ history \in Databases /\ files \in {F \in SUBSET Targets : \A t \in Targets :
                                          history[t] # <<>> => t \in F}
  /\ nextId = [t \in Targets |-> Len(history[t]) + 1]
  /\ job = [j \in Jobs |-> Idle]
  /\ output = NoFile
  /\ temp = [j \in Jobs |-> NoFile]
  /\ failures = 0
  /\ predicted = [j \in Jobs |-> NULL]
  /\ writes = 0
  /\ preceded = {} /\ deleted = FALSE

Set(j, new) == job' = [job EXCEPT ![j] = new]

\* A write that the imports of the others cannot know of.
Disturbs(others) ==
  predicted' = [j \in Jobs |-> IF j \in others /\ job[j].phase \in Running THEN NULL
                               ELSE predicted[j]]
FailsNow    == failures < MaxFailures /\ failures' = failures + 1

EndedWell(k) == job[k].phase = "imported" /\ ~job[k].failed

\* handle_history_import up to the opened stores; the options are the user's.
BeginImport(j) ==
  /\ job[j].phase = "idle"
  /\ \E o \in Options :
       Set(j, [Idle EXCEPT !.phase = "opened", !.dedup = o.dedup, !.override = o.override])
  /\ files' = Targets
  /\ predicted' = [predicted EXCEPT ![j] = NoCounts]
  /\ preceded' = IF \E k \in Jobs : EndedWell(k) THEN preceded \cup {j} ELSE preceded
  /\ UNCHANGED <<source, history, nextId, exportVars, failures, writes, deleted>>

\* DedupSet::from_history of the R store, then, in another statement, of the shell store.
ReadRows(j) ==
  /\ job[j].phase = "opened"
  /\ Set(j, [job[j] EXCEPT !.phase = "read", !.known["r"] = history["r"]])
  /\ UNCHANGED <<source, databaseVars, exportVars, failures, predicted, writes, preceded,
                 deleted>>

ReadShellRows(j) ==
  /\ job[j].phase = "read"
  /\ LET entries == [i \in DOMAIN source |-> WithHostname(source[i], job[j].override)]
         known   == [job[j].known EXCEPT !["shell"] = history["shell"]]
     IN /\ Set(j, [job[j] EXCEPT !.phase = "importing", !.known = known, !.todo = entries])
        /\ predicted' = [predicted EXCEPT ![j] =
                            IF @ = NULL THEN @ ELSE DryRun(entries, known, job[j].dedup)]
  /\ UNCHANGED <<source, databaseVars, exportVars, failures, writes, preceded, deleted>>

\* The entry at hand, what is planned for it, and the job that has counted it.
Entry1(j) == Head(job[j].todo)
PlanOf(j) == Plan(job[j].known, job[j].dedup, Entry1(j))
AtEntry(j, what) ==
  job[j].phase = "importing" /\ job[j].todo # <<>> /\ PlanOf(j).do = what
Counted(j, what) ==
  [job[j] EXCEPT !.todo = Tail(@), !.counts = Add(@, what)]

\* save_imported: one INSERT.
Inserted(table, id, row) ==
  [i \in DOMAIN table \cup {id} |-> IF i = id THEN row ELSE table[i]]
InsertRow(t, e) ==
  /\ history' = [history EXCEPT ![t] =
                    Inserted(@, nextId[t], [command |-> e.command, time |-> e.time,
                                            value |-> e.value])]
  /\ nextId' = [nextId EXCEPT ![t] = @ + 1]

Insert(j) ==
  /\ AtEntry(j, "insert")
  /\ InsertRow(TargetOf(Entry1(j)), Entry1(j))
  /\ Set(j, Counted(j, "imported"))
  /\ Disturbs(Jobs \ {j})
  /\ UNCHANGED <<source, files, exportVars, failures, writes, preceded, deleted>>

\* Mutant: the source wins.
Filled_Overwriting(row, e) ==
  [row EXCEPT !.value = [c \in Columns |-> IF Has(e, c) THEN e.value[c] ELSE @[c]]]

\* set_missing_fields_if_empty: an UPDATE in an IMMEDIATE transaction, of the columns
\* that are NULL in the row now. WHERE looks at the row's command and time again.
Filled(row, e) ==
  [row EXCEPT !.value = [c \in Columns |-> IF @[c] = NULL THEN e.value[c] ELSE @[c]]]

Repairable(table, id, e) ==
  /\ id \in DOMAIN table
  /\ table[id].command = e.command /\ e.time \in {NULL, table[id].time}
  /\ NeedsRepair(table[id], e)

Repair(j) ==
  /\ AtEntry(j, "repair")
  /\ LET e  == Entry1(j)
         t  == TargetOf(e)
         id == PlanOf(j).id
     IN IF Repairable(history[t], id, e)
        THEN /\ history' = [history EXCEPT ![t][id] = Filled(@, e)]
             /\ Set(j, [Counted(j, "repaired") EXCEPT !.known = MarkRepaired(@, id, e)])
             /\ Disturbs(Jobs \ {j})
        ELSE /\ Set(j, Counted(j, "duplicates"))
             /\ UNCHANGED <<history, predicted>>
  /\ UNCHANGED <<source, files, nextId, exportVars, failures, writes, preceded, deleted>>

\* The call of the store fails (another process holds the lock for too long, the disk
\* is full): a warning, and the next entry.
StoreFails(j) ==
  /\ \/ AtEntry(j, "insert") /\ Set(j, [Counted(j, "skipped") EXCEPT !.failed = TRUE])
     \/ AtEntry(j, "repair") /\ Set(j, [Counted(j, "duplicates") EXCEPT !.failed = TRUE])
  /\ FailsNow
  /\ UNCHANGED <<source, databaseVars, exportVars, predicted, writes, preceded, deleted>>

PassOver(j) ==
  /\ \/ AtEntry(j, "duplicate") /\ Set(j, Counted(j, "duplicates"))
     \/ AtEntry(j, "skip") /\ Set(j, Counted(j, "skipped"))
  /\ UNCHANGED <<source, databaseVars, exportVars, failures, predicted, writes, preceded,
                 deleted>>

\* What is left of a job when its process ends.
Ended(j) == [Idle EXCEPT !.dedup = job[j].dedup, !.override = job[j].override,
                         !.counts = job[j].counts, !.failed = job[j].failed]

Finish(j) ==
  /\ job[j].phase = "importing" /\ job[j].todo = <<>>
  /\ Set(j, [Ended(j) EXCEPT !.phase = "imported"])
  /\ UNCHANGED <<source, databaseVars, exportVars, failures, predicted, writes, preceded,
                 deleted>>

-----------------------------------------------------------------------------
(* An export.  The tables are copied into temp[j], which is renamed.       *)

BeginExport(j) ==
  /\ job[j].phase = "idle"
  /\ output = NoFile     \* otherwise "Output file already exists"
  /\ files # {}
  /\ Set(j, [Idle EXCEPT !.phase = "exporting"])
  /\ temp' = [temp EXCEPT ![j] = Empty]
  /\ UNCHANGED <<source, databaseVars, output, failures, predicted, writes, preceded, deleted>>

Copied(j, t) == temp[j][t] \in {"copied", "none"}
AllCopied(j) == \A t \in Targets : Copied(j, t)

\* copy_history_table: the table, then its rows in one transaction; first that of R.
CopyTable(j) ==
  /\ job[j].phase = "exporting"
  /\ \E t \in Targets :
       /\ t = "shell" => Copied(j, "r")
       /\ ~Copied(j, t)
       /\ temp' = [temp EXCEPT ![j][t] =
                     IF t \notin files THEN "none"
                     ELSE IF @ = "absent" THEN "created" ELSE "copied"]
  /\ UNCHANGED <<source, databaseVars, job, output, failures, predicted, writes, preceded,
                 deleted>>

\* fs::rename replaces whatever another export has put there in the meantime.
Publish(j) ==
  /\ job[j].phase = "exporting" /\ AllCopied(j)
  /\ output' = temp[j]
  /\ temp' = [temp EXCEPT ![j] = NoFile]
  /\ Set(j, [job[j] EXCEPT !.phase = "exported"])
  /\ UNCHANGED <<source, databaseVars, failures, predicted, writes, preceded, deleted>>

\* Mutant: the result of export_to_file is not looked at.
ExportFails_Renames(j) ==
  /\ job[j].phase = "exporting"
  /\ output' = temp[j] /\ temp' = [temp EXCEPT ![j] = NoFile]
  /\ Set(j, [job[j] EXCEPT !.phase = "failed"])
  /\ FailsNow
  /\ UNCHANGED <<source, databaseVars, predicted, writes, preceded, deleted>>

\* A step of export_to_file fails, and the temporary file goes; or the rename does, and
\* it stays.
ExportFails(j) ==
  /\ job[j].phase = "exporting"
  /\ temp' = IF AllCopied(j) THEN temp ELSE [temp EXCEPT ![j] = NoFile]
  /\ Set(j, [job[j] EXCEPT !.phase = "failed"])
  /\ FailsNow
  /\ UNCHANGED <<source, databaseVars, output, predicted, writes, preceded, deleted>>

-----------------------------------------------------------------------------
(* What goes on meanwhile: the processes may be killed, and sessions use   *)
(* the same databases (CommandLifecycle has their side of it).             *)

Kill(j) ==
  /\ job[j].phase \in Running \cup {"exporting"}
  /\ Set(j, [Ended(j) EXCEPT !.phase = "killed"])
  /\ UNCHANGED <<source, databaseVars, exportVars, failures, predicted, writes, preceded,
                 deleted>>

SessionWrites == writes < MaxWrites /\ writes' = writes + 1 /\ Disturbs(Jobs)

SessionSaves(t) ==
  /\ \E c \in Commands, when \in Times :
       InsertRow(t, [command |-> c, time |-> when,
                     value |-> [Unset EXCEPT !["hostname"] = "session"]])
  /\ files' = files \cup {t}
  /\ SessionWrites
  /\ UNCHANGED <<source, job, exportVars, failures, preceded, deleted>>

\* finalize_meta_command, and set_exit_status when the command has ended.
SessionUpdates(t) ==
  /\ \E id \in DOMAIN history[t], c \in {"more_info", "exit_status"} :
       /\ history[t][id].value["hostname"] = "session"
       /\ history[t][id].value[c] # "session"
       /\ history' = [history EXCEPT ![t][id].value[c] = "session"]
  /\ SessionWrites
  /\ UNCHANGED <<source, files, nextId, job, exportVars, failures, preceded, deleted>>

\* The sponge, the history browser.
SessionDeletes(t) ==
  /\ \E id \in DOMAIN history[t] :
       history' = [history EXCEPT ![t] = Restrict(@, DOMAIN @ \ {id})]
  /\ deleted' = TRUE
  /\ SessionWrites
  /\ UNCHANGED <<source, files, nextId, job, exportVars, failures, preceded>>

ImportStep(j) ==
  \/ BeginImport(j) \/ ReadRows(j) \/ ReadShellRows(j)
  \/ Insert(j) \/ Repair(j) \/ StoreFails(j) \/ PassOver(j) \/ Finish(j)
ExportStep(j) == BeginExport(j) \/ CopyTable(j) \/ Publish(j) \/ ExportFails(j)

ImportNext ==
  \/ \E j \in Jobs : ImportStep(j) \/ ExportStep(j) \/ Kill(j)
  \/ \E t \in Targets : SessionSaves(t) \/ SessionUpdates(t) \/ SessionDeletes(t)

ImportSpec == ImportInit /\ [][ImportNext]_importVars

-----------------------------------------------------------------------------
(* Properties.                                                             *)

\* An import never removes a row, never changes a value that is there, and writes only
\* into rows of the command it has at hand (and of its time, if it has one), however
\* much has happened to them since it read the databases.
OnlyFillsGaps == [][
  \A j \in Jobs : history' # history /\ ImportStep(j) =>
   \A t \in Targets : \A id \in DOMAIN history[t] :
    /\ id \in DOMAIN history'[t]
    /\ \A c \in Columns : Has(history[t][id], c) =>
                            history'[t][id].value[c] = history[t][id].value[c]
    /\ history'[t][id] # history[t][id] =>
         LET e == Entry1(j) IN t = TargetOf(e) /\ id \in RowsMatching(history[t], e)]_importVars

\* Importing a file again inserts nothing, whatever a session has saved in between: what
\* the documentation calls safe. (Rows the user has deleted come back, and two imports
\* at the same time do not see each other's rows.)
ReimportInsertsNothing ==
  \A j \in preceded : job[j].dedup /\ ~deleted => job[j].counts.imported = 0

\* A dry run tells what the import would do: the two count alike, unless somebody else
\* writes the databases or the store fails.
DryRunTells ==
  \A j \in Jobs : EndedWell(j) /\ predicted[j] # NULL => job[j].counts = predicted[j]

\* When an import has ended well, each of its entries has a row in the right database,
\* with all the entry tells: a row that an earlier import, or one that was killed, has
\* left with gaps is completed. Only when several rows match are they left alone.
SourceComplete ==
  \A j \in Jobs : EndedWell(j) /\ ~deleted =>
    \A i \in DOMAIN source :
      LET e     == WithHostname(source[i], job[j].override)
          t     == TargetOf(e)
          found == RowsMatching(history[t], e)
      IN e.command # Blank /\ e.mode # "unsupported" =>
           \/ Cardinality(found) > 1
           \/ \E id \in found : ~NeedsRepair(history[t][id], e)

\* What an import reports can be relied on: nothing comes twice, a dry run tells it, and
\* after one that ended well the histories have what the source has.
CountsTellTruth == ReimportInsertsNothing /\ DryRunTells /\ SourceComplete

\* Whatever fails and whenever a process is killed: the output path holds all tables of
\* the databases there are, or nothing.
OutputWhole ==
  output # NoFile =>
    /\ \A t \in Targets : output[t] \in {"copied", "none"}
    /\ \E t \in Targets : output[t] = "copied"

=============================================================================
