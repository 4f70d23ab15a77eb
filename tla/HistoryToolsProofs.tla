-------------------------- MODULE HistoryToolsProofs --------------------------
(***************************************************************************)
(* Proofs about the commands that run beside the console, and about its    *)
(* history and its policy.  For any number of imports and exports, any     *)
(* files and databases, whatever fails or is killed (HistoryImport): an    *)
(* export is whole or is not there, an import only fills gaps, after it    *)
(* the databases have what the file has, done again it inserts nothing,    *)
(* and a dry run tells what it will do.                                    *)
(* For any command of arf ipc, however its bytes are cut and whoever dies  *)
(* (IpcClient): its exit code tells what has become of the request, and    *)
(* the client does not give up first.  For any radian history              *)
(* (RadianHistory): its entries are the blocks of the file.  For any code  *)
(* and any allowlist (EvalPolicy): silent evaluation calls what is listed. *)
(* For any database, whatever is written between the pages (HistorySearch):*)
(* an answer lacks nothing.  For any list and filters (HistoryBrowser):    *)
(* what is deleted is what was chosen and announced.                       *)
(***************************************************************************)
EXTENDS HistoryImport, IpcClient, RadianHistory, EvalPolicy, HistorySearch, HistoryBrowser,
  Inductions, FunctionTheorems, SequenceTheorems

-----------------------------------------------------------------------------
(* Tables.                                                                 *)

Tables == UNION {[S -> SavedRow] : S \in SUBSET Nat}

LEMMA TableIs ==
  ASSUME NEW f \in Tables
  PROVE  /\ DOMAIN f \subseteq Nat /\ f \in [DOMAIN f -> SavedRow]
         /\ \A i \in DOMAIN f : f[i] \in SavedRow
<1>1. PICK S \in SUBSET Nat : f \in [S -> SavedRow] BY DEF Tables
<1>2. DOMAIN f = S BY <1>1
<1> QED BY <1>1, <1>2

LEMMA IsTable ==
  ASSUME NEW S \in SUBSET Nat, NEW f \in [S -> SavedRow]
  PROVE  f \in Tables
BY DEF Tables

LEMMA SeqIsTable ==
  ASSUME NEW f \in Seq(SavedRow)
  PROVE  f \in Tables
<1>1. f \in [1..Len(f) -> SavedRow] /\ 1..Len(f) \subseteq Nat OBVIOUS
<1> QED BY <1>1, IsTable

\* A row of SavedRow whose values have changed.
LEMMA RowWithValues ==
  ASSUME NEW r \in SavedRow, NEW v \in [Columns -> Values]
  PROVE  /\ [r EXCEPT !.value = v] \in SavedRow
         /\ [r EXCEPT !.value = v].value = v
         /\ [r EXCEPT !.value = v].command = r.command
         /\ [r EXCEPT !.value = v].time = r.time
BY DEF SavedRow

LEMMA InsertedTable ==
  ASSUME NEW f \in Tables, NEW n \in Nat, NEW r \in SavedRow
  PROVE  /\ Inserted(f, n, r) \in Tables /\ DOMAIN Inserted(f, n, r) = DOMAIN f \cup {n}
         /\ Inserted(f, n, r)[n] = r
         /\ \A i \in DOMAIN f : i # n => Inserted(f, n, r)[i] = f[i]
<1>1. DOMAIN f \subseteq Nat /\ \A i \in DOMAIN f : f[i] \in SavedRow BY TableIs
<1>2. Inserted(f, n, r) \in [DOMAIN f \cup {n} -> SavedRow] BY <1>1 DEF Inserted
<1>3. Inserted(f, n, r) \in Tables BY <1>1, <1>2, IsTable
<1> QED BY <1>3 DEF Inserted

-----------------------------------------------------------------------------
(* The state of a process.                                                 *)

AllTables == [Targets -> Tables]
JobType ==
  [phase : ImportPhases \cup ExportPhases \cup {"killed"}, todo : Seq(Entry), dedup : BOOLEAN,
   override : BOOLEAN, known : AllTables, counts : Counts, failed : BOOLEAN]

LEMMA IdleType == Idle \in JobType
<1>1. << >> \in Seq(SavedRow) /\ << >> \in Seq(Entry) OBVIOUS
<1>2. [t \in Targets |-> << >>] \in AllTables BY <1>1, SeqIsTable DEF AllTables
<1>3. NoCounts \in Counts BY DEF NoCounts, Counts
<1> HIDE DEF NoCounts, Counts, AllTables, Tables, Entry
<1> QED BY <1>1, <1>2, <1>3 DEF Idle, JobType, ImportPhases

LEMMA CountType ==
  ASSUME NEW c \in Counts, NEW what \in {"imported", "repaired", "duplicates", "skipped"}
  PROVE  /\ Add(c, what) \in Counts
         /\ what # "imported" => Add(c, what).imported = c.imported
BY DEF Counts, Add

LEMMA Targeted == ASSUME NEW e PROVE TargetOf(e) \in Targets
BY DEF TargetOf, Targets

LEMMA HostnameOnly ==
  ASSUME NEW e \in Entry, NEW override
  PROVE  LET d == WithHostname(e, override)
         IN d \in Entry /\ d.command = e.command /\ d.time = e.time /\ d.mode = e.mode
<1>1. CASE override
  <2>1. e.value \in [Columns -> {"source", "override", NULL}] BY DEF Entry
  <2>2. [e.value EXCEPT !["hostname"] = "override"] \in [Columns -> {"source", "override", NULL}]
    BY <2>1
  <2>3. WithHostname(e, override)
          = [e EXCEPT !.value = [e.value EXCEPT !["hostname"] = "override"]]
    BY <1>1 DEF WithHostname
  <2> QED BY <2>2, <2>3 DEF Entry
<1>2. CASE ~override BY <1>2 DEF WithHostname
<1> QED BY <1>1, <1>2

-----------------------------------------------------------------------------
(* Plans.                                                                  *)

Importable(e) == e.command # Blank /\ e.mode # "unsupported"

LEMMA PlanIs ==
  ASSUME NEW known, NEW dedup, NEW e
  PROVE  LET plan  == Plan(known, dedup, e)
             found == RowsMatching(known[TargetOf(e)], e)
         IN \/ plan.do = "skip" /\ ~Importable(e)
            \/ plan.do = "insert" /\ Importable(e) /\ (~dedup \/ found = {})
            \/ /\ plan.do = "repair" /\ Importable(e) /\ dedup
               /\ plan.id \in found /\ NeedsRepair(known[TargetOf(e)][plan.id], e)
            \/ /\ plan.do = "duplicate" /\ Importable(e) /\ dedup /\ found # {}
               /\ \/ Cardinality(found) # 1
                  \/ \E i \in found : ~NeedsRepair(known[TargetOf(e)][i], e)
<1> DEFINE found == RowsMatching(known[TargetOf(e)], e)
           row   == CHOOSE i \in found : TRUE
<1>1. Plan(known, dedup, e)
        = IF e.command = Blank \/ e.mode = "unsupported" THEN [do |-> "skip"]
          ELSE IF ~dedup \/ found = {} THEN [do |-> "insert"]
          ELSE IF Cardinality(found) = 1 /\ NeedsRepair(known[TargetOf(e)][row], e)
               THEN [do |-> "repair", id |-> row]
          ELSE [do |-> "duplicate"]
  BY DEF Plan
<1>2. found # {} => row \in found OBVIOUS
<1> HIDE DEF found, row
<1>3. CASE ~Importable(e) BY <1>1, <1>3 DEF Importable
<1>4. CASE Importable(e) /\ (~dedup \/ found = {})
  BY <1>1, <1>4 DEF Importable, found
<1>5. CASE /\ Importable(e) /\ dedup /\ found # {}
           /\ Cardinality(found) = 1 /\ NeedsRepair(known[TargetOf(e)][row], e)
  BY <1>1, <1>2, <1>5 DEF Importable, found
<1>6. CASE /\ Importable(e) /\ dedup /\ found # {}
           /\ ~(Cardinality(found) = 1 /\ NeedsRepair(known[TargetOf(e)][row], e))
  BY <1>1, <1>2, <1>6 DEF Importable, found
<1> QED BY <1>3, <1>4, <1>5, <1>6

-----------------------------------------------------------------------------
(* Filling the gaps of a row, in a database or in what is known of it.     *)

Gapless(row, e) == [c \in Columns |-> IF row.value[c] = NULL THEN e.value[c] ELSE row.value[c]]

LEMMA FilledIs ==
  ASSUME NEW r \in SavedRow, NEW e \in Entry
  PROVE  /\ Filled(r, e) \in SavedRow
         /\ Filled(r, e).command = r.command /\ Filled(r, e).time = r.time
         /\ \A c \in Columns : Has(r, c) => Filled(r, e).value[c] = r.value[c]
         /\ \A c \in Columns : Has(Filled(r, e), c) <=> Has(r, c) \/ Has(e, c)
<1>1. Filled(r, e) = [r EXCEPT !.value = Gapless(r, e)] BY DEF Filled, Gapless
<1>2. r.value \in [Columns -> Values] /\ e.value \in [Columns -> {"source", "override", NULL}]
  BY DEF SavedRow, Entry
<1>3. Gapless(r, e) \in [Columns -> Values] BY <1>2 DEF Gapless, Values
<1>4. /\ Filled(r, e) \in SavedRow
      /\ Filled(r, e).command = r.command /\ Filled(r, e).time = r.time
      /\ Filled(r, e).value = Gapless(r, e)
  BY <1>1, <1>3, RowWithValues
<1>5. \A c \in Columns : Has(r, c) => Gapless(r, e)[c] = r.value[c] BY DEF Has, Gapless
<1>6. \A c \in Columns : Gapless(r, e)[c] # NULL <=> Has(r, c) \/ Has(e, c)
  BY DEF Has, Gapless
<1> QED BY <1>4, <1>5, <1>6 DEF Has

\* What is known is marked as the database is filled.
LEMMA MarkedIs ==
  ASSUME NEW known \in AllTables, NEW e \in Entry, NEW id \in DOMAIN known[TargetOf(e)]
  PROVE  LET marked == MarkRepaired(known, id, e)
         IN /\ marked \in AllTables
            /\ \A t \in Targets : DOMAIN marked[t] = DOMAIN known[t]
            /\ marked[TargetOf(e)][id] = Filled(known[TargetOf(e)][id], e)
            /\ \A t \in Targets : \A i \in DOMAIN known[t] :
                 t # TargetOf(e) \/ i # id => marked[t][i] = known[t][i]
<1> DEFINE t0 == TargetOf(e)
           r  == known[t0][id]
           new == [known[t0] EXCEPT ![id] = Filled(r, e)]
           marked == [known EXCEPT ![t0] = new]
<1>1. t0 \in Targets BY Targeted
<1>2. known[t0] \in Tables BY <1>1 DEF AllTables
<1>3. /\ known[t0] \in [DOMAIN known[t0] -> SavedRow] /\ DOMAIN known[t0] \in SUBSET Nat
      /\ r \in SavedRow
  BY <1>2, TableIs
<1>4. Filled(r, e) \in SavedRow BY <1>3, FilledIs
<1>5. MarkRepaired(known, id, e) = marked
  <2>1. MarkRepaired(known, id, e)
          = [known EXCEPT ![t0] = [known[t0] EXCEPT ![id] = [r EXCEPT !.value = Gapless(r, e)]]]
    BY DEF MarkRepaired, Gapless
  <2>2. Filled(r, e) = [r EXCEPT !.value = Gapless(r, e)] BY DEF Filled, Gapless
  <2> QED BY <2>1, <2>2
<1> HIDE DEF r, t0
<1>6. new \in [DOMAIN known[t0] -> SavedRow] BY <1>3, <1>4
<1>7. DOMAIN new = DOMAIN known[t0] /\ new \in Tables BY <1>3, <1>6, IsTable
<1>8. new[id] = Filled(r, e) /\ \A i \in DOMAIN known[t0] : i # id => new[i] = known[t0][i]
  BY <1>3 DEF t0
<1> HIDE DEF new
<1>9. known \in [Targets -> Tables] BY DEF AllTables
<1>10. marked[t0] = new /\ \A t \in Targets : t # t0 => marked[t] = known[t] BY <1>1, <1>9
<1>11. marked \in AllTables BY <1>1, <1>7, <1>9 DEF AllTables
<1> HIDE DEF marked
<1> QED BY <1>1, <1>5, <1>7, <1>8, <1>10, <1>11 DEF t0, r

-----------------------------------------------------------------------------
(* What a table may become: rows come, and gaps are filled.                *)

Fuller(r, s) ==
  s.command = r.command /\ s.time = r.time /\ \A c \in Columns : Has(r, c) => Has(s, c)
Within(a, b) == \A i \in DOMAIN a : i \in DOMAIN b /\ Fuller(a[i], b[i])

\* What SourceComplete asks for one entry, and what makes an import pass it over.
Told(table, e) ==
  Importable(e) => LET found == RowsMatching(table, e)
                   IN \/ Cardinality(found) > 1
                      \/ \E id \in found : ~NeedsRepair(table[id], e)
Present(table, e) == Importable(e) => RowsMatching(table, e) # {}

LEMMA WithinSelf == ASSUME NEW a PROVE Within(a, a)
BY DEF Within, Fuller

LEMMA WithinTransitive ==
  ASSUME NEW a, NEW b, NEW c, Within(a, b), Within(b, c)
  PROVE  Within(a, c)
BY DEF Within, Fuller

LEMMA MatchesStay ==
  ASSUME NEW a, NEW b, NEW e, Within(a, b)
  PROVE  RowsMatching(a, e) \subseteq RowsMatching(b, e)
BY DEF Within, Fuller, RowsMatching

LEMMA PresentStays ==
  ASSUME NEW a, NEW b, NEW e, Within(a, b), Present(a, e)
  PROVE  Present(b, e)
BY MatchesStay DEF Present

LEMMA ToldStays ==
  ASSUME NEW a, NEW b, NEW e, Within(a, b), IsFiniteSet(DOMAIN b), Told(a, e)
  PROVE  Told(b, e)
<1> SUFFICES ASSUME Importable(e)
             PROVE  \/ Cardinality(RowsMatching(b, e)) > 1
                    \/ \E id \in RowsMatching(b, e) : ~NeedsRepair(b[id], e)
  BY DEF Told
<1>1. RowsMatching(a, e) \subseteq RowsMatching(b, e) BY MatchesStay
<1>2. CASE Cardinality(RowsMatching(a, e)) > 1
  <2>1. RowsMatching(b, e) \subseteq DOMAIN b BY DEF RowsMatching
  <2>2. IsFiniteSet(RowsMatching(b, e)) BY <2>1, FS_Subset
  <2>3. /\ Cardinality(RowsMatching(a, e)) \in Nat /\ Cardinality(RowsMatching(b, e)) \in Nat
        /\ Cardinality(RowsMatching(a, e)) <= Cardinality(RowsMatching(b, e))
    BY <1>1, <2>2, FS_Subset, FS_CardinalityType
  <2> QED BY <1>2, <2>3
<1>3. CASE \E id \in RowsMatching(a, e) : ~NeedsRepair(a[id], e)
  <2>1. PICK id \in RowsMatching(a, e) : ~NeedsRepair(a[id], e) BY <1>3
  <2>2. id \in DOMAIN a BY DEF RowsMatching
  <2>3. ~NeedsRepair(b[id], e) BY <2>1, <2>2 DEF NeedsRepair, Within, Fuller
  <2> QED BY <1>1, <2>1, <2>3
<1> QED BY <1>2, <1>3 DEF Told

\* An entry that is taken for a duplicate.
LEMMA DuplicateIsTold ==
  ASSUME NEW table, NEW e, IsFiniteSet(DOMAIN table), RowsMatching(table, e) # {},
         \/ Cardinality(RowsMatching(table, e)) # 1
         \/ \E i \in RowsMatching(table, e) : ~NeedsRepair(table[i], e)
  PROVE  Told(table, e)
<1>1. RowsMatching(table, e) \subseteq DOMAIN table BY DEF RowsMatching
<1>2. IsFiniteSet(RowsMatching(table, e)) BY <1>1, FS_Subset
<1>3. Cardinality(RowsMatching(table, e)) \in Nat \ {0} BY <1>2, FS_CardinalityType, FS_EmptySet
<1> QED BY <1>3 DEF Told

LEMMA ToldIsPresent ==
  ASSUME NEW table, NEW e, Told(table, e)
  PROVE  Present(table, e)
<1>1. Cardinality({}) = 0 BY FS_EmptySet
<1> QED BY <1>1 DEF Told, Present

\* Which host it is said to come from does not tell which rows match an entry.
LEMMA HostnameDoesNotMatter ==
  ASSUME NEW table, NEW e \in Entry, NEW override
  PROVE  Present(table, WithHostname(e, override)) <=> Present(table, e)
BY HostnameOnly DEF Present, Importable, RowsMatching

-----------------------------------------------------------------------------
(* Types.                                                                  *)

DatabaseTypes ==
  /\ source \in Seq(Entry) /\ files \subseteq Targets
  /\ history \in AllTables /\ nextId \in [Targets -> Nat \ {0}]
  /\ \A t \in Targets : \A i \in DOMAIN history[t] : i \in 1..(nextId[t] - 1)
JobTypes == job \in [Jobs -> JobType] /\ preceded \subseteq Jobs /\ deleted \in BOOLEAN
FileTypes == output \in Files /\ temp \in [Jobs -> Files]

LEMMA TablesAreFinite ==
  ASSUME DatabaseTypes, NEW t \in Targets
  PROVE  IsFiniteSet(DOMAIN history[t])
<1>1. DOMAIN history[t] \subseteq 1..(nextId[t] - 1) /\ nextId[t] \in Nat BY DEF DatabaseTypes
<1>2. IsFiniteSet(1..(nextId[t] - 1)) BY <1>1, FS_Interval
<1> QED BY <1>1, <1>2, FS_Subset

\* A row of r.db or shell.db is replaced.
Replaces(t, id, row) ==
  /\ history'[t][id] = row
  /\ \A u \in Targets : /\ DOMAIN history'[u] = DOMAIN history[u]
                        /\ \A i \in DOMAIN history[u] :
                             u # t \/ i # id => history'[u][i] = history[u][i]

LEMMA RowReplaced ==
  ASSUME DatabaseTypes, NEW t \in Targets, NEW id \in DOMAIN history[t], NEW row \in SavedRow,
         history' = [history EXCEPT ![t] = [history[t] EXCEPT ![id] = row]],
         UNCHANGED <<source, files, nextId>>
  PROVE  DatabaseTypes' /\ Replaces(t, id, row)
<1> DEFINE new == [history[t] EXCEPT ![id] = row]
<1>1. history \in [Targets -> Tables] /\ history[t] \in Tables BY DEF DatabaseTypes, AllTables
<1>2. history[t] \in [DOMAIN history[t] -> SavedRow] /\ DOMAIN history[t] \in SUBSET Nat
  BY <1>1, TableIs
<1>3. new \in [DOMAIN history[t] -> SavedRow] BY <1>2
<1>4. DOMAIN new = DOMAIN history[t] /\ new \in Tables BY <1>2, <1>3, IsTable
<1>5. new[id] = row /\ \A i \in DOMAIN history[t] : i # id => new[i] = history[t][i] BY <1>2
<1> HIDE DEF new
<1>6. history' = [history EXCEPT ![t] = new] BY DEF new
<1>7. history'[t] = new /\ \A u \in Targets : u # t => history'[u] = history[u] BY <1>1, <1>6
<1>8. history' \in AllTables BY <1>1, <1>4, <1>6 DEF AllTables
<1>9. \A u \in Targets : DOMAIN history'[u] = DOMAIN history[u] BY <1>4, <1>7
<1>10. DatabaseTypes' BY <1>8, <1>9 DEF DatabaseTypes
<1> QED BY <1>5, <1>7, <1>9, <1>10 DEF Replaces

LEMMA RowInserted ==
  ASSUME DatabaseTypes, NEW t \in Targets, NEW e, InsertRow(t, e),
         e.command \in Commands, e.time \in Times \cup {NULL}, e.value \in [Columns -> Values],
         source' = source, files' \subseteq Targets
  PROVE  /\ DatabaseTypes' /\ nextId[t] \in DOMAIN history'[t]
         /\ history'[t][nextId[t]] = [command |-> e.command, time |-> e.time, value |-> e.value]
         /\ \A u \in Targets : \A i \in DOMAIN history[u] :
              i \in DOMAIN history'[u] /\ history'[u][i] = history[u][i]
<1> DEFINE row == [command |-> e.command, time |-> e.time, value |-> e.value]
           n   == nextId[t]
           new == Inserted(history[t], n, row)
<1>1. history \in [Targets -> Tables] /\ nextId \in [Targets -> Nat \ {0}] /\ n \in Nat \ {0}
      /\ history[t] \in Tables
  BY DEF DatabaseTypes, AllTables
<1>2. row \in SavedRow BY DEF SavedRow
<1> HIDE DEF row, n
<1>3. /\ new \in Tables /\ DOMAIN new = DOMAIN history[t] \cup {n} /\ new[n] = row
      /\ \A i \in DOMAIN history[t] : i # n => new[i] = history[t][i]
  <2>1. n \in Nat /\ history[t] \in Tables BY <1>1
  <2> QED BY <1>2, <2>1, InsertedTable
<1> HIDE DEF new
<1>4. history' = [history EXCEPT ![t] = new] /\ nextId' = [nextId EXCEPT ![t] = n + 1]
  BY DEF InsertRow, new, row, n
<1>5. /\ history'[t] = new /\ \A u \in Targets : u # t => history'[u] = history[u]
      /\ nextId'[t] = n + 1 /\ \A u \in Targets : u # t => nextId'[u] = nextId[u]
  BY <1>1, <1>4
<1>6. history' \in AllTables /\ nextId' \in [Targets -> Nat \ {0}] BY <1>1, <1>3, <1>4 DEF AllTables
<1>7. \A u \in Targets : \A i \in DOMAIN history[u] : i \in 1..(nextId[u] - 1)
  BY DEF DatabaseTypes
<1>8. \A u \in Targets : \A i \in DOMAIN history'[u] : i \in 1..(nextId'[u] - 1)
  <2> SUFFICES ASSUME NEW u \in Targets, NEW i \in DOMAIN history'[u]
               PROVE  i \in 1..(nextId'[u] - 1)
    OBVIOUS
  <2>1. CASE u # t BY <1>5, <1>7, <2>1
  <2>2. CASE u = t
    <3>1. i = n \/ i \in 1..(n - 1) BY <1>3, <1>5, <1>7, <2>2 DEF n
    <3> QED BY <1>1, <1>5, <2>2, <3>1
  <2> QED BY <2>1, <2>2
<1>9. \A u \in Targets : \A i \in DOMAIN history[u] :
        i \in DOMAIN history'[u] /\ history'[u][i] = history[u][i]
  <2> SUFFICES ASSUME NEW u \in Targets, NEW i \in DOMAIN history[u]
               PROVE  i \in DOMAIN history'[u] /\ history'[u][i] = history[u][i]
    OBVIOUS
  <2>1. CASE u # t BY <1>5, <2>1
  <2>2. CASE u = t
    <3>1. i # n BY <1>1, <1>7, <2>2 DEF n
    <3> QED BY <1>3, <1>5, <2>2, <3>1
  <2> QED BY <2>1, <2>2
<1>10. DatabaseTypes' BY <1>6, <1>8 DEF DatabaseTypes
<1>11. n \in DOMAIN history'[t] /\ history'[t][n] = row BY <1>3, <1>5
<1> QED BY <1>9, <1>10, <1>11 DEF n, row

-----------------------------------------------------------------------------
(* The steps of an import that write.                                      *)

LEMMA EntryAtHand ==
  ASSUME JobTypes, NEW j \in Jobs, NEW what, AtEntry(j, what)
  PROVE  /\ Entry1(j) \in Entry /\ TargetOf(Entry1(j)) \in Targets
         /\ job[j] \in JobType /\ job[j].phase = "importing" /\ PlanOf(j).do = what
         /\ job[j].todo \in Seq(Entry) /\ job[j].todo # <<>>
         /\ Tail(job[j].todo) \in Seq(Entry) /\ job[j].known \in AllTables
<1>1. job[j] \in JobType BY DEF JobTypes
<1>2. job[j].todo \in Seq(Entry) /\ job[j].todo # <<>> /\ job[j].known \in AllTables
  BY <1>1 DEF JobType, AtEntry
<1>3. Head(job[j].todo) \in Entry /\ Tail(job[j].todo) \in Seq(Entry) BY <1>2
<1> QED BY <1>1, <1>2, <1>3, Targeted DEF AtEntry, Entry1

LEMMA InsertDoes ==
  ASSUME DatabaseTypes, JobTypes, NEW j \in Jobs, Insert(j)
  PROVE  LET e == Entry1(j)
         IN /\ DatabaseTypes' /\ Told(history'[TargetOf(e)], e)
            /\ Importable(e)
            /\ job[j].dedup => RowsMatching(job[j].known[TargetOf(e)], e) = {}
            /\ \A u \in Targets : \A i \in DOMAIN history[u] :
                 i \in DOMAIN history'[u] /\ history'[u][i] = history[u][i]
<1> DEFINE e == Entry1(j)
           t == TargetOf(e)
           n == nextId[t]
<1>1. AtEntry(j, "insert") BY DEF Insert
<1>2. e \in Entry /\ t \in Targets /\ PlanOf(j).do = "insert" BY <1>1, EntryAtHand
<1>3. Importable(e) /\ (job[j].dedup => RowsMatching(job[j].known[t], e) = {})
  <2>1. Plan(job[j].known, job[j].dedup, e).do = "insert" BY <1>2 DEF PlanOf
  <2> QED BY <2>1, PlanIs
<1>4. /\ e.command \in Commands /\ e.time \in Times \cup {NULL} /\ e.value \in [Columns -> Values]
  BY <1>2, <1>3 DEF Entry, Importable, Values
<1>5. InsertRow(t, e) /\ source' = source /\ files' \subseteq Targets
  BY DEF Insert, DatabaseTypes
<1> HIDE DEF e, t
<1>6. /\ DatabaseTypes' /\ n \in DOMAIN history'[t]
      /\ history'[t][n] = [command |-> e.command, time |-> e.time, value |-> e.value]
      /\ \A u \in Targets : \A i \in DOMAIN history[u] :
           i \in DOMAIN history'[u] /\ history'[u][i] = history[u][i]
  BY <1>2, <1>4, <1>5, RowInserted
<1>7. n \in RowsMatching(history'[t], e) /\ ~NeedsRepair(history'[t][n], e)
  BY <1>6 DEF RowsMatching, NeedsRepair, Has
<1>8. Told(history'[t], e) BY <1>7 DEF Told
<1> QED BY <1>3, <1>6, <1>8 DEF e, t

\* The row is filled, or it has got its values, or gone, since it was read.
LEMMA RepairDoes ==
  ASSUME DatabaseTypes, JobTypes, NEW j \in Jobs, Repair(j)
  PROVE  LET e  == Entry1(j)
             t  == TargetOf(e)
             id == PlanOf(j).id
         IN /\ DatabaseTypes'
            /\ id \in RowsMatching(job[j].known[t], e)
            /\ \/ /\ id \in RowsMatching(history[t], e)
                  /\ Replaces(t, id, Filled(history[t][id], e))
                  /\ job' = [job EXCEPT ![j] = [Counted(j, "repaired") EXCEPT
                                                  !.known = MarkRepaired(@, id, e)]]
               \/ /\ ~Repairable(history[t], id, e) /\ UNCHANGED history
                  /\ job' = [job EXCEPT ![j] = Counted(j, "duplicates")]
<1> DEFINE e  == Entry1(j)
           t  == TargetOf(e)
           id == PlanOf(j).id
<1>1. AtEntry(j, "repair") BY DEF Repair
<1>2. e \in Entry /\ t \in Targets /\ PlanOf(j).do = "repair" BY <1>1, EntryAtHand
<1>3. id \in RowsMatching(job[j].known[t], e)
  <2>1. Plan(job[j].known, job[j].dedup, e).do = "repair" BY <1>2 DEF PlanOf
  <2> QED BY <2>1, PlanIs DEF PlanOf
<1>4. CASE Repairable(history[t], id, e)
  <2>1. id \in DOMAIN history[t] /\ id \in RowsMatching(history[t], e)
    BY <1>4 DEF Repairable, RowsMatching
  <2>2. /\ history' = [history EXCEPT ![t] = [history[t] EXCEPT ![id] =
                                                Filled(history[t][id], e)]]
        /\ UNCHANGED <<source, files, nextId>>
        /\ job' = [job EXCEPT ![j] = [Counted(j, "repaired") EXCEPT
                                        !.known = MarkRepaired(@, id, e)]]
    BY <1>4 DEF Repair, Set
  <2>3. history[t][id] \in SavedRow
    BY <1>2, <2>1, TableIs DEF DatabaseTypes, AllTables
  <2>4. Filled(history[t][id], e) \in SavedRow BY <1>2, <2>3, FilledIs
  <2> DEFINE row == Filled(history[t][id], e)
  <2> HIDE DEF e, t, id, row
  <2>5. DatabaseTypes' /\ Replaces(t, id, row)
    <3>1. t \in Targets /\ id \in DOMAIN history[t] BY <1>2, <2>1
    <3>2. row \in SavedRow BY <2>4 DEF row
    <3>3. history' = [history EXCEPT ![t] = [history[t] EXCEPT ![id] = row]]
          /\ UNCHANGED <<source, files, nextId>>
      BY <2>2 DEF row
    <3> QED BY <3>1, <3>2, <3>3, RowReplaced
  <2> QED BY <1>3, <2>1, <2>2, <2>5 DEF e, t, id, row
<1>5. CASE ~Repairable(history[t], id, e)
  <2>1. /\ UNCHANGED <<source, files, nextId, history>>
        /\ job' = [job EXCEPT ![j] = Counted(j, "duplicates")]
    BY <1>5 DEF Repair, Set
  <2>2. DatabaseTypes' BY <2>1 DEF DatabaseTypes
  <2> QED BY <1>3, <1>5, <2>1, <2>2
<1> QED BY <1>4, <1>5

LEMMA GapsOnly ==
  ASSUME DatabaseTypes, JobTypes, NEW j \in Jobs, ImportStep(j),
         NEW u \in Targets, NEW i \in DOMAIN history[u]
  PROVE  /\ i \in DOMAIN history'[u]
         /\ \A c \in Columns : Has(history[u][i], c) =>
                                 history'[u][i].value[c] = history[u][i].value[c]
         /\ history'[u][i] # history[u][i] =>
              u = TargetOf(Entry1(j)) /\ i \in RowsMatching(history[u], Entry1(j))
<1>1. CASE UNCHANGED history BY <1>1
<1>2. CASE Insert(j) BY <1>2, InsertDoes
<1>3. CASE Repair(j)
  <2> DEFINE e  == Entry1(j)
             t  == TargetOf(e)
             id == PlanOf(j).id
  <2>1. CASE UNCHANGED history BY <2>1
  <2>2. CASE history' # history
    <3>1. e \in Entry /\ t \in Targets BY <1>3, EntryAtHand DEF Repair
    <3>2. /\ id \in RowsMatching(history[t], e) /\ Replaces(t, id, Filled(history[t][id], e))
      BY <1>3, <2>2, RepairDoes
    <3> HIDE DEF e, t, id
    <3>3. /\ history'[t][id] = Filled(history[t][id], e)
          /\ DOMAIN history'[u] = DOMAIN history[u]
          /\ u # t \/ i # id => history'[u][i] = history[u][i]
      BY <3>2 DEF Replaces
    <3>4. history[u][i] \in SavedRow BY TableIs DEF DatabaseTypes, AllTables
    <3>5. CASE u # t \/ i # id BY <3>3, <3>5
    <3>6. CASE u = t /\ i = id
      <4>1. \A c \in Columns : Has(history[u][i], c) =>
              Filled(history[u][i], e).value[c] = history[u][i].value[c]
        BY <3>1, <3>4, FilledIs
      <4> QED BY <3>2, <3>3, <3>6, <4>1 DEF e, t
    <3> QED BY <3>5, <3>6
  <2> QED BY <2>1, <2>2
<1> QED
  BY <1>1, <1>2, <1>3
  DEF ImportStep, BeginImport, ReadRows, ReadShellRows, StoreFails, PassOver, Finish, databaseVars

-----------------------------------------------------------------------------
(* A process's own state.                                                  *)

LEMMA JobSet ==
  ASSUME JobTypes, NEW j \in Jobs, NEW new \in JobType, Set(j, new)
  PROVE  /\ job' \in [Jobs -> JobType] /\ job'[j] = new
         /\ \A k \in Jobs : k # j => job'[k] = job[k]
BY DEF JobTypes, Set

LEMMA CountedType ==
  ASSUME JobTypes, NEW j \in Jobs, NEW a, AtEntry(j, a),
         NEW what \in {"imported", "repaired", "duplicates", "skipped"}
  PROVE  /\ Counted(j, what) \in JobType
         /\ Counted(j, what).phase = "importing" /\ Counted(j, what).todo = Tail(job[j].todo)
         /\ Counted(j, what).dedup = job[j].dedup /\ Counted(j, what).override = job[j].override
         /\ Counted(j, what).known = job[j].known /\ Counted(j, what).failed = job[j].failed
         /\ Counted(j, what).counts = Add(job[j].counts, what)
<1>1. job[j] \in JobType /\ job[j].phase = "importing" /\ Tail(job[j].todo) \in Seq(Entry)
  BY EntryAtHand
<1>2. Add(job[j].counts, what) \in Counts BY <1>1, CountType DEF JobType
<1>3. Counted(j, what)
        = [job[j] EXCEPT !.todo = Tail(job[j].todo), !.counts = Add(job[j].counts, what)]
  BY DEF Counted
<1> QED BY <1>1, <1>2, <1>3 DEF JobType

LEMMA EndedType ==
  ASSUME JobTypes, NEW j \in Jobs, NEW phase \in {"imported", "killed"}
  PROVE  LET new == [Ended(j) EXCEPT !.phase = phase]
         IN /\ new \in JobType /\ new.phase = phase /\ new.dedup = job[j].dedup
            /\ new.override = job[j].override /\ new.counts = job[j].counts
            /\ new.failed = job[j].failed
<1>1. job[j] \in JobType BY DEF JobTypes
<1>2. Idle \in JobType BY IdleType
<1> HIDE DEF Idle
<1>3. [Ended(j) EXCEPT !.phase = phase]
        = [Idle EXCEPT !.dedup = job[j].dedup, !.override = job[j].override,
                       !.counts = job[j].counts, !.failed = job[j].failed, !.phase = phase]
  BY <1>2 DEF Ended, JobType
<1> QED BY <1>1, <1>2, <1>3 DEF JobType, ImportPhases

\* What a session's update makes of a row.
Updated(r, c) == [r EXCEPT !.value = [r.value EXCEPT ![c] = "session"]]

LEMMA UpdatedIs ==
  ASSUME NEW r \in SavedRow, NEW c \in Columns
  PROVE  Updated(r, c) \in SavedRow /\ Fuller(r, Updated(r, c))
<1>1. r.value \in [Columns -> Values] BY DEF SavedRow
<1>2. [r.value EXCEPT ![c] = "session"] \in [Columns -> Values] BY <1>1 DEF Values
<1>3. /\ Updated(r, c) \in SavedRow /\ Updated(r, c).value = [r.value EXCEPT ![c] = "session"]
      /\ Updated(r, c).command = r.command /\ Updated(r, c).time = r.time
  BY <1>2, RowWithValues DEF Updated
<1>4. NULL # "session" BY ImportAssumption
<1> QED BY <1>1, <1>3, <1>4 DEF Fuller, Has

LEMMA UpdateDoes ==
  ASSUME DatabaseTypes, NEW t \in Targets, SessionUpdates(t)
  PROVE  DatabaseTypes' /\ \A u \in Targets : Within(history[u], history'[u])
<1>1. PICK id \in DOMAIN history[t], c \in {"more_info", "exit_status"} :
        history' = [history EXCEPT ![t][id].value[c] = "session"]
  BY DEF SessionUpdates
<1>2. UNCHANGED <<source, files, nextId>> BY DEF SessionUpdates
<1>3. history[t][id] \in SavedRow BY TableIs DEF DatabaseTypes, AllTables
<1>4. c \in Columns BY DEF Columns
<1>5. /\ Updated(history[t][id], c) \in SavedRow
      /\ Fuller(history[t][id], Updated(history[t][id], c))
  BY <1>3, <1>4, UpdatedIs
<1>6. history' = [history EXCEPT ![t] = [history[t] EXCEPT ![id] = Updated(history[t][id], c)]]
  BY <1>1 DEF Updated
<1>7. DatabaseTypes' /\ Replaces(t, id, Updated(history[t][id], c))
  BY <1>2, <1>5, <1>6, RowReplaced
<1>8. \A u \in Targets : Within(history[u], history'[u])
  <2> SUFFICES ASSUME NEW u \in Targets, NEW i \in DOMAIN history[u]
               PROVE  i \in DOMAIN history'[u] /\ Fuller(history[u][i], history'[u][i])
    BY DEF Within
  <2>1. CASE u = t /\ i = id BY <1>5, <1>7, <2>1 DEF Replaces
  <2>2. CASE ~(u = t /\ i = id) BY <1>7, <2>2 DEF Replaces, Fuller
  <2> QED BY <2>1, <2>2
<1> QED BY <1>7, <1>8

LEMMA SaveDoes ==
  ASSUME DatabaseTypes, NEW t \in Targets, SessionSaves(t)
  PROVE  DatabaseTypes' /\ \A u \in Targets : Within(history[u], history'[u])
<1>1. PICK c \in Commands, when \in Times :
        InsertRow(t, [command |-> c, time |-> when,
                      value |-> [Unset EXCEPT !["hostname"] = "session"]])
  BY DEF SessionSaves
<1>2. [Unset EXCEPT !["hostname"] = "session"] \in [Columns -> Values] BY DEF Unset, Values
<1>3. source' = source /\ files' \subseteq Targets BY DEF SessionSaves, DatabaseTypes
<1> DEFINE e == [command |-> c, time |-> when,
                 value |-> [Unset EXCEPT !["hostname"] = "session"]]
<1>4. e.command \in Commands /\ e.time \in Times \cup {NULL} /\ e.value \in [Columns -> Values]
      /\ InsertRow(t, e)
  BY <1>1, <1>2
<1> HIDE DEF e
<1>5. DatabaseTypes' /\ \A u \in Targets : \A i \in DOMAIN history[u] :
                          i \in DOMAIN history'[u] /\ history'[u][i] = history[u][i]
  BY <1>3, <1>4, RowInserted
<1> QED BY <1>5 DEF Within, Fuller

LEMMA DeleteDoes ==
  ASSUME DatabaseTypes, NEW t \in Targets, SessionDeletes(t)
  PROVE  DatabaseTypes'
<1>1. PICK id \in DOMAIN history[t] :
        history' = [history EXCEPT ![t] = Restrict(history[t], DOMAIN history[t] \ {id})]
  BY DEF SessionDeletes
<1> DEFINE new == Restrict(history[t], DOMAIN history[t] \ {id})
<1>2. history \in [Targets -> Tables] /\ history[t] \in Tables BY DEF DatabaseTypes, AllTables
<1>3. DOMAIN history[t] \subseteq Nat /\ \A i \in DOMAIN history[t] : history[t][i] \in SavedRow
  BY <1>2, TableIs
<1>4. new \in [DOMAIN history[t] \ {id} -> SavedRow] BY <1>3 DEF Restrict
<1>5. new \in Tables /\ DOMAIN new \subseteq DOMAIN history[t] BY <1>3, <1>4, IsTable
<1> HIDE DEF new
<1>6. history' = [history EXCEPT ![t] = new] BY <1>1 DEF new
<1>7. history' \in AllTables BY <1>2, <1>5, <1>6 DEF AllTables
<1>8. \A u \in Targets : DOMAIN history'[u] \subseteq DOMAIN history[u] BY <1>2, <1>5, <1>6
<1>9. UNCHANGED <<source, files, nextId>> BY DEF SessionDeletes
<1> QED BY <1>7, <1>8, <1>9 DEF DatabaseTypes

LEMMA RepairKeeps ==
  ASSUME DatabaseTypes, JobTypes, NEW j \in Jobs, Repair(j)
  PROVE  \A u \in Targets : Within(history[u], history'[u])
<1> DEFINE e  == Entry1(j)
           t  == TargetOf(e)
           id == PlanOf(j).id
<1>1. CASE UNCHANGED history BY <1>1, WithinSelf
<1>2. CASE history' # history
  <2>1. e \in Entry /\ t \in Targets BY EntryAtHand DEF Repair
  <2>2. /\ id \in RowsMatching(history[t], e) /\ Replaces(t, id, Filled(history[t][id], e))
    BY <1>2, RepairDoes
  <2>3. id \in DOMAIN history[t] BY <2>2 DEF RowsMatching
  <2>4. history[t][id] \in SavedRow BY <2>1, <2>3, TableIs DEF DatabaseTypes, AllTables
  <2>5. Fuller(history[t][id], Filled(history[t][id], e)) BY <2>1, <2>4, FilledIs DEF Fuller
  <2> HIDE DEF e, t, id
  <2> SUFFICES ASSUME NEW u \in Targets, NEW i \in DOMAIN history[u]
               PROVE  i \in DOMAIN history'[u] /\ Fuller(history[u][i], history'[u][i])
    BY DEF Within
  <2>6. CASE u = t /\ i = id BY <2>2, <2>5, <2>6 DEF Replaces
  <2>7. CASE ~(u = t /\ i = id) BY <2>2, <2>7 DEF Replaces, Fuller
  <2> QED BY <2>6, <2>7
<1> QED BY <1>1, <1>2

\* Unless a session deletes a row, rows only come and are only filled, by whatever step.
LEMMA DatabaseStep ==
  ASSUME DatabaseTypes, JobTypes, ImportNext
  PROVE  /\ DatabaseTypes'
         /\ ~deleted' => \A u \in Targets : Within(history[u], history'[u])
<1>1. ASSUME UNCHANGED <<source, history, nextId>>, files' \subseteq Targets
      PROVE  DatabaseTypes' /\ \A u \in Targets : Within(history[u], history'[u])
  BY <1>1, WithinSelf DEF DatabaseTypes
<1>2. ASSUME NEW j \in Jobs, Insert(j)
      PROVE  DatabaseTypes' /\ \A u \in Targets : Within(history[u], history'[u])
  <2>1. DatabaseTypes' /\ \A u \in Targets : \A i \in DOMAIN history[u] :
                            i \in DOMAIN history'[u] /\ history'[u][i] = history[u][i]
    BY <1>2, InsertDoes
  <2> QED BY <2>1 DEF Within, Fuller
<1>3. ASSUME NEW j \in Jobs, Repair(j)
      PROVE  DatabaseTypes' /\ \A u \in Targets : Within(history[u], history'[u])
  BY <1>3, RepairDoes, RepairKeeps
<1>4. ASSUME NEW t \in Targets, SessionSaves(t) \/ SessionUpdates(t) \/ SessionDeletes(t)
      PROVE  /\ DatabaseTypes'
             /\ ~deleted' => \A u \in Targets : Within(history[u], history'[u])
  <2>1. SessionDeletes(t) => deleted' = TRUE BY DEF SessionDeletes
  <2> QED BY <1>4, <2>1, SaveDoes, UpdateDoes, DeleteDoes
<1>5. ASSUME NEW j \in Jobs, ImportStep(j) \/ ExportStep(j) \/ Kill(j), ~Insert(j), ~Repair(j)
      PROVE  UNCHANGED <<source, history, nextId>> /\ files' \subseteq Targets
  <2>1. files \subseteq Targets BY DEF DatabaseTypes
  <2>2. CASE BeginImport(j) BY <2>2 DEF BeginImport
  <2>3. CASE ~BeginImport(j)
    BY <1>5, <2>1, <2>3 DEF ImportStep, ExportStep, ReadRows, ReadShellRows, StoreFails, PassOver,
       Finish, BeginExport, CopyTable, Publish, ExportFails, Kill, databaseVars
  <2> QED BY <2>2, <2>3
<1> QED BY <1>1, <1>2, <1>3, <1>4, <1>5 DEF ImportNext

\* What a step makes of the state of the process whose step it is.
LEMMA JobStep ==
  ASSUME DatabaseTypes, JobTypes, ImportNext
  PROVE  JobTypes'
<1>1. ASSUME NEW j \in Jobs, NEW new \in JobType, Set(j, new), preceded' \subseteq Jobs,
             deleted' \in BOOLEAN
      PROVE  JobTypes'
  BY <1>1, JobSet DEF JobTypes
<1>2. ASSUME UNCHANGED <<job, preceded>>, deleted' \in BOOLEAN PROVE JobTypes'
  BY <1>2 DEF JobTypes
<1>3. preceded \subseteq Jobs /\ deleted \in BOOLEAN BY DEF JobTypes
<1>4. ASSUME NEW t \in Targets, SessionSaves(t) \/ SessionUpdates(t) \/ SessionDeletes(t)
      PROVE  JobTypes'
  BY <1>2, <1>3, <1>4 DEF SessionSaves, SessionUpdates, SessionDeletes
<1>5. ASSUME NEW j \in Jobs, ImportStep(j) \/ ExportStep(j) \/ Kill(j)
      PROVE  JobTypes'
  <2>1. job[j] \in JobType BY DEF JobTypes
  <2>2. Idle \in JobType BY IdleType
  <2> HIDE DEF Idle
  <2>3. CASE BeginImport(j)
    <3>1. PICK o \in Options :
            Set(j, [Idle EXCEPT !.phase = "opened", !.dedup = o.dedup, !.override = o.override])
      BY <2>3 DEF BeginImport
    <3>2. o.dedup \in BOOLEAN /\ o.override \in BOOLEAN BY ImportAssumption
    <3>3. [Idle EXCEPT !.phase = "opened", !.dedup = o.dedup, !.override = o.override] \in JobType
      BY <2>2, <3>2 DEF JobType, ImportPhases, Running
    <3>4. preceded' \subseteq Jobs /\ deleted' = deleted BY <1>3, <2>3 DEF BeginImport
    <3> QED BY <1>1, <1>3, <3>1, <3>3, <3>4
  <2>4. CASE ReadRows(j)
    <3>1. history["r"] \in Tables BY DEF DatabaseTypes, AllTables, Targets
    <3>2. [job[j].known EXCEPT !["r"] = history["r"]] \in AllTables
      BY <2>1, <3>1 DEF JobType, AllTables
    <3>3. [job[j] EXCEPT !.phase = "read", !.known["r"] = history["r"]] \in JobType
      BY <2>1, <3>2 DEF JobType, ImportPhases, Running
    <3>4. Set(j, [job[j] EXCEPT !.phase = "read", !.known["r"] = history["r"]])
          /\ UNCHANGED <<preceded, deleted>>
      BY <2>4 DEF ReadRows
    <3> QED BY <1>1, <1>3, <3>3, <3>4
  <2>5. CASE ReadShellRows(j)
    <3> DEFINE given == [i \in DOMAIN source |-> WithHostname(source[i], job[j].override)]
               known   == [job[j].known EXCEPT !["shell"] = history["shell"]]
    <3>1. given \in Seq(Entry)
      <4>1. source \in [1..Len(source) -> Entry] /\ Len(source) \in Nat BY DEF DatabaseTypes
      <4>2. \A i \in 1..Len(source) : WithHostname(source[i], job[j].override) \in Entry
        BY <4>1, HostnameOnly
      <4>3. given \in [1..Len(source) -> Entry] BY <4>1, <4>2
      <4> QED BY <4>1, <4>3
    <3>2. known \in AllTables
      <4>1. history["shell"] \in Tables BY DEF DatabaseTypes, AllTables, Targets
      <4> QED BY <2>1, <4>1 DEF JobType, AllTables
    <3> HIDE DEF given, known
    <3>3. [job[j] EXCEPT !.phase = "importing", !.known = known, !.todo = given] \in JobType
      BY <2>1, <3>1, <3>2 DEF JobType, ImportPhases, Running
    <3>4. Set(j, [job[j] EXCEPT !.phase = "importing", !.known = known, !.todo = given])
          /\ UNCHANGED <<preceded, deleted>>
      BY <2>5 DEF ReadShellRows, given, known
    <3> QED BY <1>1, <1>3, <3>3, <3>4
  <2>6. CASE Insert(j)
    <3>1. Counted(j, "imported") \in JobType BY <2>6, CountedType DEF Insert
    <3> QED BY <1>1, <1>3, <2>6, <3>1 DEF Insert
  <2>7. CASE Repair(j)
    <3> DEFINE e  == Entry1(j)
               id == PlanOf(j).id
    <3>1. /\ Counted(j, "repaired") \in JobType /\ Counted(j, "duplicates") \in JobType
          /\ Counted(j, "repaired").known = job[j].known /\ e \in Entry
          /\ job[j].known \in AllTables
      BY <2>7, CountedType, EntryAtHand DEF Repair
    <3>2. id \in DOMAIN job[j].known[TargetOf(e)] BY <2>7, RepairDoes DEF RowsMatching
    <3> HIDE DEF e, id
    <3>3. MarkRepaired(job[j].known, id, e) \in AllTables BY <3>1, <3>2, MarkedIs
    <3>4. [Counted(j, "repaired") EXCEPT !.known = MarkRepaired(@, id, e)] \in JobType
      BY <3>1, <3>3 DEF JobType
    <3>5. \/ Set(j, [Counted(j, "repaired") EXCEPT !.known = MarkRepaired(@, id, e)])
          \/ Set(j, Counted(j, "duplicates"))
      BY <2>7 DEF Repair, e, id
    <3>6. UNCHANGED <<preceded, deleted>> BY <2>7 DEF Repair
    <3> QED BY <1>1, <1>3, <3>1, <3>4, <3>5, <3>6
  <2>8. CASE StoreFails(j)
    <3>1. PICK what \in {"skipped", "duplicates"} :
            /\ Set(j, [Counted(j, what) EXCEPT !.failed = TRUE])
            /\ \E a \in {"insert", "repair"} : AtEntry(j, a)
      BY <2>8 DEF StoreFails
    <3>2. Counted(j, what) \in JobType BY <3>1, CountedType
    <3>3. [Counted(j, what) EXCEPT !.failed = TRUE] \in JobType BY <3>2 DEF JobType
    <3>4. UNCHANGED <<preceded, deleted>> BY <2>8 DEF StoreFails
    <3> QED BY <1>1, <1>3, <3>1, <3>3, <3>4
  <2>9. CASE PassOver(j)
    <3>1. PICK what \in {"skipped", "duplicates"} :
            Set(j, Counted(j, what)) /\ \E a \in {"duplicate", "skip"} : AtEntry(j, a)
      BY <2>9 DEF PassOver
    <3>2. Counted(j, what) \in JobType BY <3>1, CountedType
    <3>3. UNCHANGED <<preceded, deleted>> BY <2>9 DEF PassOver
    <3> QED BY <1>1, <1>3, <3>1, <3>2, <3>3
  <2>10. CASE Finish(j) \/ Kill(j)
    <3>1. PICK phase \in {"imported", "killed"} : Set(j, [Ended(j) EXCEPT !.phase = phase])
      BY <2>10 DEF Finish, Kill
    <3>2. [Ended(j) EXCEPT !.phase = phase] \in JobType BY EndedType
    <3>3. UNCHANGED <<preceded, deleted>> BY <2>10 DEF Finish, Kill
    <3> QED BY <1>1, <1>3, <3>1, <3>2, <3>3
  <2>11. CASE BeginExport(j)
    <3>1. [Idle EXCEPT !.phase = "exporting"] \in JobType BY <2>2 DEF JobType, ExportPhases
    <3> QED BY <1>1, <1>3, <2>11, <3>1 DEF BeginExport
  <2>12. CASE CopyTable(j) BY <1>2, <1>3, <2>12 DEF CopyTable
  <2>13. CASE Publish(j) \/ ExportFails(j)
    <3>1. PICK phase \in {"exported", "failed"} : Set(j, [job[j] EXCEPT !.phase = phase])
      BY <2>13 DEF Publish, ExportFails
    <3>2. [job[j] EXCEPT !.phase = phase] \in JobType BY <2>1 DEF JobType, ExportPhases
    <3>3. UNCHANGED <<preceded, deleted>> BY <2>13 DEF Publish, ExportFails
    <3> QED BY <1>1, <1>3, <3>1, <3>2, <3>3
  <2> QED
    BY <1>5, <2>3, <2>4, <2>5, <2>6, <2>7, <2>8, <2>9, <2>10, <2>11, <2>12, <2>13
    DEF ImportStep, ExportStep
<1> QED BY <1>4, <1>5 DEF ImportNext

-----------------------------------------------------------------------------
(* Exports.                                                                *)

Written == [Targets -> {"absent", "created", "copied", "none"}]

\* A database that is there when an export begins stays there, and is copied.
ExportInv ==
  /\ \A j \in Jobs : job[j].phase = "exporting" =>
       temp[j] \in Written /\ \E t \in files : temp[j][t] # "none"
  /\ OutputWhole

LEMMA FilesGrow ==
  ASSUME DatabaseTypes, ImportNext
  PROVE  files \subseteq files'
<1>1. ASSUME NEW j \in Jobs, BeginImport(j) PROVE files \subseteq files'
  BY <1>1 DEF BeginImport, DatabaseTypes
<1> QED
  BY <1>1 DEF ImportNext, ImportStep, ExportStep, ReadRows, ReadShellRows, Insert, Repair,
     StoreFails, PassOver, Finish, BeginExport, CopyTable, Publish, ExportFails, Kill,
     SessionSaves, SessionUpdates, SessionDeletes, databaseVars

\* Only the exports themselves touch their files; no other step makes a process export.
LEMMA NotAnExport ==
  ASSUME JobTypes, ImportNext, ~(\E j \in Jobs : ExportStep(j))
  PROVE  /\ UNCHANGED <<output, temp>>
         /\ \A k \in Jobs : job'[k].phase = "exporting" => job[k].phase = "exporting"
<1>1. ASSUME NEW j \in Jobs, NEW new, Set(j, new), new.phase # "exporting"
      PROVE  \A k \in Jobs : job'[k].phase = "exporting" => job[k].phase = "exporting"
  BY <1>1 DEF Set, JobTypes
<1>2. ASSUME NEW j \in Jobs, ImportStep(j) \/ Kill(j)
      PROVE  \E new : Set(j, new) /\ new.phase # "exporting"
  <2>1. job[j] \in JobType /\ Idle \in JobType BY IdleType DEF JobTypes
  <2> HIDE DEF Idle
  <2>2. CASE BeginImport(j)
    <3>1. PICK o \in Options :
            Set(j, [Idle EXCEPT !.phase = "opened", !.dedup = o.dedup, !.override = o.override])
      BY <2>2 DEF BeginImport
    <3>2. [Idle EXCEPT !.phase = "opened", !.dedup = o.dedup, !.override = o.override].phase
            = "opened"
      BY <2>1 DEF JobType
    <3> QED BY <3>1, <3>2
  <2>3. CASE ReadRows(j)
    <3>1. Set(j, [job[j] EXCEPT !.phase = "read", !.known["r"] = history["r"]])
      BY <2>3 DEF ReadRows
    <3>2. [job[j] EXCEPT !.phase = "read", !.known["r"] = history["r"]].phase = "read"
      BY <2>1 DEF JobType
    <3> QED BY <3>1, <3>2
  <2>4. CASE ReadShellRows(j)
    <3>1. \E new : Set(j, new) /\ \E todo, known :
            new = [job[j] EXCEPT !.phase = "importing", !.known = known, !.todo = todo]
      BY <2>4 DEF ReadShellRows
    <3> QED BY <2>1, <3>1 DEF JobType
  <2>5. CASE Insert(j) BY <2>5, CountedType DEF Insert
  <2>6. CASE Repair(j)
    <3>1. /\ Counted(j, "repaired") \in JobType /\ Counted(j, "repaired").phase = "importing"
          /\ Counted(j, "duplicates").phase = "importing"
      BY <2>6, CountedType DEF Repair
    <3>2. \E new : Set(j, new) /\ \/ new = Counted(j, "duplicates")
                                  \/ \E known : new = [Counted(j, "repaired") EXCEPT !.known = known]
      BY <2>6 DEF Repair
    <3> QED BY <3>1, <3>2 DEF JobType
  <2>7. CASE StoreFails(j)
    <3>1. PICK what \in {"skipped", "duplicates"} :
            /\ Set(j, [Counted(j, what) EXCEPT !.failed = TRUE])
            /\ \E a \in {"insert", "repair"} : AtEntry(j, a)
      BY <2>7 DEF StoreFails
    <3>2. Counted(j, what) \in JobType /\ Counted(j, what).phase = "importing"
      BY <3>1, CountedType
    <3> QED BY <3>1, <3>2 DEF JobType
  <2>8. CASE PassOver(j) BY <2>8, CountedType DEF PassOver
  <2>9. CASE Finish(j) \/ Kill(j) BY <2>9, EndedType DEF Finish, Kill
  <2> QED BY <1>2, <2>2, <2>3, <2>4, <2>5, <2>6, <2>7, <2>8, <2>9 DEF ImportStep
<1>3. ASSUME NEW t \in Targets, SessionSaves(t) \/ SessionUpdates(t) \/ SessionDeletes(t)
      PROVE  UNCHANGED job
  BY <1>3 DEF SessionSaves, SessionUpdates, SessionDeletes
<1>4. UNCHANGED <<output, temp>>
  BY DEF ImportNext, ImportStep, BeginImport, ReadRows, ReadShellRows, Insert, Repair,
     StoreFails, PassOver, Finish, Kill, SessionSaves, SessionUpdates, SessionDeletes, exportVars
<1> QED BY <1>1, <1>2, <1>3, <1>4 DEF ImportNext

LEMMA ExportDoes ==
  ASSUME DatabaseTypes, JobTypes, FileTypes, ExportInv, NEW j \in Jobs, ExportStep(j)
  PROVE  FileTypes' /\ ExportInv'
<1>1. /\ job \in [Jobs -> JobType] /\ job[j] \in JobType /\ Idle \in JobType
      /\ temp \in [Jobs -> Files] /\ output \in Files /\ files \subseteq Targets
  BY IdleType DEF JobTypes, FileTypes, DatabaseTypes
<1>2. Written \subseteq Files /\ NoFile \in Files BY DEF Written, Files
<1>3. UNCHANGED files BY DEF ExportStep, BeginExport, CopyTable, Publish, ExportFails, databaseVars
<1> HIDE DEF Idle
<1>4. CASE BeginExport(j)
  <2>1. Empty \in Written /\ \A t \in files : Empty[t] # "none" BY <1>1 DEF Empty, Written
  <2>2. UNCHANGED output /\ temp' = [temp EXCEPT ![j] = Empty] /\ files # {}
        /\ job' = [job EXCEPT ![j] = [Idle EXCEPT !.phase = "exporting"]]
    BY <1>4 DEF BeginExport, Set
  <2> HIDE DEF Empty
  <2>3. FileTypes' BY <1>1, <1>2, <2>1, <2>2 DEF FileTypes
  <2>4. \A k \in Jobs : job'[k].phase = "exporting" =>
          temp'[k] \in Written /\ \E t \in files : temp'[k][t] # "none"
    BY <1>1, <2>1, <2>2 DEF ExportInv
  <2> QED BY <1>3, <2>2, <2>3, <2>4 DEF ExportInv, OutputWhole
<1>5. CASE CopyTable(j)
  <2>1. PICK t \in Targets :
          temp' = [temp EXCEPT ![j][t] = IF t \notin files THEN "none"
                                         ELSE IF @ = "absent" THEN "created" ELSE "copied"]
    BY <1>5 DEF CopyTable
  <2>2. UNCHANGED <<output, job>> /\ job[j].phase = "exporting" BY <1>5 DEF CopyTable
  <2>3. temp[j] \in Written /\ \E u \in files : temp[j][u] # "none" BY <2>2 DEF ExportInv
  <2>4. PICK v \in {"created", "copied", "none"} :
          temp' = [temp EXCEPT ![j] = [temp[j] EXCEPT ![t] = v]] /\ (t \in files => v # "none")
    BY <2>1
  <2>5. [temp[j] EXCEPT ![t] = v] \in Written
        /\ \E u \in files : [temp[j] EXCEPT ![t] = v][u] # "none"
    BY <1>1, <2>3, <2>4 DEF Written
  <2>6. FileTypes' BY <1>1, <1>2, <2>2, <2>4, <2>5 DEF FileTypes
  <2>7. \A k \in Jobs : job'[k].phase = "exporting" =>
          temp'[k] \in Written /\ \E u \in files : temp'[k][u] # "none"
    BY <1>1, <2>2, <2>4, <2>5 DEF ExportInv
  <2> QED BY <1>3, <2>2, <2>6, <2>7 DEF ExportInv, OutputWhole
<1>6. CASE Publish(j) \/ ExportFails(j)
  <2>1. /\ job[j].phase = "exporting" /\ temp' \in {temp, [temp EXCEPT ![j] = NoFile]}
        /\ \E phase \in {"exported", "failed"} : job' = [job EXCEPT ![j] = [job[j] EXCEPT !.phase = phase]]
    BY <1>6 DEF Publish, ExportFails, Set
  <2>2. job'[j].phase # "exporting" /\ \A k \in Jobs : k # j => job'[k] = job[k]
                                                       /\ temp'[k] = temp[k]
    BY <1>1, <2>1 DEF JobType
  <2>3. temp[j] \in Written /\ \E u \in files : temp[j][u] # "none" BY <2>1 DEF ExportInv
  <2>4. output' \in Files /\ OutputWhole'
    <3>1. CASE UNCHANGED output BY <1>1, <3>1 DEF ExportInv, OutputWhole
    <3>2. CASE Publish(j)
      <4>1. output' = temp[j] /\ \A t \in Targets : temp[j][t] \in {"copied", "none"}
        BY <3>2 DEF Publish, AllCopied, Copied
      <4> QED BY <1>1, <1>2, <2>3, <4>1 DEF OutputWhole
    <3> QED BY <1>6, <3>1, <3>2 DEF ExportFails
  <2>5. FileTypes' BY <1>1, <1>2, <2>1, <2>4 DEF FileTypes
  <2>6. \A k \in Jobs : job'[k].phase = "exporting" =>
          temp'[k] \in Written /\ \E u \in files : temp'[k][u] # "none"
    BY <2>2 DEF ExportInv
  <2> QED BY <1>3, <2>4, <2>5, <2>6 DEF ExportInv
<1> QED BY <1>4, <1>5, <1>6 DEF ExportStep

LEMMA FileStep ==
  ASSUME DatabaseTypes, JobTypes, FileTypes, ExportInv, ImportNext
  PROVE  FileTypes' /\ ExportInv'
<1>1. CASE \E j \in Jobs : ExportStep(j) BY <1>1, ExportDoes
<1>2. CASE ~(\E j \in Jobs : ExportStep(j))
  <2>1. /\ UNCHANGED <<output, temp>>
        /\ \A k \in Jobs : job'[k].phase = "exporting" => job[k].phase = "exporting"
    BY <1>2, NotAnExport
  <2>2. files \subseteq files' BY FilesGrow
  <2> QED BY <2>1, <2>2 DEF FileTypes, ExportInv, OutputWhole
<1> QED BY <1>1, <1>2

-----------------------------------------------------------------------------
(* What has been imported.                                                 *)

\* The i-th entry of the file as the import of j has it, and how many it has dealt with.
SourceEntry(j, i) == WithHostname(source[i], job[j].override)
Dealt(j) == Len(source) - Len(job[j].todo)

\* What is still to do is the rest of the file.
TodoBy(j) ==
  job[j].phase = "importing" =>
    /\ Len(job[j].todo) <= Len(source)
    /\ \A m \in 1..Len(job[j].todo) : job[j].todo[m] = SourceEntry(j, Dealt(j) + m)

\* What is known of the databases has been in them, and so still is.
KnownBy(j) ==
  /\ job[j].phase \in {"read", "importing"} => Within(job[j].known["r"], history["r"])
  /\ job[j].phase = "importing" => Within(job[j].known["shell"], history["shell"])

\* What has been dealt with is in the databases.
DoneBy(j) ==
  /\ job[j].phase = "importing" /\ ~job[j].failed =>
       \A i \in 1..Dealt(j) :
         Told(history[TargetOf(SourceEntry(j, i))], SourceEntry(j, i))
  /\ job[j].phase = "imported" /\ ~job[j].failed =>
       \A i \in DOMAIN source : Told(history[TargetOf(SourceEntry(j, i))], SourceEntry(j, i))

\* After an import that ended well, another one finds all entries, and knows that it does.
AllPresent == \A i \in DOMAIN source : Present(history[TargetOf(source[i])], source[i])
SeenBy(j) ==
  job[j].dedup =>
    /\ job[j].counts.imported = 0
    /\ \A i \in DOMAIN source :
         \/ job[j].phase = "importing"
         \/ job[j].phase = "read" /\ TargetOf(source[i]) = "r"
         => Present(job[j].known[TargetOf(source[i])], source[i])

SourceInv ==
  /\ \A j \in Jobs : TodoBy(j)
  /\ ~deleted =>
       /\ \A j \in Jobs : KnownBy(j) /\ DoneBy(j)
       /\ preceded # {} => AllPresent
       /\ \A j \in preceded : SeenBy(j)

LEMMA SourceIs ==
  ASSUME DatabaseTypes, NEW j, NEW i \in DOMAIN source
  PROVE  /\ source[i] \in Entry /\ SourceEntry(j, i) \in Entry
         /\ TargetOf(SourceEntry(j, i)) = TargetOf(source[i]) /\ TargetOf(source[i]) \in Targets
<1>1. source[i] \in Entry BY DEF DatabaseTypes
<1> QED BY <1>1, HostnameOnly, Targeted DEF SourceEntry, TargetOf

LEMMA SourceStays == ASSUME ImportNext PROVE source' = source
BY DEF ImportNext, ImportStep, ExportStep, BeginImport, ReadRows, ReadShellRows, Insert, Repair,
   StoreFails, PassOver, Finish, BeginExport, CopyTable, Publish, ExportFails, Kill,
   SessionSaves, SessionUpdates, SessionDeletes

\* What is told stays told.
LEMMA ToldLater ==
  ASSUME DatabaseTypes', NEW e, \A u \in Targets : Within(history[u], history'[u]),
         Told(history[TargetOf(e)], e)
  PROVE  Told(history'[TargetOf(e)], e)
<1> DEFINE t == TargetOf(e)
<1>1. t \in Targets BY Targeted
<1> HIDE DEF t
<1>2. DOMAIN history'[t] \subseteq 1..(nextId'[t] - 1) /\ nextId'[t] \in Nat
  BY <1>1 DEF DatabaseTypes
<1>3. IsFiniteSet(1..(nextId'[t] - 1))
  <2> DEFINE n == nextId'[t]
  <2>1. n \in Nat BY <1>2
  <2> HIDE DEF n
  <2>2. 1 \in Int /\ n - 1 \in Int BY <2>1
  <2>3. IsFiniteSet(1..(n - 1)) BY <2>2, FS_Interval
  <2> QED BY <2>3 DEF n
<1>4. IsFiniteSet(DOMAIN history'[t]) BY <1>2, <1>3, FS_Subset
<1>5. Within(history[t], history'[t]) /\ Told(history[t], e) BY <1>1 DEF t
<1>6. Told(history'[t], e) BY <1>4, <1>5, ToldStays
<1> QED BY <1>6 DEF t

\* A process is not disturbed by what happens to the databases.
LEMMA Undisturbed ==
  ASSUME DatabaseTypes, DatabaseTypes', JobTypes, source' = source, NEW j \in Jobs,
         job'[j] = job[j],
         \A u \in Targets : Within(history[u], history'[u])
  PROVE  /\ TodoBy(j) => TodoBy(j)'
         /\ KnownBy(j) => KnownBy(j)'
         /\ DoneBy(j) => DoneBy(j)'
         /\ SeenBy(j) => SeenBy(j)'
<1>1. TodoBy(j) => TodoBy(j)' BY DEF TodoBy, Dealt, SourceEntry
<1>2. KnownBy(j) => KnownBy(j)'
  <2>1. "r" \in Targets /\ "shell" \in Targets BY DEF Targets
  <2> QED BY <2>1, WithinTransitive DEF KnownBy
<1>3. DoneBy(j) => DoneBy(j)'
  <2>1. \A i \in DOMAIN source :
          Told(history[TargetOf(SourceEntry(j, i))], SourceEntry(j, i))
          => Told(history'[TargetOf(SourceEntry(j, i))], SourceEntry(j, i))
    BY ToldLater
  <2>2. /\ \A i \in DOMAIN source : SourceEntry(j, i)' = SourceEntry(j, i)
        /\ Dealt(j)' = Dealt(j)
    BY DEF SourceEntry, Dealt
  <2>3. \A i \in 1..Dealt(j) : i \in DOMAIN source
    <3>1. DOMAIN source = 1..Len(source) /\ Len(source) \in Nat BY DEF DatabaseTypes
    <3>2. Len(job[j].todo) \in Nat BY DEF JobTypes, JobType
    <3> QED BY <3>1, <3>2 DEF Dealt
  <2> HIDE DEF SourceEntry, Dealt
  <2> QED BY <2>1, <2>2, <2>3 DEF DoneBy
<1>4. SeenBy(j) => SeenBy(j)' BY DEF SeenBy
<1> QED BY <1>1, <1>2, <1>3, <1>4

-----------------------------------------------------------------------------
(* A step of an import, for the process itself.                            *)

\* An entry has been dealt with, in some way.
LEMMA OneMore ==
  ASSUME DatabaseTypes, JobTypes, source' = source, NEW j \in Jobs, NEW a, AtEntry(j, a),
         TodoBy(j), job'[j].phase = "importing", job'[j].todo = Tail(job[j].todo),
         job'[j].override = job[j].override
  PROVE  /\ TodoBy(j)' /\ Dealt(j)' = Dealt(j) + 1
         /\ Dealt(j) + 1 \in DOMAIN source /\ Dealt(j) \in Nat
         /\ Entry1(j) = SourceEntry(j, Dealt(j) + 1)
         /\ \A i : SourceEntry(j, i)' = SourceEntry(j, i)
<1> DEFINE todo == job[j].todo
<1>1. todo \in Seq(Entry) /\ todo # <<>> /\ job[j].phase = "importing" BY EntryAtHand
<1>2. DOMAIN source = 1..Len(source) /\ Len(source) \in Nat BY DEF DatabaseTypes
<1>3. Len(todo) <= Len(source) /\ \A m \in 1..Len(todo) : todo[m] = SourceEntry(j, Dealt(j) + m)
  BY <1>1 DEF TodoBy
<1>4. Len(todo) \in Nat \ {0} /\ Len(Tail(todo)) = Len(todo) - 1
      /\ \A m \in 1..(Len(todo) - 1) : Tail(todo)[m] = todo[m + 1]
      /\ Head(todo) = todo[1]
  BY <1>1
<1>5. Dealt(j) = Len(source) - Len(todo) /\ Dealt(j)' = Len(source) - Len(Tail(todo))
  BY DEF Dealt
<1>6. \A i : SourceEntry(j, i)' = SourceEntry(j, i) BY DEF SourceEntry
<1> HIDE DEF todo, Dealt, SourceEntry
<1>7. Dealt(j)' = Dealt(j) + 1 /\ Dealt(j) + 1 \in 1..Len(source) /\ Dealt(j) \in Nat
  BY <1>2, <1>3, <1>4, <1>5
<1>8. Entry1(j) = SourceEntry(j, Dealt(j) + 1) BY <1>3, <1>4 DEF Entry1, todo
<1>9. \A m \in 1..Len(Tail(todo)) : Tail(todo)[m] = SourceEntry(j, Dealt(j) + 1 + m)
  <2> SUFFICES ASSUME NEW m \in 1..Len(Tail(todo))
               PROVE  Tail(todo)[m] = SourceEntry(j, Dealt(j) + 1 + m)
    OBVIOUS
  <2>1. Tail(todo)[m] = todo[m + 1] /\ m + 1 \in 1..Len(todo) BY <1>4
  <2>2. Dealt(j) + (m + 1) = Dealt(j) + 1 + m BY <1>4, <1>7
  <2> QED BY <1>3, <2>1, <2>2
<1>10. TodoBy(j)' BY <1>3, <1>4, <1>6, <1>7, <1>9 DEF TodoBy, todo
<1> QED BY <1>2, <1>6, <1>7, <1>8, <1>10

LEMMA OneMoreDone ==
  ASSUME DatabaseTypes, DatabaseTypes', JobTypes, source' = source, NEW j \in Jobs,
         NEW a, AtEntry(j, a), TodoBy(j), DoneBy(j),
         job'[j].phase = "importing", job'[j].todo = Tail(job[j].todo),
         job'[j].override = job[j].override,
         ~job'[j].failed => ~job[j].failed /\ Told(history'[TargetOf(Entry1(j))], Entry1(j)),
         \A u \in Targets : Within(history[u], history'[u])
  PROVE  DoneBy(j)'
<1>1. /\ Dealt(j)' = Dealt(j) + 1 /\ Dealt(j) \in Nat
      /\ Entry1(j) = SourceEntry(j, Dealt(j) + 1)
      /\ \A i : SourceEntry(j, i)' = SourceEntry(j, i)
  BY OneMore
<1>2. job[j].phase = "importing" BY EntryAtHand
<1> HIDE DEF Dealt, SourceEntry
<1>3. ASSUME ~job'[j].failed, NEW i \in 1..(Dealt(j) + 1)
      PROVE  Told(history'[TargetOf(SourceEntry(j, i))], SourceEntry(j, i))
  <2>1. CASE i = Dealt(j) + 1 BY <1>1, <1>3, <2>1
  <2>2. CASE i # Dealt(j) + 1
    <3>1. i \in 1..Dealt(j) BY <1>1, <2>2
    <3>2. Told(history[TargetOf(SourceEntry(j, i))], SourceEntry(j, i))
      BY <1>2, <1>3, <3>1 DEF DoneBy
    <3> QED BY <3>2, ToldLater
  <2> QED BY <2>1, <2>2
<1> QED BY <1>1, <1>3 DEF DoneBy

LEMMA SameKnown ==
  ASSUME JobTypes, source' = source, NEW j \in Jobs, NEW a, AtEntry(j, a),
         job'[j].phase = "importing", job'[j].known = job[j].known
  PROVE  /\ KnownBy(j) /\ (\A u \in Targets : Within(history[u], history'[u])) => KnownBy(j)'
         /\ SeenBy(j) /\ job'[j].dedup = job[j].dedup /\ job'[j].counts.imported = 0 => SeenBy(j)'
<1>1. job[j].phase = "importing" BY EntryAtHand
<1>2. "r" \in Targets /\ "shell" \in Targets BY DEF Targets
<1>3. KnownBy(j) /\ (\A u \in Targets : Within(history[u], history'[u])) => KnownBy(j)'
  BY <1>1, <1>2, WithinTransitive DEF KnownBy
<1>4. SeenBy(j) /\ job'[j].dedup = job[j].dedup /\ job'[j].counts.imported = 0 => SeenBy(j)'
  BY <1>1 DEF SeenBy
<1> QED BY <1>3, <1>4

\* An import that has seen all entries inserts none.
LEMMA NothingToInsert ==
  ASSUME DatabaseTypes, JobTypes, NEW j \in Jobs, TodoBy(j), SeenBy(j), Insert(j)
  PROVE  ~job[j].dedup
<1> SUFFICES ASSUME job[j].dedup PROVE FALSE OBVIOUS
<1> DEFINE e == Entry1(j)
           k == Dealt(j) + 1
<1>1. AtEntry(j, "insert") BY DEF Insert
<1>2. job[j].phase = "importing" BY <1>1, EntryAtHand
<1>3. k \in DOMAIN source /\ e = SourceEntry(j, k)
  <2>1. /\ job'[j] = Counted(j, "imported") /\ source' = source
        /\ Counted(j, "imported").phase = "importing"
        /\ Counted(j, "imported").todo = Tail(job[j].todo)
        /\ Counted(j, "imported").override = job[j].override
    BY <1>1, CountedType, JobSet DEF Insert
  <2> QED BY <1>1, <2>1, OneMore
<1>4. Importable(e) /\ RowsMatching(job[j].known[TargetOf(e)], e) = {} BY InsertDoes
<1> HIDE DEF e, k
<1>5. Present(job[j].known[TargetOf(source[k])], source[k]) BY <1>2, <1>3 DEF SeenBy
<1>6. source[k] \in Entry /\ TargetOf(e) = TargetOf(source[k]) BY <1>3, SourceIs
<1>7. Present(job[j].known[TargetOf(e)], e)
  BY <1>3, <1>5, <1>6, HostnameDoesNotMatter DEF SourceEntry
<1> QED BY <1>4, <1>7 DEF Present

\* What a repair leaves in the database, and in what is known of it.
LEMMA RepairedKnown ==
  ASSUME DatabaseTypes, JobTypes, NEW j \in Jobs, Repair(j),
         \A u \in Targets : Within(job[j].known[u], history[u])
  PROVE  /\ Told(history'[TargetOf(Entry1(j))], Entry1(j))
         /\ \A u \in Targets : /\ Within(job'[j].known[u], history'[u])
                               /\ Within(job[j].known[u], job'[j].known[u])
<1> DEFINE e  == Entry1(j)
           t  == TargetOf(e)
           id == PlanOf(j).id
           known  == job[j].known
           marked == MarkRepaired(known, id, e)
<1>1. e \in Entry /\ t \in Targets /\ known \in AllTables /\ AtEntry(j, "repair")
  BY EntryAtHand DEF Repair
<1>2. id \in RowsMatching(known[t], e) BY RepairDoes
<1>3. id \in DOMAIN known[t] /\ id \in DOMAIN history[t] /\ Fuller(known[t][id], history[t][id])
  BY <1>1, <1>2 DEF RowsMatching, Within
<1>4. known[t][id] \in SavedRow /\ history[t][id] \in SavedRow
  BY <1>1, <1>3, TableIs DEF DatabaseTypes, AllTables
<1>5. id \in RowsMatching(history[t], e)
  BY <1>2, <1>3 DEF RowsMatching, Fuller
<1>6. CASE /\ Replaces(t, id, Filled(history[t][id], e))
           /\ job' = [job EXCEPT ![j] = [Counted(j, "repaired") EXCEPT
                                           !.known = MarkRepaired(@, id, e)]]
  <2>1. job'[j].known = marked
    <3>1. /\ Counted(j, "repaired") \in JobType /\ Counted(j, "repaired").known = known
      BY <1>1, CountedType
    <3>2. job'[j] = [Counted(j, "repaired") EXCEPT !.known = MarkRepaired(@, id, e)]
      BY <1>6 DEF JobTypes
    <3> QED BY <3>1, <3>2 DEF JobType
  <2>2. /\ \A u \in Targets : DOMAIN marked[u] = DOMAIN known[u]
        /\ marked[t][id] = Filled(known[t][id], e)
        /\ \A u \in Targets : \A i \in DOMAIN known[u] :
             u # t \/ i # id => marked[u][i] = known[u][i]
    BY <1>1, <1>3, MarkedIs
  <2>3. /\ Fuller(known[t][id], Filled(known[t][id], e))
        /\ Fuller(Filled(known[t][id], e), Filled(history[t][id], e))
        /\ ~NeedsRepair(Filled(history[t][id], e), e)
        /\ Filled(history[t][id], e).command = history[t][id].command
        /\ Filled(history[t][id], e).time = history[t][id].time
    BY <1>1, <1>3, <1>4, FilledIs DEF Fuller, NeedsRepair
  <2> HIDE DEF e, t, id, known, marked
  <2>4. ASSUME NEW u \in Targets, NEW i \in DOMAIN known[u]
        PROVE  /\ i \in DOMAIN marked[u] /\ Fuller(known[u][i], marked[u][i])
               /\ i \in DOMAIN history'[u] /\ Fuller(marked[u][i], history'[u][i])
    <3>1. i \in DOMAIN history[u] /\ Fuller(known[u][i], history[u][i]) BY DEF Within, known
    <3>2. i \in DOMAIN marked[u] /\ i \in DOMAIN history'[u]
      BY <1>6, <2>2, <3>1 DEF Replaces
    <3>3. CASE u = t /\ i = id BY <1>6, <2>2, <2>3, <3>2, <3>3 DEF Replaces
    <3>4. CASE ~(u = t /\ i = id)
      BY <1>6, <2>2, <3>1, <3>2, <3>4 DEF Replaces, Fuller
    <3> QED BY <3>3, <3>4
  <2>5. \A u \in Targets : Within(known[u], marked[u]) BY <2>4 DEF Within
  <2>6. \A u \in Targets : Within(marked[u], history'[u]) BY <2>2, <2>4 DEF Within
  <2>7. Told(history'[t], e)
    <3>1. id \in DOMAIN history'[t] /\ history'[t][id] = Filled(history[t][id], e)
      BY <1>1, <1>3, <1>6 DEF Replaces
    <3>2. id \in RowsMatching(history'[t], e) BY <1>5, <2>3, <3>1 DEF RowsMatching
    <3> QED BY <2>3, <3>1, <3>2 DEF Told
  <2> QED BY <2>1, <2>5, <2>6, <2>7 DEF e, t, known
<1>7. CASE /\ ~Repairable(history[t], id, e) /\ UNCHANGED history
           /\ job' = [job EXCEPT ![j] = Counted(j, "duplicates")]
  <2>1. job'[j].known = known
    <3>1. Counted(j, "duplicates").known = known BY <1>1, CountedType
    <3> QED BY <1>7, <3>1 DEF JobTypes
  <2>2. ~NeedsRepair(history[t][id], e)
    BY <1>5, <1>7 DEF Repairable, RowsMatching
  <2>3. Told(history[t], e) BY <1>5, <2>2 DEF Told
  <2> QED BY <1>7, <2>1, <2>3, WithinSelf
<1> QED BY <1>6, <1>7, RepairDoes

Counting(j) == Insert(j) \/ Repair(j) \/ StoreFails(j) \/ PassOver(j)

LEMMA CountingDoes ==
  ASSUME JobTypes, NEW j \in Jobs, Counting(j)
  PROVE  /\ \E a : AtEntry(j, a)
         /\ job'[j].phase = "importing" /\ job'[j].todo = Tail(job[j].todo)
         /\ job'[j].override = job[j].override /\ job'[j].dedup = job[j].dedup
         /\ ~job'[j].failed => ~job[j].failed /\ ~StoreFails(j)
         /\ ~Repair(j) => job'[j].known = job[j].known
         /\ ~Insert(j) => job'[j].counts.imported = job[j].counts.imported
<1>1. PICK a \in {"insert", "repair", "duplicate", "skip"} : AtEntry(j, a)
  BY DEF Counting, Insert, Repair, StoreFails, PassOver
<1>2. job \in [Jobs -> JobType] /\ job[j].counts \in Counts BY DEF JobTypes, JobType
<1>3. \A what \in {"imported", "repaired", "duplicates", "skipped"} :
        /\ Counted(j, what) \in JobType
        /\ Counted(j, what).phase = "importing" /\ Counted(j, what).todo = Tail(job[j].todo)
        /\ Counted(j, what).dedup = job[j].dedup /\ Counted(j, what).override = job[j].override
        /\ Counted(j, what).known = job[j].known /\ Counted(j, what).failed = job[j].failed
        /\ what # "imported" => Counted(j, what).counts.imported = job[j].counts.imported
  BY <1>1, <1>2, CountedType, CountType
<1>4. ASSUME StoreFails(j)
      PROVE  /\ job'[j].phase = "importing" /\ job'[j].todo = Tail(job[j].todo)
             /\ job'[j].override = job[j].override /\ job'[j].dedup = job[j].dedup
             /\ job'[j].failed = TRUE /\ job'[j].known = job[j].known
             /\ job'[j].counts.imported = job[j].counts.imported
  <2>1. PICK what \in {"duplicates", "skipped"} :
             job' = [job EXCEPT ![j] = [Counted(j, what) EXCEPT !.failed = TRUE]]
    BY <1>4 DEF StoreFails, Set
  <2>2. job'[j] = [Counted(j, what) EXCEPT !.failed = TRUE] BY <1>2, <2>1
  <2>3. /\ Counted(j, what) \in JobType
        /\ Counted(j, what).phase = "importing" /\ Counted(j, what).todo = Tail(job[j].todo)
        /\ Counted(j, what).dedup = job[j].dedup /\ Counted(j, what).override = job[j].override
        /\ Counted(j, what).known = job[j].known
        /\ Counted(j, what).counts.imported = job[j].counts.imported
    BY <1>3
  <2> QED BY <2>2, <2>3 DEF JobType
<1>5. ASSUME NEW what \in {"imported", "repaired", "duplicates", "skipped"},
             job' = [job EXCEPT ![j] = Counted(j, what)],
             what = "imported" => Insert(j)
      PROVE  /\ job'[j].phase = "importing" /\ job'[j].todo = Tail(job[j].todo)
             /\ job'[j].override = job[j].override /\ job'[j].dedup = job[j].dedup
             /\ job'[j].failed = job[j].failed /\ job'[j].known = job[j].known
             /\ ~Insert(j) => job'[j].counts.imported = job[j].counts.imported
  <2>1. job'[j] = Counted(j, what) BY <1>2, <1>5
  <2> QED BY <1>3, <1>5, <2>1
<1>6. ASSUME NEW known,
             job' = [job EXCEPT ![j] = [Counted(j, "repaired") EXCEPT !.known = known]]
      PROVE  /\ job'[j].phase = "importing" /\ job'[j].todo = Tail(job[j].todo)
             /\ job'[j].override = job[j].override /\ job'[j].dedup = job[j].dedup
             /\ job'[j].failed = job[j].failed
             /\ job'[j].counts.imported = job[j].counts.imported
  <2>1. job'[j] = [Counted(j, "repaired") EXCEPT !.known = known] BY <1>2, <1>6
  <2>2. Counted(j, "repaired") \in JobType BY <1>3
  <2> QED BY <1>3, <2>1, <2>2 DEF JobType
<1>7. CASE StoreFails(j) BY <1>1, <1>4, <1>7
<1>8. CASE ~StoreFails(j) /\ (Insert(j) \/ PassOver(j))
  <2>1. \E what \in {"imported", "duplicates", "skipped"} :
          job' = [job EXCEPT ![j] = Counted(j, what)] /\ (what = "imported" => Insert(j))
    BY <1>8 DEF Insert, PassOver, Set
  <2> QED BY <1>1, <1>5, <1>8, <2>1
<1>9. CASE ~StoreFails(j) /\ Repair(j)
  <2>1. \/ \E known : job' = [job EXCEPT ![j] = [Counted(j, "repaired") EXCEPT !.known = known]]
        \/ job' = [job EXCEPT ![j] = Counted(j, "duplicates")]
    BY <1>9 DEF Repair, Set
  <2> QED BY <1>1, <1>5, <1>6, <1>9, <2>1
<1> QED BY <1>7, <1>8, <1>9 DEF Counting

\* Steps after which there is nothing that an import of j has read.
LEMMA NothingRead ==
  ASSUME NEW j \in Jobs, job'[j].phase \notin {"read", "importing", "imported"}
  PROVE  /\ TodoBy(j)' /\ KnownBy(j)' /\ DoneBy(j)'
         /\ (job'[j].dedup => job'[j].counts.imported = 0) => SeenBy(j)'
BY DEF TodoBy, KnownBy, DoneBy, SeenBy

LEMMA BeginKeepsSource ==
  ASSUME DatabaseTypes, JobTypes, SourceInv, NEW j \in Jobs, BeginImport(j)
  PROVE  /\ TodoBy(j)' /\ KnownBy(j)' /\ DoneBy(j)' /\ SeenBy(j)'
         /\ ~deleted /\ preceded' # {} => AllPresent'
<1>1. PICK o \in Options :
        Set(j, [Idle EXCEPT !.phase = "opened", !.dedup = o.dedup, !.override = o.override])
  BY DEF BeginImport
<1>2. job'[j].phase = "opened" /\ job'[j].counts = NoCounts
  <2>1. Idle \in JobType /\ Idle.counts = NoCounts BY IdleType DEF Idle
  <2> HIDE DEF Idle, NoCounts
  <2>2. job'[j] = [Idle EXCEPT !.phase = "opened", !.dedup = o.dedup, !.override = o.override]
    BY <1>1 DEF Set, JobTypes
  <2> QED BY <2>1, <2>2 DEF JobType
<1>3. TodoBy(j)' /\ KnownBy(j)' /\ DoneBy(j)' /\ SeenBy(j)'
  BY <1>2, NothingRead DEF NoCounts
<1>4. ASSUME ~deleted, preceded' # {} PROVE AllPresent'
  <2>1. UNCHANGED <<source, history>> BY DEF BeginImport
  <2>2. AllPresent
    <3>1. CASE preceded # {} BY <1>4, <3>1 DEF SourceInv
    <3>2. CASE preceded = {}
      <4>1. PICK k \in Jobs : EndedWell(k) BY <1>4, <3>2 DEF BeginImport
      <4>2. DoneBy(k) BY <1>4 DEF SourceInv
      <4> SUFFICES ASSUME NEW i \in DOMAIN source
                   PROVE  Present(history[TargetOf(source[i])], source[i])
        BY DEF AllPresent
      <4>3. Told(history[TargetOf(SourceEntry(k, i))], SourceEntry(k, i))
        BY <4>1, <4>2 DEF EndedWell, DoneBy
      <4>4. Present(history[TargetOf(source[i])], SourceEntry(k, i))
        BY <4>3, SourceIs, ToldIsPresent
      <4>5. source[i] \in Entry BY SourceIs
      <4> QED BY <4>4, <4>5, HostnameDoesNotMatter DEF SourceEntry
    <3> QED BY <3>1, <3>2
  <2> QED BY <2>1, <2>2 DEF AllPresent
<1> QED BY <1>3, <1>4

\* What is read of a database is what is in it.
LEMMA ReadKeepsSource ==
  ASSUME DatabaseTypes, JobTypes, SourceInv, NEW j \in Jobs, ReadRows(j)
  PROVE  /\ TodoBy(j)'
         /\ ~deleted => KnownBy(j)' /\ DoneBy(j)' /\ (j \in preceded => SeenBy(j)')
<1>1. job \in [Jobs -> JobType] /\ job[j] \in JobType BY DEF JobTypes
<1>2. job' = [job EXCEPT ![j] = [job[j] EXCEPT !.phase = "read", !.known["r"] = history["r"]]]
      /\ UNCHANGED <<source, history, preceded>>
  BY DEF ReadRows, Set, databaseVars
<1>3. /\ job'[j].phase = "read" /\ job'[j].known["r"] = history["r"]
      /\ job'[j].dedup = job[j].dedup /\ job'[j].counts = job[j].counts
  <2>1. job'[j] = [job[j] EXCEPT !.phase = "read",
                                 !.known = [job[j].known EXCEPT !["r"] = history["r"]]]
    BY <1>1, <1>2
  <2>2. [job[j].known EXCEPT !["r"] = history["r"]]["r"] = history["r"]
    BY <1>1 DEF JobType, AllTables, Targets
  <2> QED BY <1>1, <2>1, <2>2 DEF JobType
<1>4. TodoBy(j)' /\ DoneBy(j)' BY <1>3 DEF TodoBy, DoneBy
<1>5. KnownBy(j)' BY <1>2, <1>3, WithinSelf DEF KnownBy
<1>6. ASSUME ~deleted, j \in preceded PROVE SeenBy(j)'
  <2>1. SeenBy(j) /\ AllPresent BY <1>6 DEF SourceInv
  <2> SUFFICES ASSUME job'[j].dedup
               PROVE  /\ job'[j].counts.imported = 0
                      /\ \A i \in DOMAIN source : TargetOf(source[i]) = "r" =>
                           Present(history["r"], source[i])
    BY <1>2, <1>3 DEF SeenBy
  <2>2. job'[j].counts.imported = 0 BY <1>3, <2>1 DEF SeenBy
  <2>3. \A i \in DOMAIN source : TargetOf(source[i]) = "r" => Present(history["r"], source[i])
    BY <2>1 DEF AllPresent
  <2> QED BY <2>2, <2>3
<1> QED BY <1>4, <1>5, <1>6

LEMMA ReadShellKeepsSource ==
  ASSUME DatabaseTypes, JobTypes, SourceInv, NEW j \in Jobs, ReadShellRows(j)
  PROVE  /\ TodoBy(j)'
         /\ ~deleted => KnownBy(j)' /\ DoneBy(j)' /\ (j \in preceded => SeenBy(j)')
<1> DEFINE given == [i \in DOMAIN source |-> WithHostname(source[i], job[j].override)]
           known   == [job[j].known EXCEPT !["shell"] = history["shell"]]
           new     == [job[j] EXCEPT !.phase = "importing", !.known = known, !.todo = given]
<1>1. job \in [Jobs -> JobType] /\ job[j] \in JobType BY DEF JobTypes
<1>2. job[j].phase = "read" BY DEF ReadShellRows
<1>3. job' = [job EXCEPT ![j] = new] /\ UNCHANGED <<source, history, preceded>>
  BY DEF ReadShellRows, Set, databaseVars
<1>4. known["shell"] = history["shell"] /\ known["r"] = job[j].known["r"]
  BY <1>1 DEF JobType, AllTables, Targets
<1>5. DOMAIN source = 1..Len(source) /\ Len(source) \in Nat BY DEF DatabaseTypes
<1>6. Len(given) = Len(source) /\ \A m \in 1..Len(source) : given[m] = SourceEntry(j, m)
  <2>1. DOMAIN given = 1..Len(source) BY <1>5
  <2>2. given \in [1..Len(source) -> Entry]
    <3>1. \A i \in DOMAIN source : SourceEntry(j, i) \in Entry BY SourceIs
    <3> QED BY <1>5, <3>1 DEF SourceEntry
  <2>3. Len(given) = Len(source) BY <1>5, <2>1, <2>2
  <2> QED BY <1>5, <2>3 DEF SourceEntry
<1> HIDE DEF given, known
<1>7. /\ job'[j].phase = "importing" /\ job'[j].known = known /\ job'[j].todo = given
      /\ job'[j].dedup = job[j].dedup /\ job'[j].counts = job[j].counts
      /\ job'[j].override = job[j].override /\ job'[j].failed = job[j].failed
  BY <1>1, <1>3 DEF JobType
<1>8. \A i : SourceEntry(j, i)' = SourceEntry(j, i) BY <1>3, <1>7 DEF SourceEntry
<1>9. Dealt(j)' = 0 BY <1>3, <1>5, <1>6, <1>7 DEF Dealt
<1> HIDE DEF SourceEntry, Dealt
<1>10. TodoBy(j)'
  <2>1. \A m \in 1..Len(source) : 0 + m = m BY <1>5
  <2> QED BY <1>3, <1>5, <1>6, <1>7, <1>8, <1>9, <2>1 DEF TodoBy
<1>11. DoneBy(j)'
  <2>1. 1..0 = {} OBVIOUS
  <2> QED BY <1>7, <1>9, <2>1 DEF DoneBy
<1>12. ASSUME ~deleted PROVE KnownBy(j)'
  <2>1. Within(job[j].known["r"], history["r"]) BY <1>2, <1>12 DEF SourceInv, KnownBy
  <2> QED BY <1>3, <1>4, <1>7, <2>1, WithinSelf DEF KnownBy
<1>13. ASSUME ~deleted, j \in preceded PROVE SeenBy(j)'
  <2>1. SeenBy(j) /\ AllPresent BY <1>13 DEF SourceInv
  <2> SUFFICES ASSUME job[j].dedup
               PROVE  /\ job[j].counts.imported = 0
                      /\ \A i \in DOMAIN source :
                           Present(known[TargetOf(source[i])], source[i])
    BY <1>3, <1>7 DEF SeenBy
  <2>2. job[j].counts.imported = 0 BY <2>1 DEF SeenBy
  <2>3. ASSUME NEW i \in DOMAIN source PROVE Present(known[TargetOf(source[i])], source[i])
    <3>1. CASE TargetOf(source[i]) = "r"
      <4>1. Present(job[j].known["r"], source[i]) BY <1>2, <2>1, <3>1 DEF SeenBy
      <4> QED BY <1>4, <3>1, <4>1
    <3>2. CASE TargetOf(source[i]) = "shell" BY <1>4, <2>1, <3>2 DEF AllPresent
    <3> QED BY <3>1, <3>2, Targeted DEF Targets
  <2> QED BY <2>2, <2>3
<1> QED BY <1>10, <1>11, <1>12, <1>13

LEMMA CountingKeepsSource ==
  ASSUME DatabaseTypes, DatabaseTypes', JobTypes, SourceInv, source' = source, NEW j \in Jobs,
         Counting(j)
  PROVE  /\ TodoBy(j)'
         /\ ~deleted /\ (\A u \in Targets : Within(history[u], history'[u])) =>
              KnownBy(j)' /\ DoneBy(j)' /\ (j \in preceded => SeenBy(j)')
<1>1. PICK a : AtEntry(j, a) BY CountingDoes
<1>2. /\ job'[j].phase = "importing" /\ job'[j].todo = Tail(job[j].todo)
      /\ job'[j].override = job[j].override /\ job'[j].dedup = job[j].dedup
      /\ ~job'[j].failed => ~job[j].failed /\ ~StoreFails(j)
      /\ ~Repair(j) => job'[j].known = job[j].known
      /\ ~Insert(j) => job'[j].counts.imported = job[j].counts.imported
  BY CountingDoes
<1>3. TodoBy(j) BY DEF SourceInv
<1>4. TodoBy(j)' BY <1>1, <1>2, <1>3, OneMore
<1> SUFFICES ASSUME ~deleted, \A u \in Targets : Within(history[u], history'[u])
             PROVE  KnownBy(j)' /\ DoneBy(j)' /\ (j \in preceded => SeenBy(j)')
  BY <1>4
<1>5. KnownBy(j) /\ DoneBy(j) /\ (j \in preceded => SeenBy(j)) BY DEF SourceInv
<1>6. job[j].phase = "importing" /\ Entry1(j) \in Entry /\ TargetOf(Entry1(j)) \in Targets
  BY <1>1, EntryAtHand
<1>7. \A u \in Targets : Within(job[j].known[u], history[u]) BY <1>5, <1>6 DEF KnownBy, Targets
<1> DEFINE e == Entry1(j)
           t == TargetOf(e)
<1>8. ASSUME ~job'[j].failed PROVE Told(history'[t], e)
  <2>1. CASE Insert(j) BY <2>1, InsertDoes
  <2>2. CASE Repair(j) BY <1>7, <2>2, RepairedKnown
  <2>3. CASE PassOver(j)
    <3>1. PlanOf(j).do \in {"duplicate", "skip"} BY <2>3 DEF PassOver, AtEntry
    <3>2. Plan(job[j].known, job[j].dedup, e).do \in {"duplicate", "skip"} BY <3>1 DEF PlanOf
    <3> DEFINE found == RowsMatching(job[j].known[t], e)
    <3>3. \/ ~Importable(e)
          \/ /\ found # {}
             /\ Cardinality(found) # 1 \/ \E i \in found : ~NeedsRepair(job[j].known[t][i], e)
      BY <3>2, PlanIs
    <3>4. CASE ~Importable(e) BY <3>4 DEF Told
    <3>5. CASE Importable(e)
      <4>1. DOMAIN job[j].known[t] \subseteq DOMAIN history[t] BY <1>6, <1>7 DEF Within
      <4>2. IsFiniteSet(DOMAIN history[t]) BY <1>6, TablesAreFinite
      <4>3. IsFiniteSet(DOMAIN job[j].known[t]) BY <4>1, <4>2, FS_Subset
      <4>4. Told(job[j].known[t], e) BY <3>3, <3>5, <4>3, DuplicateIsTold
      <4>5. Told(history[t], e) BY <1>6, <1>7, <4>2, <4>4, ToldStays
      <4> QED BY <4>5, ToldLater
    <3> QED BY <3>4, <3>5
  <2> QED BY <1>2, <1>8, <2>1, <2>2, <2>3 DEF Counting
<1>9. DoneBy(j)' BY <1>1, <1>2, <1>3, <1>5, <1>8, OneMoreDone
<1>10. CASE Repair(j)
  <2>1. \A u \in Targets : /\ Within(job'[j].known[u], history'[u])
                           /\ Within(job[j].known[u], job'[j].known[u])
    BY <1>7, <1>10, RepairedKnown
  <2>2. KnownBy(j)' BY <2>1 DEF KnownBy, Targets
  <2>3. ~Insert(j)
    <3>1. Insert(j) => PlanOf(j).do = "insert" BY DEF Insert, AtEntry
    <3>2. PlanOf(j).do = "repair" BY <1>10 DEF Repair, AtEntry
    <3> QED BY <3>1, <3>2
  <2>4. ASSUME j \in preceded PROVE SeenBy(j)'
    <3> SUFFICES ASSUME job[j].dedup
                 PROVE  /\ job'[j].counts.imported = 0
                        /\ \A i \in DOMAIN source :
                             Present(job'[j].known[TargetOf(source[i])], source[i])
      BY <1>2 DEF SeenBy
    <3>1. job'[j].counts.imported = 0 BY <1>2, <1>5, <2>3, <2>4 DEF SeenBy
    <3>2. ASSUME NEW i \in DOMAIN source
          PROVE  Present(job'[j].known[TargetOf(source[i])], source[i])
      <4>1. Present(job[j].known[TargetOf(source[i])], source[i])
        BY <1>5, <1>6, <2>4 DEF SeenBy
      <4>2. Within(job[j].known[TargetOf(source[i])], job'[j].known[TargetOf(source[i])])
        BY <2>1, Targeted
      <4> QED BY <4>1, <4>2, PresentStays
    <3> QED BY <3>1, <3>2
  <2> QED BY <1>9, <2>2, <2>4
<1>11. CASE ~Repair(j)
  <2>1. job'[j].known = job[j].known BY <1>2, <1>11
  <2>2. KnownBy(j)' BY <1>1, <1>2, <1>5, <2>1, SameKnown
  <2>3. ASSUME j \in preceded PROVE SeenBy(j)'
    <3>1. CASE ~Insert(j)
      <4>1. CASE job[j].dedup
        <5>1. job'[j].counts.imported = 0 BY <1>2, <1>5, <2>3, <3>1, <4>1 DEF SeenBy
        <5> QED BY <1>1, <1>2, <1>5, <2>1, <2>3, <5>1, SameKnown
      <4>2. CASE ~job[j].dedup BY <1>2, <4>2 DEF SeenBy
      <4> QED BY <4>1, <4>2
    <3>2. CASE Insert(j)
      <4>1. ~job[j].dedup BY <1>3, <1>5, <2>3, <3>2, NothingToInsert
      <4> QED BY <1>2, <4>1 DEF SeenBy
    <3> QED BY <3>1, <3>2
  <2> QED BY <1>9, <2>2, <2>3
<1> QED BY <1>10, <1>11

LEMMA FinishKeepsSource ==
  ASSUME DatabaseTypes, JobTypes, SourceInv, NEW j \in Jobs, Finish(j)
  PROVE  /\ TodoBy(j)'
         /\ ~deleted => KnownBy(j)' /\ DoneBy(j)' /\ (j \in preceded => SeenBy(j)')
<1>1. job[j].phase = "importing" /\ job[j].todo = <<>> BY DEF Finish
<1>2. UNCHANGED <<source, history, preceded>> BY DEF Finish, databaseVars
<1>3. /\ job'[j].phase = "imported" /\ job'[j].dedup = job[j].dedup
      /\ job'[j].override = job[j].override /\ job'[j].counts = job[j].counts
      /\ job'[j].failed = job[j].failed
  <2> DEFINE new == [Ended(j) EXCEPT !.phase = "imported"]
  <2>1. /\ new \in JobType /\ new.phase = "imported" /\ new.dedup = job[j].dedup
        /\ new.override = job[j].override /\ new.counts = job[j].counts
        /\ new.failed = job[j].failed
    BY EndedType
  <2>2. Set(j, new) BY DEF Finish
  <2> HIDE DEF new
  <2>3. job'[j] = new BY <2>1, <2>2, JobSet
  <2> QED BY <2>1, <2>3
<1>4. Dealt(j) = Len(source) /\ DOMAIN source = 1..Len(source)
  BY <1>1 DEF Dealt, DatabaseTypes
<1>5. \A i : SourceEntry(j, i)' = SourceEntry(j, i) BY <1>2, <1>3 DEF SourceEntry
<1> HIDE DEF Dealt, SourceEntry
<1>6. TodoBy(j)' /\ KnownBy(j)' BY <1>3 DEF TodoBy, KnownBy
<1>7. ASSUME ~deleted PROVE DoneBy(j)'
  <2>1. DoneBy(j) BY <1>7 DEF SourceInv
  <2> QED BY <1>1, <1>2, <1>3, <1>4, <1>5, <2>1 DEF DoneBy
<1>8. ASSUME ~deleted, j \in preceded PROVE SeenBy(j)'
  <2>1. SeenBy(j) BY <1>8 DEF SourceInv
  <2> QED BY <1>3, <2>1 DEF SeenBy
<1> QED BY <1>6, <1>7, <1>8

\* Exports have nothing to do with it, nor has an import that is killed.
LEMMA OthersKeepSource ==
  ASSUME JobTypes, SourceInv, NEW j \in Jobs, ExportStep(j) \/ Kill(j)
  PROVE  /\ TodoBy(j)'
         /\ ~deleted => KnownBy(j)' /\ DoneBy(j)' /\ (j \in preceded => SeenBy(j)')
<1>1. job \in [Jobs -> JobType] /\ job[j] \in JobType BY DEF JobTypes
<1>2. /\ job'[j].phase \in {"exporting", "exported", "failed", "killed"}
      /\ job'[j].dedup => job[j].dedup /\ job'[j].counts = job[j].counts
  <2>1. CASE BeginExport(j)
    <3>1. Idle \in JobType /\ Idle.dedup = FALSE BY IdleType DEF Idle
    <3> HIDE DEF Idle
    <3>2. job'[j] = [Idle EXCEPT !.phase = "exporting"] BY <1>1, <2>1 DEF BeginExport, Set
    <3> QED BY <3>1, <3>2 DEF JobType
  <2>2. CASE CopyTable(j) BY <2>2 DEF CopyTable
  <2>3. CASE Publish(j) \/ ExportFails(j)
    <3>1. PICK phase \in {"exported", "failed"} : job'[j] = [job[j] EXCEPT !.phase = phase]
      BY <1>1, <2>3 DEF Publish, ExportFails, Set
    <3> QED BY <1>1, <3>1 DEF JobType
  <2>4. CASE Kill(j) BY <2>4, EndedType, JobSet DEF Kill
  <2> QED BY <2>1, <2>2, <2>3, <2>4 DEF ExportStep
<1>3. preceded' = preceded
  BY DEF ExportStep, BeginExport, CopyTable, Publish, ExportFails, Kill
<1>4. TodoBy(j)' /\ KnownBy(j)' /\ DoneBy(j)' BY <1>2, NothingRead
<1>5. ASSUME ~deleted, j \in preceded PROVE SeenBy(j)'
  <2>1. SeenBy(j) BY <1>5 DEF SourceInv
  <2>2. job'[j].dedup => job'[j].counts.imported = 0 BY <1>2, <2>1 DEF SeenBy
  <2> QED BY <1>2, <2>2, NothingRead
<1> QED BY <1>4, <1>5

LEMMA OthersStay ==
  ASSUME JobTypes, NEW j \in Jobs, ImportStep(j) \/ ExportStep(j) \/ Kill(j)
  PROVE  /\ \A k \in Jobs : k # j => job'[k] = job[k]
         /\ preceded' \subseteq preceded \cup {j} /\ preceded \subseteq preceded'
         /\ deleted' = deleted
         /\ ~BeginImport(j) => preceded' = preceded
<1>1. (\E new : Set(j, new)) \/ UNCHANGED job
  BY DEF ImportStep, ExportStep, BeginImport, ReadRows, ReadShellRows, Insert, Repair, StoreFails,
     PassOver, Finish, BeginExport, CopyTable, Publish, ExportFails, Kill
<1>2. \A k \in Jobs : k # j => job'[k] = job[k] BY <1>1 DEF Set, JobTypes
<1>3. deleted' = deleted /\ (~BeginImport(j) => preceded' = preceded)
  BY DEF ImportStep, ExportStep, BeginImport, ReadRows, ReadShellRows, Insert, Repair, StoreFails,
     PassOver, Finish, BeginExport, CopyTable, Publish, ExportFails, Kill
<1>4. BeginImport(j) => preceded' \in {preceded, preceded \cup {j}} BY DEF BeginImport
<1> QED BY <1>2, <1>3, <1>4

LEMMA AllStayPresent ==
  ASSUME AllPresent, source' = source, \A u \in Targets : Within(history[u], history'[u])
  PROVE  AllPresent'
<1> SUFFICES ASSUME NEW i \in DOMAIN source
             PROVE  Present(history'[TargetOf(source[i])], source[i])
  BY DEF AllPresent
<1>1. TargetOf(source[i]) \in Targets BY Targeted
<1>2. Present(history[TargetOf(source[i])], source[i]) BY DEF AllPresent
<1> QED BY <1>1, <1>2, PresentStays

LEMMA SourceStep ==
  ASSUME DatabaseTypes, DatabaseTypes', JobTypes, SourceInv, ImportNext
  PROVE  SourceInv'
<1>1. source' = source BY SourceStays
<1>2. ~deleted' => \A u \in Targets : Within(history[u], history'[u]) BY DatabaseStep
<1>3. ASSUME NEW k \in Jobs, job'[k] = job[k]
      PROVE  /\ TodoBy(k)'
             /\ ~deleted /\ ~deleted' => KnownBy(k)' /\ DoneBy(k)' /\ (SeenBy(k) => SeenBy(k)')
  <2>1. TodoBy(k)' BY <1>1, <1>3 DEF SourceInv, TodoBy, Dealt, SourceEntry
  <2>2. ASSUME ~deleted, ~deleted'
        PROVE  KnownBy(k)' /\ DoneBy(k)' /\ (SeenBy(k) => SeenBy(k)')
    <3>1. KnownBy(k) /\ DoneBy(k) BY <2>2 DEF SourceInv
    <3> QED BY <1>1, <1>2, <1>3, <2>2, <3>1, Undisturbed
  <2> QED BY <2>1, <2>2
<1>4. ASSUME NEW j \in Jobs, ImportStep(j) \/ ExportStep(j) \/ Kill(j)
      PROVE  SourceInv'
  <2>1. /\ TodoBy(j)'
        /\ ~deleted /\ ~deleted' => KnownBy(j)' /\ DoneBy(j)' /\ (j \in preceded' => SeenBy(j)')
    <3>1. CASE BeginImport(j) BY <3>1, BeginKeepsSource
    <3>2. CASE ~BeginImport(j)
      <4>1. preceded' = preceded BY <1>4, <3>2, OthersStay
      <4>2. CASE ReadRows(j) BY <4>1, <4>2, ReadKeepsSource
      <4>3. CASE ReadShellRows(j) BY <4>1, <4>3, ReadShellKeepsSource
      <4>4. CASE Counting(j) BY <1>1, <1>2, <4>1, <4>4, CountingKeepsSource
      <4>5. CASE Finish(j) BY <4>1, <4>5, FinishKeepsSource
      <4>6. CASE ExportStep(j) \/ Kill(j) BY <4>1, <4>6, OthersKeepSource
      <4> QED BY <1>4, <3>2, <4>2, <4>3, <4>4, <4>5, <4>6 DEF ImportStep, Counting
    <3> QED BY <3>1, <3>2
  <2>2. /\ \A k \in Jobs : k # j => job'[k] = job[k]
        /\ preceded' \subseteq preceded \cup {j} /\ deleted' = deleted
        /\ ~BeginImport(j) => preceded' = preceded
    BY <1>4, OthersStay
  <2>3. \A k \in Jobs : TodoBy(k)' BY <1>3, <2>1, <2>2
  <2>4. ASSUME ~deleted'
        PROVE  /\ \A k \in Jobs : KnownBy(k)' /\ DoneBy(k)'
               /\ \A k \in preceded' : SeenBy(k)'
    <3>1. ~deleted /\ preceded \subseteq Jobs BY <2>2, <2>4 DEF JobTypes
    <3>2. \A k \in Jobs : KnownBy(k)' /\ DoneBy(k)' BY <1>3, <2>1, <2>2, <2>4, <3>1
    <3>3. ASSUME NEW k \in preceded' PROVE SeenBy(k)'
      <4>1. CASE k = j BY <2>1, <2>4, <3>1, <4>1
      <4>2. CASE k # j
        <5>1. k \in preceded /\ k \in Jobs /\ job'[k] = job[k] BY <2>2, <3>1, <4>2
        <5>2. SeenBy(k) BY <3>1, <5>1 DEF SourceInv
        <5> QED BY <1>3, <2>4, <3>1, <5>1, <5>2
      <4> QED BY <4>1, <4>2
    <3> QED BY <3>2, <3>3
  <2>5. ASSUME ~deleted', preceded' # {} PROVE AllPresent'
    <3>1. ~deleted BY <2>2, <2>5
    <3>2. CASE BeginImport(j) BY <2>5, <3>1, <3>2, BeginKeepsSource
    <3>3. CASE ~BeginImport(j)
      <4>1. AllPresent BY <2>2, <2>5, <3>1, <3>3 DEF SourceInv
      <4> QED BY <1>1, <1>2, <2>5, <4>1, AllStayPresent
    <3> QED BY <3>2, <3>3
  <2> QED BY <2>3, <2>4, <2>5 DEF SourceInv
<1>5. ASSUME NEW t \in Targets, SessionSaves(t) \/ SessionUpdates(t) \/ SessionDeletes(t)
      PROVE  SourceInv'
  <2>1. UNCHANGED <<job, preceded>> /\ (deleted' = deleted \/ deleted' = TRUE)
    BY <1>5 DEF SessionSaves, SessionUpdates, SessionDeletes
  <2>2. \A k \in Jobs : TodoBy(k)' BY <1>3, <2>1
  <2>3. ASSUME ~deleted'
        PROVE  /\ \A k \in Jobs : KnownBy(k)' /\ DoneBy(k)'
               /\ preceded' # {} => AllPresent'
               /\ \A k \in preceded' : SeenBy(k)'
    <3>1. ~deleted /\ preceded \subseteq Jobs BY <2>1, <2>3 DEF JobTypes
    <3>2. \A k \in Jobs : KnownBy(k)' /\ DoneBy(k)' /\ (SeenBy(k) => SeenBy(k)')
      BY <1>3, <2>1, <2>3, <3>1
    <3>3. /\ preceded # {} => AllPresent
          /\ \A k \in preceded : SeenBy(k)
      BY <3>1 DEF SourceInv
    <3>4. preceded' # {} => AllPresent' BY <1>1, <1>2, <2>1, <2>3, <3>3, AllStayPresent
    <3> QED BY <2>1, <3>1, <3>2, <3>3, <3>4
  <2> QED BY <2>2, <2>3 DEF SourceInv
<1> QED BY <1>4, <1>5 DEF ImportNext

-----------------------------------------------------------------------------
(* The beginning, and the invariant.                                       *)

LEMMA ImportBegins ==
  ASSUME ImportInit
  PROVE  /\ DatabaseTypes /\ JobTypes /\ FileTypes /\ ExportInv /\ SourceInv
         /\ failures \in 0..MaxFailures
<1>1. source \in Seq(Entry) /\ history \in [Targets -> Seq(SavedRow)]
  BY ImportAssumption DEF ImportInit
<1>2. history \in AllTables /\ nextId \in [Targets -> Nat \ {0}]
      /\ \A t \in Targets : \A i \in DOMAIN history[t] : i \in 1..(nextId[t] - 1)
  <2>1. \A t \in Targets : history[t] \in Seq(SavedRow) /\ nextId[t] = Len(history[t]) + 1
    BY <1>1 DEF ImportInit
  <2>2. \A t \in Targets : history[t] \in Tables BY <2>1, SeqIsTable
  <2>3. history \in AllTables BY <1>1, <2>2 DEF AllTables
  <2>4. \A t \in Targets : /\ Len(history[t]) \in Nat /\ nextId[t] - 1 = Len(history[t])
                           /\ DOMAIN history[t] = 1..Len(history[t])
    BY <2>1
  <2>5. nextId \in [Targets -> Nat \ {0}] BY <1>1, <2>4 DEF ImportInit
  <2> QED BY <2>3, <2>4, <2>5
<1>3. DatabaseTypes BY <1>1, <1>2 DEF ImportInit, DatabaseTypes
<1>4. job = [j \in Jobs |-> Idle] /\ preceded = {} /\ deleted = FALSE BY DEF ImportInit
<1>5. \A j \in Jobs : job[j].phase = "idle" BY <1>4 DEF Idle
<1>6. JobTypes BY <1>4, IdleType DEF JobTypes
<1>7. FileTypes BY DEF ImportInit, FileTypes, Files
<1>8. ExportInv BY <1>5 DEF ExportInv, OutputWhole, ImportInit
<1>9. SourceInv BY <1>4, <1>5 DEF SourceInv, TodoBy, KnownBy, DoneBy
<1> QED BY <1>3, <1>6, <1>7, <1>8, <1>9, ImportAssumption DEF ImportInit

LEMMA FailuresBounded ==
  ASSUME failures \in 0..MaxFailures, ImportNext
  PROVE  failures' \in 0..MaxFailures
<1>1. CASE FailsNow BY <1>1, ImportAssumption DEF FailsNow
<1>2. CASE UNCHANGED failures BY <1>2
<1> QED
  BY <1>1, <1>2 DEF ImportNext, ImportStep, ExportStep, BeginImport, ReadRows, ReadShellRows, Insert,
     Repair, StoreFails, PassOver, Finish, BeginExport, CopyTable, Publish, ExportFails, Kill,
     SessionSaves, SessionUpdates, SessionDeletes

ImportInv ==
  /\ DatabaseTypes /\ JobTypes /\ FileTypes
  /\ failures \in 0..MaxFailures /\ source \in Sources
  /\ ExportInv /\ SourceInv

LEMMA ImportStutters ==
  ASSUME ImportInv, UNCHANGED importVars
  PROVE  ImportInv'
BY DEF ImportInv, importVars, DatabaseTypes, JobTypes, FileTypes, ExportInv, OutputWhole, SourceInv,
   TodoBy, KnownBy, DoneBy, SeenBy, AllPresent, Dealt, SourceEntry

LEMMA ImportInvariant == ImportSpec => []ImportInv
<1>1. ImportInit => ImportInv BY ImportBegins DEF ImportInv, ImportInit
<1>2. ImportInv /\ [ImportNext]_importVars => ImportInv'
  <2> SUFFICES ASSUME ImportInv, [ImportNext]_importVars PROVE ImportInv' OBVIOUS
  <2>1. CASE ImportNext
    <3>1. DatabaseTypes /\ JobTypes /\ FileTypes /\ ExportInv /\ SourceInv BY DEF ImportInv
    <3>2. DatabaseTypes' /\ JobTypes' BY <2>1, <3>1, DatabaseStep, JobStep
    <3>3. FileTypes' /\ ExportInv' BY <2>1, <3>1, FileStep
    <3>4. SourceInv' BY <2>1, <3>1, <3>2, SourceStep
    <3>5. failures' \in 0..MaxFailures /\ source' \in Sources
      BY <2>1, FailuresBounded, SourceStays DEF ImportInv
    <3> QED BY <3>2, <3>3, <3>4, <3>5 DEF ImportInv
  <2>2. CASE UNCHANGED importVars BY <2>2, ImportStutters
  <2> QED BY <2>1, <2>2
<1> QED BY <1>1, <1>2, PTL DEF ImportSpec

-----------------------------------------------------------------------------
(* What the commands promise.                                              *)

\* The rows of r.db and shell.db have the columns a session writes and ids below the
\* AUTOINCREMENT counter (SqliteBackedHistory, export_to_file), and every process is in
\* one of the phases of handle_history_import or export_history, whatever has failed.
THEOREM ImportTypeCorrect == ImportSpec => []ImportTypeOK
<1>1. ImportInv => ImportTypeOK
  <2> SUFFICES ASSUME ImportInv PROVE ImportTypeOK OBVIOUS
  <2>1. DatabaseTypes /\ JobTypes /\ FileTypes /\ failures \in 0..MaxFailures /\ source \in Sources
    BY DEF ImportInv
  <2>2. nextId \in [Targets -> Nat] BY <2>1 DEF DatabaseTypes
  <2>3. \A t \in Targets : \A i \in DOMAIN history[t] : history[t][i] \in SavedRow
    BY <2>1, TableIs DEF DatabaseTypes, AllTables
  <2>4. \A j \in Jobs : /\ job[j].phase \in ImportPhases \cup ExportPhases \cup {"killed"}
                        /\ job[j].todo \in Seq(Entry) /\ job[j].counts \in Counts
    BY <2>1 DEF JobTypes, JobType
  <2> QED BY <2>1, <2>2, <2>3, <2>4 DEF ImportTypeOK, DatabaseTypes, FileTypes
<1> QED BY <1>1, ImportInvariant, PTL

\* However many exports run to the same path, whatever of them fails (export_history) and
\* whichever process is killed: the path has no file, or one with every table of the
\* databases there are, filled, at least one of them.
THEOREM ExportIsWhole == ImportSpec => []OutputWhole
<1>1. ImportInv => OutputWhole BY DEF ImportInv, ExportInv
<1> QED BY <1>1, ImportInvariant, PTL

\* However much sessions and other imports have written since an import has read the
\* databases: save_imported and set_missing_fields_if_empty remove no row, change no value
\* that is there, and touch only rows that match the entry at hand now.
THEOREM ImportFillsGaps == ImportSpec => OnlyFillsGaps
<1> DEFINE Gaps ==
      \A j \in Jobs : history' # history /\ ImportStep(j) =>
       \A t \in Targets : \A id \in DOMAIN history[t] :
        /\ id \in DOMAIN history'[t]
        /\ \A c \in Columns : Has(history[t][id], c) =>
                                history'[t][id].value[c] = history[t][id].value[c]
        /\ history'[t][id] # history[t][id] =>
             LET e == Entry1(j) IN t = TargetOf(e) /\ id \in RowsMatching(history[t], e)
<1>1. ImportInv /\ [ImportNext]_importVars => [Gaps]_importVars BY GapsOnly DEF ImportInv
<1> QED BY <1>1, ImportInvariant, PTL DEF ImportSpec, OnlyFillsGaps

\* When an import has ended well, every entry of the file has its row, in the right database,
\* with all the entry tells, or several rows that match it: whatever was there, whatever was
\* written in the meantime and however many imports ran, unless a row was deleted. What an
\* import takes for a duplicate (plan_entry) or finds repaired already
\* (set_missing_fields_if_empty) from its copy of the table is one in the table.
THEOREM SourceIsImported == ImportSpec => []SourceComplete
<1>1. ImportInv => SourceComplete
  <2> SUFFICES ASSUME ImportInv, NEW j \in Jobs, EndedWell(j), ~deleted, NEW i \in DOMAIN source
               PROVE  Told(history[TargetOf(SourceEntry(j, i))], SourceEntry(j, i))
    BY DEF SourceComplete, Told, Importable, SourceEntry
  <2>1. DoneBy(j) BY DEF ImportInv, SourceInv
  <2> QED BY <2>1 DEF DoneBy, EndedWell
<1> QED BY <1>1, ImportInvariant, PTL

\* An import that begins when another of the same file has ended well inserts nothing, with
\* or without --hostname, for any file and any databases: DedupSet finds a row for each
\* entry, and mark_repaired loses none.
THEOREM ReimportIsSafe == ImportSpec => []ReimportInsertsNothing
<1>1. ImportInv => ReimportInsertsNothing
  BY DEF ImportInv, SourceInv, SeenBy, ReimportInsertsNothing
<1> QED BY <1>1, ImportInvariant, PTL

-----------------------------------------------------------------------------
(* A dry run, entry by entry.                                              *)

Dry == [known : AllTables, counts : Counts]
Counters == {"imported", "repaired", "duplicates", "skipped"}

LEMMA DryStepIs ==
  ASSUME NEW acc \in Dry, NEW e \in Entry, NEW dedup,
         NEW plan, plan = Plan(acc.known, dedup, e)
  PROVE  /\ CountOf(plan) \in Counters
         /\ DryStep(acc, e, dedup) \in Dry
         /\ DryStep(acc, e, dedup).counts = Add(acc.counts, CountOf(plan))
         /\ plan.do = "repair" => DryStep(acc, e, dedup).known = MarkRepaired(acc.known, plan.id, e)
         /\ plan.do # "repair" => DryStep(acc, e, dedup).known = acc.known
<1>1. acc.known \in AllTables /\ acc.counts \in Counts BY DEF Dry
<1>2. plan.do \in {"insert", "repair", "duplicate", "skip"} BY PlanIs
<1>3. CountOf(plan) \in Counters BY <1>2 DEF CountOf, Counters
<1>4. Add(acc.counts, CountOf(plan)) \in Counts BY <1>1, <1>3, CountType DEF Counters
<1>5. DryStep(acc, e, dedup)
        = [known |-> IF plan.do = "repair" THEN MarkRepaired(acc.known, plan.id, e) ELSE acc.known,
           counts |-> Add(acc.counts, CountOf(plan))]
  BY DEF DryStep
<1>6. plan.do = "repair" => MarkRepaired(acc.known, plan.id, e) \in AllTables
  <2> SUFFICES ASSUME plan.do = "repair" PROVE MarkRepaired(acc.known, plan.id, e) \in AllTables
    OBVIOUS
  <2>1. plan.id \in RowsMatching(acc.known[TargetOf(e)], e) BY PlanIs
  <2>2. PICK id : id = plan.id OBVIOUS
  <2>3. id \in DOMAIN acc.known[TargetOf(e)] BY <2>1, <2>2 DEF RowsMatching
  <2>4. MarkRepaired(acc.known, id, e) \in AllTables BY <1>1, <2>3, MarkedIs
  <2> QED BY <2>2, <2>4
<1> QED BY <1>1, <1>3, <1>4, <1>5, <1>6 DEF Dry

\* What a dry run has come to after each entry
Dries(a, given, known, dedup) ==
  /\ a[0] = [known |-> known, counts |-> NoCounts]
  /\ \A n \in 1..Len(given) : a[n] = DryStep(a[n - 1], given[n], dedup)
  /\ \A n \in 0..Len(given) : a[n] \in Dry

LEMMA DryRunIs ==
  ASSUME NEW given \in Seq(Entry), NEW known \in AllTables, NEW dedup
  PROVE  \E a : Dries(a, given, known, dedup) /\ DryRun(given, known, dedup) = a[Len(given)].counts
<1> DEFINE N == Len(given)  base == [known |-> known, counts |-> NoCounts]
           g == [x \in Dry \X Entry |-> DryStep(x[1], x[2], dedup)]
           Rule(h, s) == IF s = {} THEN base ELSE DryStep(h[s \ {Max(s)}], given[Max(s)], dedup)
           Is(h) == h = [s \in SUBSET (1..N) |-> Rule(h, s)]
<1>1. N \in Nat /\ given \in [1..N -> Entry] /\ DOMAIN given = 1..N OBVIOUS
<1>2. g \in [Dry \X Entry -> Dry]
  <2>1. \A acc \in Dry, e \in Entry : DryStep(acc, e, dedup) \in Dry BY DryStepIs
  <2> QED BY <2>1
<1>3. base \in Dry BY DEF Dry, NoCounts, Counts
<1>4. \A acc \in Dry, e \in Entry : g[<<acc, e>>] = DryStep(acc, e, dedup) OBVIOUS
<1>5. DryRun(given, known, dedup) = (CHOOSE h : h = [s \in SUBSET DOMAIN given |-> Rule(h, s)])[DOMAIN given].counts
  BY DEF DryRun, FoldLeft, MapThenFoldSet
<1>6. DryRun(given, known, dedup) = (CHOOSE h : Is(h))[1..N].counts BY <1>1, <1>5
<1> HIDE DEF g, base, N
<1>7. PICK e \in [SUBSET (1..N) -> Dry] : Folded(e, N, base, given, g)
  BY <1>1, <1>2, <1>3, FoldExists
<1>8. ASSUME NEW s \in SUBSET (1..N), s # {} PROVE Max(s) \in s
  <2>1. s \in SUBSET (0..N) BY <1>1
  <2> QED BY <1>1, <1>8, <2>1, GreatestUpTo
<1>9. Is(e)
  <2>1. ASSUME NEW s \in SUBSET (1..N) PROVE e[s] = Rule(e, s)
    <3>1. CASE s = {} BY <1>7, <3>1 DEF Folded
    <3>2. CASE s # {}
      <4>1. Max(s) \in 1..N BY <1>8, <3>2
      <4>2. given[Max(s)] \in Entry /\ s \ {Max(s)} \in SUBSET (1..N) BY <1>1, <4>1
      <4>3. e[s] = g[<<e[s \ {Max(s)}], given[Max(s)]>>] BY <1>7, <3>2 DEF Folded
      <4> QED BY <1>4, <1>7, <3>2, <4>2, <4>3
    <3> QED BY <3>1, <3>2
  <2> HIDE DEF Rule
  <2> QED BY <1>7, <2>1
<1> HIDE DEF Is
<1> DEFINE h == CHOOSE h : Is(h)
<1>10. Is(h) BY <1>9
<1> HIDE DEF h
<1>11. \A s \in SUBSET (1..N) : h[s] = Rule(h, s) BY <1>10 DEF Is
<1>12. ASSUME NEW n \in 1..N PROVE h[1..n] = DryStep(h[1..n - 1], given[n], dedup)
  <2>0. N \in Nat /\ n \in Nat /\ 1 <= n /\ n <= N BY <1>1
  <2>1. 1..n \in SUBSET (1..N) /\ n \in 1..n /\ 1..n \in SUBSET (0..N) BY <2>0
  <2>2. Max(1..n) = n
    <3>1. Max(1..n) \in 1..n /\ \A m \in 1..n : m <= Max(1..n) BY <1>1, <2>1, GreatestUpTo
    <3>2. n \in 1..n /\ n \in Nat BY <1>1
    <3> QED BY <3>1, <3>2
  <2>3. (1..n) \ {n} = 1..n - 1 BY <1>1
  <2> QED BY <1>11, <2>1, <2>2, <2>3
<1>13. h[1..0] = base
  <2>1. 1..0 = {} /\ 1..0 \in SUBSET (1..N) OBVIOUS
  <2> QED BY <1>11, <2>1
<1> DEFINE S == {n \in Nat : h[1..n] \in Dry}
<1>14. 0..N \subseteq S
  <2>1. 0 \in S BY <1>3, <1>13
  <2>2. ASSUME NEW n \in 0..N - 1, n \in S PROVE n + 1 \in S
    <3>1. n + 1 \in 1..N /\ n + 1 - 1 = n /\ n + 1 \in Nat BY <1>1
    <3>2. h[1..n + 1] = DryStep(h[1..n], given[n + 1], dedup) BY <1>12, <3>1
    <3>3. given[n + 1] \in Entry BY <1>1, <3>1
    <3> QED BY <2>2, <3>1, <3>2, <3>3, DryStepIs
  <2> HIDE DEF S
  <2> QED BY <1>1, <2>1, <2>2, InductionUpTo
<1> DEFINE a == [n \in 0..N |-> h[1..n]]
<1>15. a[0] = base /\ a[N] = h[1..N] BY <1>1, <1>13
<1>16. \A n \in 1..N : a[n] = DryStep(a[n - 1], given[n], dedup)
  <2> SUFFICES ASSUME NEW n \in 1..N PROVE a[n] = DryStep(a[n - 1], given[n], dedup) OBVIOUS
  <2>1. n \in 0..N /\ n - 1 \in 0..N BY <1>1
  <2> QED BY <1>12, <2>1
<1>17. \A n \in 0..N : a[n] \in Dry BY <1>14
<1>18. DryRun(given, known, dedup) = a[N].counts BY <1>6, <1>15 DEF h
<1> HIDE DEF a
<1>19. Dries(a, given, known, dedup) BY <1>15, <1>16, <1>17 DEF Dries, base, N
<1> QED BY <1>18, <1>19 DEF N

\* A job has come as far as the dry run of given has after n entries.
Reached(a, given, n, of) ==
  /\ Len(of.todo) = Len(given) - n
  /\ \A m \in 1..Len(of.todo) : of.todo[m] = given[n + m]
  /\ a[n] = [known |-> of.known, counts |-> of.counts]

\* What is left of a dry run is what is left of the import.
Follows(j) ==
  \E given \in Seq(Entry), known \in AllTables : \E a :
    /\ Dries(a, given, known, job[j].dedup) /\ predicted[j] = a[Len(given)].counts
    /\ \E n \in 0..Len(given) : Reached(a, given, n, job[j])

\* Nobody else has written what has been read.
Fresh(table, row) == \A id \in DOMAIN table : id \in DOMAIN row /\ row[id] = table[id]

Foreseen(j) ==
  predicted[j] # NULL /\ ~job[j].failed =>
    /\ job[j].phase \in {"opened", "read"} => job[j].counts = NoCounts
    /\ job[j].phase = "read" => job[j].known["r"] = history["r"]
    /\ job[j].phase = "importing" =>
         Follows(j) /\ \A t \in Targets : Fresh(job[j].known[t], history[t])
    /\ job[j].phase = "imported" => job[j].counts = predicted[j]

ForeseenInv == predicted = [j \in Jobs |-> predicted[j]] /\ \A j \in Jobs : Foreseen(j)

\* One entry more, in the dry run and in the import.
LEMMA FollowsOn ==
  ASSUME JobTypes, NEW j \in Jobs, NEW what, AtEntry(j, what), Follows(j),
         predicted'[j] = predicted[j],
         job'[j].dedup = job[j].dedup, job'[j].todo = Tail(job[j].todo),
         job'[j].counts = Add(job[j].counts, CountOf(PlanOf(j))),
         IF what = "repair" THEN job'[j].known = MarkRepaired(job[j].known, PlanOf(j).id, Entry1(j))
         ELSE job'[j].known = job[j].known
  PROVE  Follows(j)'
<1> DEFINE todo == job[j].todo  e == Entry1(j)  dedup == job[j].dedup
<1>1. /\ e \in Entry /\ todo \in Seq(Entry) /\ todo # <<>> /\ PlanOf(j).do = what
      /\ job[j].known \in AllTables /\ job[j].counts \in Counts
  BY EntryAtHand DEF JobType
<1>0. PICK given \in Seq(Entry), known \in AllTables :
        \E a : /\ Dries(a, given, known, dedup) /\ predicted[j] = a[Len(given)].counts
               /\ \E n \in 0..Len(given) : Reached(a, given, n, job[j])
  BY DEF Follows
<1>2. PICK a : /\ Dries(a, given, known, dedup) /\ predicted[j] = a[Len(given)].counts
               /\ \E n \in 0..Len(given) : Reached(a, given, n, job[j])
  BY <1>0
<1>3. PICK n \in 0..Len(given) :
             /\ Len(todo) = Len(given) - n
             /\ \A m \in 1..Len(todo) : todo[m] = given[n + m]
             /\ a[n] = [known |-> job[j].known, counts |-> job[j].counts]
  BY <1>2 DEF Reached
<1>4. /\ Len(todo) \in Nat \ {0} /\ Len(Tail(todo)) = Len(todo) - 1 /\ e = todo[1]
      /\ \A m \in 1..Len(todo) - 1 : Tail(todo)[m] = todo[m + 1]
  BY <1>1 DEF Entry1
<1>5. Len(given) \in Nat OBVIOUS
<1> HIDE DEF todo, e
<1>6. /\ n + 1 \in 1..Len(given) /\ n + 1 \in 0..Len(given) /\ n + 1 - 1 = n /\ n \in Nat
      /\ 1 \in 1..Len(todo)
  BY <1>3, <1>4, <1>5
<1>7. given[n + 1] = e BY <1>3, <1>4, <1>6
<1>8. a[n + 1] = DryStep(a[n], e, dedup) BY <1>2, <1>6, <1>7 DEF Dries
<1>9. PICK plan : plan = PlanOf(j) OBVIOUS
<1>10. plan = Plan(a[n].known, dedup, e) /\ a[n] \in Dry
  BY <1>1, <1>3, <1>9 DEF PlanOf, e, Dry
<1>11. /\ a[n + 1] \in Dry /\ a[n + 1].counts = Add(a[n].counts, CountOf(plan))
       /\ plan.do = "repair" => a[n + 1].known = MarkRepaired(a[n].known, plan.id, e)
       /\ plan.do # "repair" => a[n + 1].known = a[n].known
  BY <1>1, <1>8, <1>10, DryStepIs
<1>12. a[n + 1].known = job'[j].known /\ a[n + 1].counts = job'[j].counts
  BY <1>1, <1>3, <1>9, <1>11 DEF e
<1>13. a[n + 1] = [known |-> job'[j].known, counts |-> job'[j].counts] BY <1>11, <1>12 DEF Dry
<1>14. Len(job'[j].todo) = Len(given) - (n + 1) BY <1>3, <1>4, <1>5, <1>6 DEF todo
<1>15. ASSUME NEW m \in 1..Len(job'[j].todo) PROVE job'[j].todo[m] = given[n + 1 + m]
  <2>1. m \in 1..Len(todo) - 1 /\ m + 1 \in 1..Len(todo) /\ n + (m + 1) = n + 1 + m
    BY <1>4, <1>6, <1>15 DEF todo
  <2>2. Tail(todo)[m] = todo[m + 1] /\ todo[m + 1] = given[n + (m + 1)] BY <1>3, <1>4, <2>1
  <2> QED BY <2>1, <2>2 DEF todo
<1>16. Dries(a, given, known, job'[j].dedup) /\ predicted'[j] = a[Len(given)].counts BY <1>2
<1>17. Reached(a, given, n + 1, job'[j]) BY <1>13, <1>14, <1>15 DEF Reached
<1>18. \E m \in 0..Len(given) : Reached(a, given, m, job'[j]) BY <1>6, <1>17
<1> QED BY <1>2, <1>16, <1>18 DEF Follows

\* A step of another process.
LEMMA ForeseenStays ==
  ASSUME NEW k \in Jobs, Foreseen(k), job'[k] = job[k],
         \/ predicted'[k] = NULL
         \/ predicted'[k] = predicted[k] /\ (history' = history \/ job[k].phase \notin Running)
  PROVE  Foreseen(k)'
<1>1. CASE predicted'[k] = NULL BY <1>1 DEF Foreseen
<1>2. CASE predicted'[k] = predicted[k] /\ job[k].phase \notin Running
  BY <1>2 DEF Foreseen, Running
<1>3. CASE predicted'[k] = predicted[k] /\ history' = history
  <2>1. Follows(k) => Follows(k)' BY <1>3 DEF Follows
  <2> QED BY <1>3, <2>1 DEF Foreseen
<1> QED BY <1>1, <1>2, <1>3

LEMMA Forgotten ==
  ASSUME NEW others, Disturbs(others)
  PROVE  /\ predicted' = [k \in Jobs |-> predicted'[k]]
         /\ \A k \in Jobs : predicted'[k] = IF k \in others /\ job[k].phase \in Running THEN NULL
                                            ELSE predicted[k]
BY DEF Disturbs

\* An entry counted that is not repaired; rows come, at most.
LEMMA ForeseenAtEntry ==
  ASSUME JobTypes, NEW j \in Jobs, NEW what, AtEntry(j, what), what # "repair", Foreseen(j),
         NEW class \in Counters, class = CountOf(PlanOf(j)), job'[j] = Counted(j, class),
         predicted'[j] = predicted[j],
         \A t \in Targets : \A id \in DOMAIN history[t] :
           id \in DOMAIN history'[t] /\ history'[t][id] = history[t][id]
  PROVE  Foreseen(j)'
<1>1. /\ job'[j].phase = "importing" /\ job'[j].todo = Tail(job[j].todo)
      /\ job'[j].dedup = job[j].dedup /\ job'[j].known = job[j].known
      /\ job'[j].failed = job[j].failed /\ job'[j].counts = Add(job[j].counts, class)
  BY CountedType DEF Counters
<1>2. job[j].phase = "importing" BY DEF AtEntry
<1> SUFFICES ASSUME predicted'[j] # NULL, ~job'[j].failed
             PROVE  Follows(j)' /\ \A t \in Targets : Fresh(job'[j].known[t], history'[t])
  BY <1>1 DEF Foreseen
<1>3. Follows(j) /\ \A t \in Targets : Fresh(job[j].known[t], history[t])
  BY <1>1, <1>2 DEF Foreseen
<1>4. Follows(j)' BY <1>1, <1>3, FollowsOn
<1>5. \A t \in Targets : Fresh(job'[j].known[t], history'[t]) BY <1>1, <1>3 DEF Fresh
<1> QED BY <1>4, <1>5

LEMMA InsertForeseen ==
  ASSUME DatabaseTypes, JobTypes, NEW j \in Jobs, Foreseen(j), Insert(j)
  PROVE  Foreseen(j)'
<1>1. AtEntry(j, "insert") /\ Set(j, Counted(j, "imported")) /\ Disturbs(Jobs \ {j})
  BY DEF Insert
<1>2. PlanOf(j).do = "insert" BY <1>1, EntryAtHand
<1>3. CountOf(PlanOf(j)) = "imported" BY <1>2 DEF CountOf
<1>4. job'[j] = Counted(j, "imported") BY <1>1 DEF Set, JobTypes
<1>5. predicted'[j] = predicted[j] BY <1>1, Forgotten
<1>6. \A u \in Targets : \A i \in DOMAIN history[u] :
        i \in DOMAIN history'[u] /\ history'[u][i] = history[u][i]
  BY InsertDoes
<1>7. "imported" \in Counters BY DEF Counters
<1> QED BY <1>1, <1>3, <1>4, <1>5, <1>6, <1>7, ForeseenAtEntry

LEMMA PassOverForeseen ==
  ASSUME DatabaseTypes, JobTypes, NEW j \in Jobs, Foreseen(j), PassOver(j)
  PROVE  Foreseen(j)'
<1>1. UNCHANGED <<history, predicted>> BY DEF PassOver, databaseVars
<1>2. CASE AtEntry(j, "duplicate") /\ Set(j, Counted(j, "duplicates"))
  <2>1. PlanOf(j).do = "duplicate" BY <1>2, EntryAtHand
  <2>2. CountOf(PlanOf(j)) = "duplicates" /\ "duplicates" \in Counters
    BY <2>1 DEF CountOf, Counters
  <2>3. job'[j] = Counted(j, "duplicates") BY <1>2 DEF Set, JobTypes
  <2> QED BY <1>1, <1>2, <2>2, <2>3, ForeseenAtEntry
<1>3. CASE AtEntry(j, "skip") /\ Set(j, Counted(j, "skipped"))
  <2>1. PlanOf(j).do = "skip" BY <1>3, EntryAtHand
  <2>2. CountOf(PlanOf(j)) = "skipped" /\ "skipped" \in Counters
    BY <2>1 DEF CountOf, Counters
  <2>3. job'[j] = Counted(j, "skipped") BY <1>3 DEF Set, JobTypes
  <2> QED BY <1>1, <1>3, <2>2, <2>3, ForeseenAtEntry
<1> QED BY <1>2, <1>3 DEF PassOver

\* Where nobody has written, the row that is to be repaired is as it was read.
LEMMA RepairForeseen ==
  ASSUME DatabaseTypes, JobTypes, NEW j \in Jobs, Foreseen(j), Repair(j)
  PROVE  Foreseen(j)'
<1> DEFINE e  == Entry1(j)
           t  == TargetOf(e)
           id == PlanOf(j).id
           known == job[j].known
<1>1. AtEntry(j, "repair") BY DEF Repair
<1>2. e \in Entry /\ t \in Targets /\ PlanOf(j).do = "repair" /\ known \in AllTables
      /\ job[j].phase = "importing"
  BY <1>1, EntryAtHand
<1>3. id \in RowsMatching(known[t], e) /\ NeedsRepair(known[t][id], e)
  <2>1. Plan(known, job[j].dedup, e).do = "repair" BY <1>2 DEF PlanOf
  <2> QED BY <2>1, PlanIs DEF PlanOf
<1>4. /\ id \in DOMAIN known[t] /\ known[t][id].command = e.command
      /\ e.time \in {NULL, known[t][id].time}
  BY <1>3 DEF RowsMatching
<1>5. job'[j].failed = job[j].failed /\ job'[j].phase = "importing"
  <2>1. \/ job' = [job EXCEPT ![j] = [Counted(j, "repaired") EXCEPT !.known = MarkRepaired(@, id, e)]]
        \/ job' = [job EXCEPT ![j] = Counted(j, "duplicates")]
    BY RepairDoes
  <2>2. \/ job'[j] = [Counted(j, "repaired") EXCEPT !.known = MarkRepaired(@, id, e)]
        \/ job'[j] = Counted(j, "duplicates")
    BY <2>1 DEF JobTypes
  <2>3. /\ Counted(j, "repaired").failed = job[j].failed
        /\ Counted(j, "duplicates").failed = job[j].failed
        /\ Counted(j, "repaired").phase = "importing" /\ Counted(j, "duplicates").phase = "importing"
        /\ Counted(j, "repaired") \in JobType
    BY <1>1, CountedType
  <2> QED BY <2>2, <2>3 DEF JobType
<1>6. predicted'[j] = predicted[j]
  <2>1. Disturbs(Jobs \ {j}) \/ predicted' = predicted BY DEF Repair
  <2> QED BY <2>1, Forgotten
<1> SUFFICES ASSUME predicted[j] # NULL, ~job[j].failed
             PROVE  Follows(j)' /\ \A u \in Targets : Fresh(job'[j].known[u], history'[u])
  BY <1>5, <1>6 DEF Foreseen
<1>7. Follows(j) /\ \A u \in Targets : Fresh(known[u], history[u])
  BY <1>2 DEF Foreseen
<1>8. id \in DOMAIN history[t] /\ history[t][id] = known[t][id] BY <1>2, <1>4, <1>7 DEF Fresh
<1>9. Repairable(history[t], id, e) BY <1>3, <1>4, <1>8 DEF Repairable
<1>10. /\ Replaces(t, id, Filled(history[t][id], e))
       /\ job' = [job EXCEPT ![j] = [Counted(j, "repaired") EXCEPT !.known = MarkRepaired(@, id, e)]]
  BY <1>9, RepairDoes
<1> DEFINE marked == MarkRepaired(known, id, e)
<1>11. /\ job'[j].known = marked /\ job'[j].todo = Tail(job[j].todo)
       /\ job'[j].dedup = job[j].dedup /\ job'[j].counts = Add(job[j].counts, "repaired")
  <2>1. job'[j] = [Counted(j, "repaired") EXCEPT !.known = MarkRepaired(@, id, e)]
    BY <1>10 DEF JobTypes
  <2>2. /\ Counted(j, "repaired") \in JobType /\ Counted(j, "repaired").known = known
        /\ Counted(j, "repaired").todo = Tail(job[j].todo)
        /\ Counted(j, "repaired").dedup = job[j].dedup
        /\ Counted(j, "repaired").counts = Add(job[j].counts, "repaired")
    BY <1>1, CountedType
  <2> QED BY <2>1, <2>2 DEF JobType
<1>12. CountOf(PlanOf(j)) = "repaired" BY <1>2 DEF CountOf
<1>13. Follows(j)' BY <1>1, <1>6, <1>7, <1>11, <1>12, FollowsOn
<1>14. /\ \A u \in Targets : DOMAIN marked[u] = DOMAIN known[u]
       /\ marked[t][id] = Filled(known[t][id], e)
       /\ \A u \in Targets : \A i \in DOMAIN known[u] :
            u # t \/ i # id => marked[u][i] = known[u][i]
  <2>1. PICK i : i = id OBVIOUS
  <2>2. i \in DOMAIN known[t] BY <1>4, <2>1
  <2> HIDE DEF id, known, e
  <2> QED BY <1>2, <2>1, <2>2, MarkedIs
<1> HIDE DEF marked, known, id, e
<1>15. ASSUME NEW u \in Targets PROVE Fresh(marked[u], history'[u])
  <2> SUFFICES ASSUME NEW i \in DOMAIN marked[u]
               PROVE  i \in DOMAIN history'[u] /\ history'[u][i] = marked[u][i]
    BY DEF Fresh
  <2>1. i \in DOMAIN known[u] BY <1>14
  <2>2. i \in DOMAIN history[u] /\ history[u][i] = known[u][i] BY <1>7, <2>1 DEF Fresh
  <2>3. CASE u = t /\ i = id BY <1>8, <1>10, <1>14, <2>2, <2>3 DEF Replaces
  <2>4. CASE ~(u = t /\ i = id) BY <1>10, <1>14, <2>1, <2>2, <2>4 DEF Replaces
  <2> QED BY <2>3, <2>4
<1> QED BY <1>11, <1>13, <1>15

LEMMA BeginForeseen ==
  ASSUME JobTypes, NEW j \in Jobs, BeginImport(j)
  PROVE  Foreseen(j)'
<1>1. PICK o \in Options :
        Set(j, [Idle EXCEPT !.phase = "opened", !.dedup = o.dedup, !.override = o.override])
  BY DEF BeginImport
<1>2. Idle \in JobType /\ Idle.counts = NoCounts BY IdleType DEF Idle
<1> HIDE DEF Idle, NoCounts
<1>3. job'[j] = [Idle EXCEPT !.phase = "opened", !.dedup = o.dedup, !.override = o.override]
  BY <1>1 DEF Set, JobTypes
<1>4. job'[j].phase = "opened" /\ job'[j].counts = NoCounts BY <1>2, <1>3 DEF JobType
<1> QED BY <1>4 DEF Foreseen

LEMMA ReadForeseen ==
  ASSUME JobTypes, DatabaseTypes, NEW j \in Jobs, Foreseen(j), ReadRows(j)
  PROVE  Foreseen(j)'
<1>1. job[j] \in JobType /\ job[j].phase = "opened" /\ UNCHANGED <<history, predicted>>
  BY DEF JobTypes, ReadRows, databaseVars
<1>2. job'[j] = [job[j] EXCEPT !.phase = "read",
                               !.known = [job[j].known EXCEPT !["r"] = history["r"]]]
  BY DEF ReadRows, Set, JobTypes
<1>3. job[j].known \in [Targets -> Tables] BY <1>1 DEF JobType, AllTables
<1>4. [job[j].known EXCEPT !["r"] = history["r"]]["r"] = history["r"] BY <1>3 DEF Targets
<1>5. /\ job'[j].phase = "read" /\ job'[j].counts = job[j].counts
      /\ job'[j].failed = job[j].failed /\ job'[j].known["r"] = history["r"]
  BY <1>1, <1>2, <1>4 DEF JobType
<1> QED BY <1>1, <1>5 DEF Foreseen

\* A dry run would begin with the entries that are to do and the tables that are known now.
LEMMA ReadShellForeseen ==
  ASSUME JobTypes, DatabaseTypes, predicted = [k \in Jobs |-> predicted[k]],
         NEW j \in Jobs, Foreseen(j), ReadShellRows(j)
  PROVE  Foreseen(j)'
<1> DEFINE given == [i \in DOMAIN source |-> WithHostname(source[i], job[j].override)]
           known == [job[j].known EXCEPT !["shell"] = history["shell"]]
<1>1. job[j] \in JobType /\ job[j].phase = "read" /\ history' = history
  BY DEF JobTypes, ReadShellRows, databaseVars
<1>2. /\ Set(j, [job[j] EXCEPT !.phase = "importing", !.known = known, !.todo = given])
      /\ predicted' = [predicted EXCEPT ![j] =
                          IF @ = NULL THEN @ ELSE DryRun(given, known, job[j].dedup)]
  BY DEF ReadShellRows
<1>3. given \in Seq(Entry)
  <2>1. source \in [1..Len(source) -> Entry] /\ Len(source) \in Nat BY DEF DatabaseTypes
  <2>2. \A i \in 1..Len(source) : WithHostname(source[i], job[j].override) \in Entry
    BY <2>1, HostnameOnly
  <2>3. given \in [1..Len(source) -> Entry] BY <2>1, <2>2
  <2> QED BY <2>1, <2>3
<1>4. known \in AllTables /\ known["shell"] = history["shell"] /\ known["r"] = job[j].known["r"]
  <2>1. history["shell"] \in Tables BY DEF DatabaseTypes, AllTables, Targets
  <2> QED BY <1>1, <2>1 DEF JobType, AllTables, Targets
<1> HIDE DEF given, known
<1>5. job'[j] = [job[j] EXCEPT !.phase = "importing", !.known = known, !.todo = given]
  BY <1>2 DEF Set, JobTypes
<1>6. /\ job'[j].phase = "importing" /\ job'[j].known = known /\ job'[j].todo = given
      /\ job'[j].counts = job[j].counts /\ job'[j].failed = job[j].failed
      /\ job'[j].dedup = job[j].dedup
  BY <1>1, <1>5 DEF JobType
<1>7. predicted'[j] = IF predicted[j] = NULL THEN NULL ELSE DryRun(given, known, job[j].dedup)
  <2>1. j \in DOMAIN predicted OBVIOUS
  <2>2. predicted'[j] = [predicted EXCEPT ![j] = IF predicted[j] = NULL THEN predicted[j]
                                                 ELSE DryRun(given, known, job[j].dedup)][j]
    BY <1>2
  <2> QED BY <2>1, <2>2
<1> SUFFICES ASSUME predicted[j] # NULL, ~job[j].failed
             PROVE  Follows(j)' /\ \A t \in Targets : Fresh(job'[j].known[t], history'[t])
  BY <1>6, <1>7 DEF Foreseen
<1>8. job[j].counts = NoCounts /\ job[j].known["r"] = history["r"] BY <1>1 DEF Foreseen
<1>9. PICK a : Dries(a, given, known, job[j].dedup)
               /\ DryRun(given, known, job[j].dedup) = a[Len(given)].counts
  BY <1>3, <1>4, DryRunIs
<1>10. Reached(a, given, 0, job'[j])
  <2>1. a[0] = [known |-> job'[j].known, counts |-> job'[j].counts] BY <1>6, <1>8, <1>9 DEF Dries
  <2>2. Len(given) \in Nat BY <1>3
  <2> QED BY <1>6, <2>1, <2>2 DEF Reached
<1>11. \E n \in 0..Len(given) : Reached(a, given, n, job'[j])
  <2>1. 0 \in 0..Len(given) BY <1>3
  <2> QED BY <1>10, <2>1
<1>12. Follows(j)'
  <2>1. \E b : /\ Dries(b, given, known, job'[j].dedup) /\ predicted'[j] = b[Len(given)].counts
               /\ \E n \in 0..Len(given) : Reached(b, given, n, job'[j])
    BY <1>6, <1>7, <1>9, <1>11
  <2> QED BY <1>3, <1>4, <2>1 DEF Follows
<1>13. \A t \in Targets : Fresh(job'[j].known[t], history'[t])
  BY <1>1, <1>4, <1>6, <1>8 DEF Targets, Fresh
<1> QED BY <1>12, <1>13

LEMMA FinishForeseen ==
  ASSUME JobTypes, NEW j \in Jobs, Foreseen(j), Finish(j)
  PROVE  Foreseen(j)'
<1>1. job[j].phase = "importing" /\ job[j].todo = <<>> /\ predicted' = predicted BY DEF Finish
<1>2. Set(j, [Ended(j) EXCEPT !.phase = "imported"]) BY DEF Finish
<1>3. /\ job'[j].phase = "imported" /\ job'[j].counts = job[j].counts
      /\ job'[j].failed = job[j].failed
  <2>1. job'[j] = [Ended(j) EXCEPT !.phase = "imported"] BY <1>2 DEF Set, JobTypes
  <2> QED BY <2>1, EndedType
<1> SUFFICES ASSUME predicted[j] # NULL, ~job[j].failed
             PROVE  job[j].counts = predicted[j]
  BY <1>1, <1>3 DEF Foreseen
<1>4. Follows(j) BY <1>1 DEF Foreseen
<1>0. PICK given \in Seq(Entry) :
        \E a : /\ predicted[j] = a[Len(given)].counts
               /\ \E n \in 0..Len(given) : Reached(a, given, n, job[j])
  BY <1>4 DEF Follows
<1>5. PICK a : /\ predicted[j] = a[Len(given)].counts
               /\ \E n \in 0..Len(given) : Reached(a, given, n, job[j])
  BY <1>0
<1>6. PICK n \in 0..Len(given) : Reached(a, given, n, job[j]) BY <1>5
<1>7. Len(given) \in Nat /\ n = Len(given)
  <2>1. Len(given) - n = 0 /\ Len(given) \in Nat BY <1>1, <1>6 DEF Reached
  <2> QED BY <2>1
<1>8. a[Len(given)].counts = job[j].counts BY <1>6, <1>7 DEF Reached
<1> QED BY <1>5, <1>8

\* After these there is nothing to foresee.
LEMMA EndsForeseen ==
  ASSUME JobTypes, NEW j \in Jobs, Foreseen(j), StoreFails(j) \/ ExportStep(j) \/ Kill(j)
  PROVE  Foreseen(j)'
<1>1. job \in [Jobs -> JobType] /\ job[j] \in JobType BY DEF JobTypes
<1>2. CASE StoreFails(j)
  <2>1. PICK what \in Counters : /\ Set(j, [Counted(j, what) EXCEPT !.failed = TRUE])
                                 /\ \E a : AtEntry(j, a)
    BY <1>2 DEF StoreFails, Counters
  <2>2. Counted(j, what) \in JobType BY <2>1, CountedType DEF Counters
  <2>3. job'[j] = [Counted(j, what) EXCEPT !.failed = TRUE] BY <1>1, <2>1 DEF Set
  <2>4. job'[j].failed BY <2>2, <2>3 DEF JobType
  <2> QED BY <2>4 DEF Foreseen
<1>3. CASE BeginExport(j)
  <2>1. Idle \in JobType BY IdleType
  <2> HIDE DEF Idle
  <2>2. job'[j] = [Idle EXCEPT !.phase = "exporting"] BY <1>1, <1>3 DEF BeginExport, Set
  <2>3. job'[j].phase = "exporting" BY <2>1, <2>2 DEF JobType
  <2> QED BY <2>3 DEF Foreseen
<1>4. CASE CopyTable(j)
  <2>1. UNCHANGED <<job, history, predicted>> BY <1>4 DEF CopyTable, databaseVars
  <2> QED BY <2>1, ForeseenStays
<1>5. CASE Publish(j) \/ ExportFails(j)
  <2>1. PICK phase \in {"exported", "failed"} : job'[j] = [job[j] EXCEPT !.phase = phase]
    BY <1>1, <1>5 DEF Publish, ExportFails, Set
  <2>2. job'[j].phase = phase BY <1>1, <2>1 DEF JobType
  <2> QED BY <2>2 DEF Foreseen
<1>6. CASE Kill(j)
  <2>1. job'[j] = [Ended(j) EXCEPT !.phase = "killed"] BY <1>1, <1>6 DEF Kill, Set
  <2>2. job'[j].phase = "killed" BY <2>1, EndedType
  <2> QED BY <2>2 DEF Foreseen
<1> QED BY <1>2, <1>3, <1>4, <1>5, <1>6 DEF ExportStep

\* What a step makes of the other processes' predictions.
LEMMA OthersForeseen ==
  ASSUME predicted = [k \in Jobs |-> predicted[k]],
         NEW j \in Jobs, ImportStep(j) \/ ExportStep(j) \/ Kill(j)
  PROVE  /\ predicted' = [k \in Jobs |-> predicted'[k]]
         /\ \A k \in Jobs \ {j} :
              \/ predicted'[k] = NULL
              \/ predicted'[k] = predicted[k] /\ (history' = history \/ job[k].phase \notin Running)
<1>1. CASE Disturbs(Jobs \ {j}) BY <1>1, Forgotten
<1>2. CASE history' = history /\ \E x : predicted' = [predicted EXCEPT ![j] = x] BY <1>2
<1>3. CASE UNCHANGED <<history, predicted>> BY <1>3
<1>4. BeginImport(j) => history' = history /\ \E x : predicted' = [predicted EXCEPT ![j] = x]
  BY DEF BeginImport
<1>5. ReadShellRows(j) => history' = history /\ \E x : predicted' = [predicted EXCEPT ![j] = x]
  BY DEF ReadShellRows, databaseVars
<1>6. Insert(j) => Disturbs(Jobs \ {j}) BY DEF Insert
<1>7. Repair(j) => Disturbs(Jobs \ {j}) \/ UNCHANGED <<history, predicted>> BY DEF Repair
<1>8. ReadRows(j) \/ StoreFails(j) \/ PassOver(j) \/ Finish(j) \/ ExportStep(j) \/ Kill(j)
        => UNCHANGED <<history, predicted>>
  BY DEF ReadRows, StoreFails, PassOver, Finish, ExportStep, BeginExport, CopyTable, Publish,
     ExportFails, Kill, databaseVars
<1> QED BY <1>1, <1>2, <1>3, <1>4, <1>5, <1>6, <1>7, <1>8 DEF ImportStep

LEMMA ForeseenStep ==
  ASSUME DatabaseTypes, JobTypes, ForeseenInv, ImportNext
  PROVE  ForeseenInv'
<1>1. predicted = [k \in Jobs |-> predicted[k]] /\ \A k \in Jobs : Foreseen(k) BY DEF ForeseenInv
<1>2. ASSUME NEW j \in Jobs, ImportStep(j) \/ ExportStep(j) \/ Kill(j)
      PROVE  ForeseenInv'
  <2>1. Foreseen(j)'
    BY <1>1, <1>2, BeginForeseen, ReadForeseen, ReadShellForeseen, InsertForeseen,
       RepairForeseen, PassOverForeseen, FinishForeseen, EndsForeseen DEF ImportStep
  <2>2. \A k \in Jobs : k # j => job'[k] = job[k] BY <1>2, OthersStay
  <2>3. predicted' = [k \in Jobs |-> predicted'[k]] BY <1>1, <1>2, OthersForeseen
  <2>4. ASSUME NEW k \in Jobs, k # j PROVE Foreseen(k)'
    <3>1. \/ predicted'[k] = NULL
          \/ predicted'[k] = predicted[k] /\ (history' = history \/ job[k].phase \notin Running)
      BY <1>1, <1>2, <2>4, OthersForeseen
    <3> QED BY <1>1, <2>2, <2>4, <3>1, ForeseenStays
  <2>5. \A k \in Jobs : Foreseen(k)' BY <2>1, <2>4
  <2> QED BY <2>3, <2>5 DEF ForeseenInv
<1>3. ASSUME NEW t \in Targets, SessionSaves(t) \/ SessionUpdates(t) \/ SessionDeletes(t)
      PROVE  ForeseenInv'
  <2>1. Disturbs(Jobs) /\ job' = job
    BY <1>3 DEF SessionSaves, SessionUpdates, SessionDeletes, SessionWrites
  <2>2. /\ predicted' = [k \in Jobs |-> predicted'[k]]
        /\ \A k \in Jobs : predicted'[k] = IF job[k].phase \in Running THEN NULL ELSE predicted[k]
    BY <2>1, Forgotten
  <2>3. \A k \in Jobs : Foreseen(k)' BY <1>1, <2>1, <2>2, ForeseenStays
  <2> QED BY <2>2, <2>3 DEF ForeseenInv
<1> QED BY <1>2, <1>3 DEF ImportNext

LEMMA ForeseenInvariant == ImportSpec => []ForeseenInv
<1>1. ImportInit => ForeseenInv
  <2> SUFFICES ASSUME ImportInit PROVE ForeseenInv OBVIOUS
  <2>1. predicted = [k \in Jobs |-> NULL] BY DEF ImportInit
  <2> QED BY <2>1 DEF ForeseenInv, Foreseen
<1>2. ImportInv /\ ForeseenInv /\ [ImportNext]_importVars => ForeseenInv'
  <2> SUFFICES ASSUME ImportInv, ForeseenInv, [ImportNext]_importVars PROVE ForeseenInv' OBVIOUS
  <2>1. CASE ImportNext BY <2>1, ForeseenStep DEF ImportInv
  <2>2. CASE UNCHANGED importVars
    <3>1. UNCHANGED <<job, history, predicted>> BY <2>2 DEF importVars
    <3>2. \A k \in Jobs : Foreseen(k)' BY <3>1, ForeseenStays DEF ForeseenInv
    <3> QED BY <3>1, <3>2 DEF ForeseenInv
  <2> QED BY <2>1, <2>2
<1> QED BY <1>1, <1>2, ImportInvariant, PTL DEF ImportSpec

\* A dry run tells what the import would do: where nobody else writes, and the store does
\* not fail, import_entries_dry_run, which advances its copy of the tables by
\* mark_repaired, counts as import_entries does, which writes them.
THEOREM DryRunIsTrue == ImportSpec => []DryRunTells
<1>1. ForeseenInv => DryRunTells
  BY DEF ForeseenInv, Foreseen, DryRunTells, EndedWell
<1> QED BY <1>1, ForeseenInvariant, PTL

\* What an import reports can be relied on, whatever is written in the meantime: done again
\* it inserts nothing, a dry run told its counts, and the databases have what the file has.
THEOREM CountsAreTrue == ImportSpec => []CountsTellTruth
<1>1. ReimportInsertsNothing /\ DryRunTells /\ SourceComplete => CountsTellTruth
  BY DEF CountsTellTruth
<1> QED BY <1>1, ReimportIsSafe, DryRunIsTrue, SourceIsImported, PTL

-----------------------------------------------------------------------------
(* What goes over the connection of a client (IpcClient).                  *)

Characters == {"POST", "length", "crlf", "open", "x", "close"}
ClientRequests == [style : Styles, form : Forms, size : Nat]

LEMMA BodyIs ==
  ASSUME NEW r \in ClientRequests
  PROVE  /\ Body(r) \in Seq(Characters) /\ Len(Body(r)) = r.size + 2
         /\ \A i \in 1..Len(Body(r)) : Body(r)[i] \in {"open", "x", "close"}
         /\ Body(r)[1] = "open"
<1> DEFINE S == {"open", "x", "close"}
           a == <<"open">>
           x == [i \in 1..r.size |-> "x"]
           z == <<"close">>
<1>1. r.size \in Nat BY DEF ClientRequests
<1>2. x \in [1..r.size -> S] /\ DOMAIN x = 1..r.size OBVIOUS
<1>3. a \in Seq(S) /\ z \in Seq(S) /\ Len(a) = 1 /\ Len(z) = 1 /\ a[1] = "open" OBVIOUS
<1> HIDE DEF a, x, z
<1>4. x \in Seq(S) BY <1>1, <1>2, SeqDef
<1>5. Len(x) = r.size BY <1>1, <1>2, <1>4, LenProperties
<1>6. /\ a \o x \in Seq(S) /\ Len(a \o x) = 1 + r.size
      /\ \A i \in 1..(1 + r.size) : (a \o x)[i] = IF i <= 1 THEN a[i] ELSE x[i - 1]
  <2>1. /\ a \o x \in Seq(S) /\ Len(a \o x) = Len(a) + Len(x)
        /\ \A i \in 1..Len(a) + Len(x) :
             (a \o x)[i] = IF i <= Len(a) THEN a[i] ELSE x[i - Len(a)]
    BY <1>3, <1>4, ConcatProperties
  <2> QED BY <1>3, <1>5, <2>1
<1>7. (a \o x)[1] = "open"
  <2>1. 1 \in 1..(1 + r.size) BY <1>1
  <2> QED BY <1>3, <1>6, <2>1
<1> DEFINE ax == a \o x
<1> HIDE DEF ax
<1>8. /\ ax \o z \in Seq(S) /\ Len(ax \o z) = (1 + r.size) + 1
      /\ \A i \in 1..((1 + r.size) + 1) :
           (ax \o z)[i] = IF i <= 1 + r.size THEN ax[i] ELSE z[i - (1 + r.size)]
  <2>1. ax \in Seq(S) /\ Len(ax) = 1 + r.size BY <1>6 DEF ax
  <2>2. /\ ax \o z \in Seq(S) /\ Len(ax \o z) = Len(ax) + Len(z)
        /\ \A i \in 1..Len(ax) + Len(z) :
             (ax \o z)[i] = IF i <= Len(ax) THEN ax[i] ELSE z[i - Len(ax)]
    BY <1>3, <2>1, ConcatProperties
  <2> QED BY <1>3, <2>1, <2>2
<1>9. (ax \o z)[1] = "open"
  <2>1. 1 \in 1..((1 + r.size) + 1) /\ 1 <= 1 + r.size BY <1>1
  <2> QED BY <1>7, <1>8, <2>1 DEF ax
<1>10. Body(r) = ax \o z BY DEF Body, ax, a, x, z
<1> HIDE DEF S
<1>11. Body(r) \in Seq(S) /\ Len(Body(r)) = r.size + 2 /\ Body(r)[1] = "open"
  BY <1>1, <1>8, <1>9, <1>10
<1>12. S \subseteq Characters BY DEF S, Characters
<1>13. Body(r) \in Seq(Characters) BY <1>11, <1>12, SeqMonotonic
<1>14. \A i \in 1..Len(Body(r)) : Body(r)[i] \in S BY <1>11, ElementOfSeq
<1> QED BY <1>11, <1>13, <1>14 DEF S

\* extract_body finds the body of every complete request.
LEMMA BodyIsExtracted ==
  ASSUME NEW r \in ClientRequests
  PROVE  Pieces(r) \in Seq(Characters) /\ extract_body(Pieces(r)) = Body(r)
<1> DEFINE p == Pieces(r)
           b == Body(r)
<1>1. /\ b \in Seq(Characters) /\ Len(b) \in Nat \ {0} /\ b[1] = "open" /\ Len(b) = r.size + 2
      /\ \A i \in 1..Len(b) : b[i] \in {"open", "x", "close"}
  BY BodyIs DEF ClientRequests
<1> HIDE DEF b
<1>2. ASSUME NEW n \in {2, 3}, NEW h \in Seq(Characters), Len(h) = n + 1, h[1] = "POST",
             h[n] = "crlf", h[n + 1] = "crlf", h[n - 1] # "crlf", p = h \o b
      PROVE  p \in Seq(Characters) /\ extract_body(p) = b
  <2>1. /\ p \in Seq(Characters) /\ Len(p) = n + 1 + Len(b)
        /\ \A i \in 1..(n + 1) : p[i] = h[i]
        /\ \A i \in (n + 2)..Len(p) : p[i] = b[i - (n + 1)] /\ i - (n + 1) \in 1..Len(b)
    <3>1. /\ h \o b \in Seq(Characters) /\ Len(h \o b) = Len(h) + Len(b)
          /\ \A i \in 1..(Len(h) + Len(b)) : (h \o b)[i] = IF i <= Len(h) THEN h[i] ELSE b[i - Len(h)]
      BY <1>1, ConcatProperties
    <3> QED BY <1>1, <1>2, <3>1
  <2>2. \A i \in (n + 2)..Len(p) : p[i] # "crlf" BY <1>1, <2>1
  <2> HIDE DEF p
  <2>3. IsHttp(p)
    <3>1. p # <<>> /\ Head(p) = p[1] BY <1>1, <2>1
    <3> QED BY <1>2, <2>1, <3>1 DEF IsHttp
  <2>4. n \in find_http_header_end(p) BY <1>1, <1>2, <2>1, <2>3 DEF find_http_header_end
  <2>5. ASSUME NEW i \in find_http_header_end(p) PROVE i = n
    <3>1. i \in 1..(Len(p) - 1) /\ p[i] = "crlf" /\ p[i + 1] = "crlf" BY DEF find_http_header_end
    <3>2. i + 1 \notin (n + 2)..Len(p) BY <2>2, <3>1
    <3>3. i \in 1..n BY <1>1, <2>1, <3>1, <3>2
    <3>4. i # 1 BY <1>2, <2>1, <3>1
    <3>5. i # n - 1 \/ n = 2 BY <1>2, <2>1, <3>1
    <3> QED BY <3>3, <3>4, <3>5
  <2>6. find_http_header_end(p) = {n} BY <2>4, <2>5
  <2>7. extract_body(p) = SubSeq(p, n + 2, Len(p)) BY <2>6 DEF extract_body
  <2>8. SubSeq(p, n + 2, Len(p)) = b
    <3>1. /\ SubSeq(p, n + 2, Len(p)) \in Seq(Characters)
          /\ Len(SubSeq(p, n + 2, Len(p))) = Len(b)
          /\ \A i \in 1..Len(b) : SubSeq(p, n + 2, Len(p))[i] = p[n + 1 + i]
      <4>1. n + 2 \in Int /\ Len(p) \in Int /\ n + 2 <= Len(p) BY <1>1, <2>1
      <4>2. \A i \in (n + 2)..Len(p) : p[i] \in Characters BY <2>1
      <4>3. /\ SubSeq(p, n + 2, Len(p)) \in Seq(Characters)
            /\ Len(SubSeq(p, n + 2, Len(p)))
                 = IF n + 2 <= Len(p) THEN Len(p) - (n + 2) + 1 ELSE 0
            /\ \A i \in 1..(Len(p) - (n + 2) + 1) :
                 SubSeq(p, n + 2, Len(p))[i] = p[n + 2 + i - 1]
        BY <4>1, <4>2, SubSeqProperties
      <4> QED BY <1>1, <2>1, <4>1, <4>3
    <3>2. \A i \in 1..Len(b) : p[n + 1 + i] = b[i]
      <4> SUFFICES ASSUME NEW i \in 1..Len(b) PROVE p[n + 1 + i] = b[i] OBVIOUS
      <4>1. n + 1 + i \in (n + 2)..Len(p) /\ (n + 1 + i) - (n + 1) = i BY <1>1, <2>1
      <4> QED BY <2>1, <4>1
    <3> QED BY <1>1, <3>1, <3>2, SeqEqual
  <2> QED BY <2>1, <2>7, <2>8
<1>3. CASE r.style = "http"
  <2> DEFINE h == <<"POST", "length", "crlf", "crlf">>
  <2>1. /\ h \in Seq(Characters) /\ Len(h) = 4 /\ h[1] = "POST" /\ h[3] = "crlf"
        /\ h[4] = "crlf" /\ h[2] = "length"
    BY DEF Characters
  <2>2. p = h \o b BY <1>3 DEF Pieces, b
  <2> HIDE DEF h, p
  <2>3. Len(h) = 3 + 1 /\ h[3 + 1] = "crlf" /\ h[3 - 1] # "crlf" BY <2>1
  <2> QED BY <1>2, <2>1, <2>2, <2>3 DEF b, p
<1>4. CASE r.style = "no_length"
  <2> DEFINE h == <<"POST", "crlf", "crlf">>
  <2>1. /\ h \in Seq(Characters) /\ Len(h) = 3 /\ h[1] = "POST" /\ h[2] = "crlf"
        /\ h[3] = "crlf"
    BY DEF Characters
  <2>2. p = h \o b BY <1>4 DEF Pieces, b
  <2> HIDE DEF h, p
  <2> QED BY <1>2, <2>1, <2>2 DEF b, p
<1>5. CASE r.style = "raw"
  <2>1. p = b BY <1>5 DEF Pieces, b
  <2>2. ~IsHttp(b)
    <3>1. Head(b) = b[1] BY <1>1
    <3> QED BY <1>1, <3>1 DEF IsHttp
  <2>3. find_http_header_end(b) = {} BY <2>2 DEF find_http_header_end
  <2>4. extract_body(b) = b BY <2>3 DEF extract_body
  <2> QED BY <1>1, <2>1, <2>4 DEF b
<1> QED BY <1>3, <1>4, <1>5 DEF ClientRequests, Styles

LEMMA BareBodyIsExtracted ==
  ASSUME NEW r \in ClientRequests
  PROVE  extract_body(Body(r)) = Body(r)
<1>1. [r EXCEPT !.style = "raw"] \in ClientRequests BY DEF ClientRequests, Styles
<1>2. Body([r EXCEPT !.style = "raw"]) = Body(r) BY DEF ClientRequests, Body
<1>3. Pieces([r EXCEPT !.style = "raw"]) = Body(r) BY <1>1, <1>2 DEF Pieces, ClientRequests
<1> QED BY <1>1, <1>2, <1>3, BodyIsExtracted

LEMMA SplitIs ==
  ASSUME NEW s \in Seq(Characters), NEW n \in 1..Len(s)
  PROVE  /\ SubSeq(s, 1, n) \in Seq(Characters) /\ SubSeq(s, n + 1, Len(s)) \in Seq(Characters)
         /\ SubSeq(s, 1, n) \o SubSeq(s, n + 1, Len(s)) = s
<1>1. Len(s) \in Nat /\ \A i \in 1..Len(s) : s[i] \in Characters OBVIOUS
<1>2. SubSeq(s, 1, n) \in Seq(Characters)
  BY <1>1, SubSeqProperties
<1>3. SubSeq(s, n + 1, Len(s)) \in Seq(Characters)
  BY <1>1, SubSeqProperties
<1>4. SubSeq(s, 1, n) \o SubSeq(s, n + 1, Len(s)) = SubSeq(s, 1, Len(s))
  BY <1>1, ConcatAdjacentSubSeq
<1>5. SubSeq(s, 1, Len(s)) = s BY SubSeqFull
<1> QED BY <1>2, <1>3, <1>4, <1>5

\* Whoever has got as much of a stream as there is has got all of it.
LEMMA AllOfIt ==
  ASSUME NEW a \in Seq(Characters), NEW b \in Seq(Characters), NEW c \in Seq(Characters),
         Len(a) >= Len(a \o (b \o c))
  PROVE  a = a \o (b \o c)
<1>1. b \o c \in Seq(Characters) BY ConcatProperties
<1>2. Len(a \o (b \o c)) = Len(a) + Len(b \o c) /\ Len(a) \in Nat /\ Len(b \o c) \in Nat
  BY <1>1, ConcatProperties
<1>3. b \o c = <<>> BY <1>1, <1>2
<1> QED BY <1>3, ConcatEmptySeq

\* A piece of u goes to the end of w.
LEMMA PieceMoves ==
  ASSUME NEW w \in Seq(Characters), NEW u \in Seq(Characters), NEW n \in 1..Len(u)
  PROVE  LET a == SubSeq(u, 1, n)
             b == SubSeq(u, n + 1, Len(u))
         IN /\ w \o a \in Seq(Characters) /\ b \in Seq(Characters)
            /\ (w \o a) \o b = w \o u
<1> DEFINE a == SubSeq(u, 1, n)
           b == SubSeq(u, n + 1, Len(u))
<1>1. a \in Seq(Characters) /\ b \in Seq(Characters) /\ a \o b = u BY SplitIs
<1> HIDE DEF a, b
<1>2. w \o a \in Seq(Characters) BY <1>1
<1>3. a \in Seq(Characters) /\ b \in Seq(Characters) BY <1>1
<1>4. (w \o a) \o b = w \o (a \o b) BY <1>3, ConcatAssociative, SMTT(30)
<1> QED BY <1>1, <1>2, <1>4 DEF a, b

-----------------------------------------------------------------------------
(* The client and the task of its connection.                              *)

ServerErrors == {"INCOMPLETE_INPUT", "INTERNAL_ERROR", "METHOD_NOT_FOUND", "R_NOT_AT_PROMPT",
                 "INVALID_PARAMS", "R_BUSY", "INVALID_REQUEST", "PARSE_ERROR"}
Answers == {NoResponse, Result} \cup {Refused(e) : e \in ServerErrors}
IsParsed == Parses(extract_body(kRead))

ClientTypes ==
  /\ kCommand.verb \in Verbs /\ kRequest \in ClientRequests
  /\ kCommand.limit # <<>> => kCommand.verb = "eval" /\ kCommand.limit[1] \in TimeLimits
  /\ kStage \in {"start", "resolve", "explain", "code", "write", "wait", "done"}
  /\ kServer \in {"none", "reading", "parse", "too_large", "waiting", "writing", "half", "closed"}
  /\ kUnsent \in Seq(Characters) /\ kWire \in Seq(Characters) /\ kRead \in Seq(Characters)
  /\ kAnswer \in Answers

\* The request is on its way, in three parts.
Connected ==
  /\ kRead \o (kWire \o kUnsent) = Pieces(kRequest)
  /\ kServer = "none" => kUnsent = Pieces(kRequest)
  /\ kServer # "none" => kCommand.verb # "list"
  /\ kStage \in {"start", "resolve", "explain", "code"} => kServer = "none"
  /\ kStage \in {"write", "wait"} => kServer # "none"
  /\ kStage \notin {"start", "done"} => kCommand.verb # "list"
  /\ kStage \in {"code", "write", "wait"} => kCommand.pid \in {AnyPid, kTarget}
  /\ kStage = "wait" => kUnsent = <<>>

\* What the server has made of it: a whole request is never taken for a broken one.
Unless(done) == kRequest.form = "no_json" \/ (done /\ kUnsent # <<>>)
Answered ==
  /\ kAnswer # NoResponse => kServer \in {"writing", "half", "closed"}
  /\ kServer \in {"writing", "half"} \/ kGot # <<>> \/ kBack # <<>> => kAnswer # NoResponse
  /\ kAnswer = Result \/ kServer = "waiting" => IsParsed
  /\ kServer = "parse" => IsParsed \/ Unless(kStage = "done")
  /\ kAnswer.error = "PARSE_ERROR" => Unless(kStage = "done")

\* What the exit code tells stays true, as the server's end comes to rest first.
Exited ==
  /\ kStage # "done" => kExit = NotYet
  /\ kExit.code = 0 => \/ kCommand.verb = "list"
                       \/ /\ kServer = "closed" /\ kAnswer = Result
                          /\ kCommand.pid \in {AnyPid, kTarget}
  /\ kExit.code = 3 \/ kExit.error \in {"NO_CODE_PROVIDED", "STDIN_READ_ERROR"} => kServer = "none"
  /\ kExit.code = 4 /\ kExit.error # "PROTOCOL_ERROR" =>
       kServer = "closed" /\ kAnswer.error = kExit.error

ClientInv == ClientTypes /\ Connected /\ Answered /\ Exited

LEMMA AnswersDiffer ==
  /\ Result # NoResponse
  /\ \A e \in ServerErrors : /\ Refused(e) # NoResponse /\ Refused(e) # Result
                             /\ Refused(e).error = e /\ Refused(e).result = FALSE
  /\ Result.error = "none" /\ NoResponse.error = "none"
  /\ Result.result = TRUE /\ NoResponse.result = FALSE
BY DEF Result, NoResponse, Refused, ServerErrors

LEMMA SameRequest ==
  ASSUME UNCHANGED <<kRead, kRequest>>
  PROVE  IsParsed' <=> IsParsed
BY DEF IsParsed, Parses, extract_body, find_http_header_end, IsHttp

LEMMA EndsDoes ==
  ASSUME NEW exit, Ends(exit)
  PROVE  /\ kStage' = "done" /\ (exit # Success => kExit' = exit)
         /\ kExit' = exit \/ kExit' = [code |-> 2, error |-> "OUTPUT_ERROR"]
BY DEF Ends, EXIT_CLIENT

\* The process ends without an answer of the server; nothing else changes.
LEMMA EndsAlone ==
  ASSUME ClientInv, NEW exit, Ends(exit), kStage # "done",
         UNCHANGED <<kCommand, kRequest, kUnsent, kWire, kBack, kGot, kRead, kServer, kAnswer>>,
         kTarget' = kTarget,
         \/ exit = Success /\ kCommand.verb = "list"
         \/ exit.code = 2 /\ exit.error \notin {"NO_CODE_PROVIDED", "STDIN_READ_ERROR"}
         \/ exit.code = 2 /\ kServer = "none"
         \/ exit.code = 3 /\ kServer = "none"
         \/ exit.code = 4 /\ exit.error = "PROTOCOL_ERROR"
  PROVE  ClientInv'
<1>1. kStage' = "done" /\ (kExit' = exit \/ kExit' = [code |-> 2, error |-> "OUTPUT_ERROR"])
  BY EndsDoes
<1>2. ClientTypes' BY <1>1 DEF ClientInv, ClientTypes
<1>3. Connected' BY <1>1 DEF ClientInv, Connected
<1>4. Answered' BY <1>1, SameRequest DEF ClientInv, Answered, Unless
<1>5. Exited' BY <1>1 DEF ClientInv, Exited, Success
<1> QED BY <1>2, <1>3, <1>4, <1>5 DEF ClientInv

\* The client goes on, before there is a connection.
LEMMA GoesOn ==
  ASSUME ClientInv, kServer = "none", kStage # "done", kStage' \in {"resolve", "explain", "code"},
         kCommand.verb # "list",
         kStage' = "code" => kCommand.pid \in {AnyPid, kTarget'},
         UNCHANGED <<kCommand, kRequest, kUnsent, kWire, kBack, kGot, kRead, kServer, kAnswer, kExit>>
  PROVE  ClientInv'
<1>1. ClientTypes' BY DEF ClientInv, ClientTypes
<1>2. Connected' BY DEF ClientInv, Connected
<1>3. Answered' BY SameRequest DEF ClientInv, Answered, Unless
<1>4. Exited' BY DEF ClientInv, Exited
<1> QED BY <1>1, <1>2, <1>3, <1>4 DEF ClientInv

LEMMA StartKeeps ==
  ASSUME ClientInv, Start
  PROVE  ClientInv'
<1>1. kStage = "start" /\ kServer = "none" BY DEF Start, ClientInv, Connected
<1>2. UNCHANGED <<kCommand, kTarget, kRequest, kUnsent, kWire, kBack, kGot, kRead, kServer,
                  kAnswer>>
  BY DEF Start, wireVars, serverVars
<1>3. CASE kCommand.verb = "list" /\ Ends(Success) BY <1>1, <1>2, <1>3, EndsAlone
<1>4. CASE Ends(EXIT_CLIENT("NO_CODE_PROVIDED"))
  <2>1. EXIT_CLIENT("NO_CODE_PROVIDED").code = 2 BY DEF EXIT_CLIENT
  <2> QED BY <1>1, <1>2, <1>4, <2>1, EndsAlone
<1>5. CASE kCommand.verb # "list" /\ kStage' = "resolve" /\ UNCHANGED kExit
  BY <1>1, <1>2, <1>5, GoesOn
<1> QED BY <1>3, <1>4, <1>5 DEF Start

LEMMA ResolveKeeps ==
  ASSUME ClientInv, Resolve
  PROVE  ClientInv'
<1> DEFINE found == find_session(kCommand.pid, kAlive)
<1>1. kStage = "resolve" /\ kServer = "none" /\ kCommand.verb # "list"
  BY DEF Resolve, ClientInv, Connected
<1>2. UNCHANGED <<kCommand, kRequest, kUnsent, kWire, kBack, kGot, kRead, kServer, kAnswer>>
  BY DEF Resolve, wireVars, serverVars
<1>3. CASE kTarget' \in found /\ kStage' = "code" /\ UNCHANGED kExit
  <2>1. kCommand.pid \in {AnyPid, kTarget'} BY <1>3 DEF find_session
  <2> QED BY <1>1, <1>2, <1>3, <2>1, GoesOn
<1>4. CASE UNCHANGED kTarget /\ Ends(EXIT_SESSION("SESSION_NOT_FOUND"))
  <2>1. EXIT_SESSION("SESSION_NOT_FOUND").code = 3 BY DEF EXIT_SESSION
  <2> QED BY <1>1, <1>2, <1>4, <2>1, EndsAlone
<1>5. CASE kStage' = "explain" /\ UNCHANGED <<kTarget, kExit>> BY <1>1, <1>2, <1>5, GoesOn
<1> QED BY <1>3, <1>4, <1>5 DEF Resolve

LEMMA ExplainKeeps ==
  ASSUME ClientInv, Explain
  PROVE  ClientInv'
<1>1. kStage = "explain" /\ kServer = "none" BY DEF Explain, ClientInv, Connected
<1>2. UNCHANGED <<kCommand, kTarget, kRequest, kUnsent, kWire, kBack, kGot, kRead, kServer,
                  kAnswer>>
  BY DEF Explain, wireVars, serverVars
<1>3. PICK e : Ends(EXIT_SESSION(e)) BY DEF Explain
<1>4. EXIT_SESSION(e).code = 3 BY DEF EXIT_SESSION
<1> QED BY <1>1, <1>2, <1>3, <1>4, EndsAlone

LEMMA ReadCodeKeeps ==
  ASSUME ClientInv, ReadCode
  PROVE  ClientInv'
<1>1. kStage = "code" /\ kServer = "none" BY DEF ReadCode, ClientInv, Connected
<1>2. UNCHANGED <<kCommand, kTarget, kRequest, kUnsent, kWire, kBack, kGot, kRead, kAnswer>>
  BY DEF ReadCode, wireVars
<1>3. ASSUME NEW e, Ends(EXIT_CLIENT(e)), UNCHANGED kServer PROVE ClientInv'
  <2>1. EXIT_CLIENT(e).code = 2 BY DEF EXIT_CLIENT
  <2> QED BY <1>1, <1>2, <1>3, <2>1, EndsAlone
<1>4. CASE kStage' = "write" /\ kServer' = "reading" /\ UNCHANGED kExit
  <2>1. ClientTypes' BY <1>2, <1>4 DEF ClientInv, ClientTypes
  <2>2. Connected' BY <1>1, <1>2, <1>4 DEF ClientInv, Connected
  <2>3. Answered' BY <1>1, <1>2, <1>4, SameRequest DEF ClientInv, Answered, Unless
  <2>4. Exited' BY <1>1, <1>2, <1>4 DEF ClientInv, Exited, NotYet
  <2> QED BY <2>1, <2>2, <2>3, <2>4 DEF ClientInv
<1> QED BY <1>3, <1>4 DEF ReadCode

LEMMA WriteKeeps ==
  ASSUME ClientInv, Write
  PROVE  ClientInv'
<1>1. kStage = "write" /\ kServer # "none" BY DEF Write, ClientInv, Connected
<1>2. UNCHANGED <<kCommand, kTarget, kRequest, kBack, kGot, kRead, kServer, kAnswer>>
  BY DEF Write, serverVars
<1>3. CASE Ends(EXIT_CLIENT("TRANSPORT_ERROR")) /\ UNCHANGED <<kUnsent, kWire>>
  <2>1. EXIT_CLIENT("TRANSPORT_ERROR").code = 2 /\ EXIT_CLIENT("TRANSPORT_ERROR").error
          = "TRANSPORT_ERROR"
    BY DEF EXIT_CLIENT
  <2> QED BY <1>1, <1>2, <1>3, <2>1, EndsAlone
<1>4. ASSUME NEW n \in 1..Len(kUnsent), kWire' = kWire \o SubSeq(kUnsent, 1, n),
             kUnsent' = SubSeq(kUnsent, n + 1, Len(kUnsent)), UNCHANGED <<kStage, kExit>>
      PROVE  ClientInv'
  <2>1. kUnsent \in Seq(Characters) /\ kWire \in Seq(Characters) /\ kRead \in Seq(Characters)
    BY DEF ClientInv, ClientTypes
  <2>2. /\ kWire' \in Seq(Characters) /\ kUnsent' \in Seq(Characters)
        /\ kWire' \o kUnsent' = kWire \o kUnsent
    BY <1>4, <2>1, PieceMoves
  <2>3. ClientTypes' BY <1>2, <1>4, <2>2 DEF ClientInv, ClientTypes
  <2>4. Connected' BY <1>1, <1>2, <1>4, <2>2 DEF ClientInv, Connected
  <2>5. Answered' BY <1>1, <1>2, <1>4, SameRequest DEF ClientInv, Answered, Unless
  <2>6. Exited' BY <1>1, <1>2, <1>4 DEF ClientInv, Exited, NotYet
  <2> QED BY <2>3, <2>4, <2>5, <2>6 DEF ClientInv
<1>5. CASE kUnsent = <<>> /\ kStage' = "wait" /\ UNCHANGED <<kExit, kUnsent, kWire>>
  <2>1. ClientTypes' BY <1>2, <1>5 DEF ClientInv, ClientTypes
  <2>2. Connected' BY <1>1, <1>2, <1>5 DEF ClientInv, Connected
  <2>3. Answered' BY <1>1, <1>2, <1>5, SameRequest DEF ClientInv, Answered, Unless
  <2>4. Exited' BY <1>1, <1>2, <1>5 DEF ClientInv, Exited, NotYet
  <2> QED BY <2>1, <2>2, <2>3, <2>4 DEF ClientInv
<1> QED BY <1>3, <1>4, <1>5 DEF Write

\* What the client makes of what it has got is the server's answer.
LEMMA GotIsAnswer ==
  \/ parse_http_response(kGot) = EXIT_PROTOCOL("PROTOCOL_ERROR")
  \/ kGot # <<>> /\ parse_http_response(kGot) = handle_response(kAnswer)
<1>1. CASE kGot = <<>>
  <2>1. {i \in 1..Len(kGot) : kGot[i] = "blank"} = {} BY <1>1
  <2>2. kGot # <<"open", "close">> BY <1>1
  <2> QED BY <2>1, <2>2 DEF parse_http_response
<1>2. CASE kGot # <<>> BY <1>2 DEF parse_http_response
<1> QED BY <1>1, <1>2

LEMMA AnswerIsHandled ==
  ASSUME kAnswer \in Answers, kAnswer # NoResponse
  PROVE  \/ kAnswer = Result /\ handle_response(kAnswer) = Success
         \/ /\ handle_response(kAnswer) = [code |-> 4, error |-> kAnswer.error]
            /\ kAnswer.error \in ServerErrors
<1>1. CASE kAnswer = Result
  BY <1>1, AnswersDiffer DEF handle_response
<1>2. CASE kAnswer # Result
  <2>1. PICK e \in ServerErrors : kAnswer = Refused(e) BY <1>2 DEF Answers
  <2>2. kAnswer.error = e BY <2>1, AnswersDiffer
  <2>3. rpc_error_info(e) = e /\ e # "none" BY DEF rpc_error_info, ServerErrors
  <2>4. handle_response(kAnswer) = EXIT_PROTOCOL(e) BY <2>2, <2>3 DEF handle_response
  <2> QED BY <2>2, <2>4 DEF EXIT_PROTOCOL
<1> QED BY <1>1, <1>2

LEMMA ReceiveKeeps ==
  ASSUME ClientInv, Receive
  PROVE  ClientInv'
<1>1. kStage = "wait" /\ kServer # "none" /\ kCommand.pid \in {AnyPid, kTarget}
  BY DEF Receive, ClientInv, Connected
<1>2. UNCHANGED <<kCommand, kTarget, kRequest, kUnsent, kWire, kRead, kServer, kAnswer>>
  BY DEF Receive, serverVars
<1>3. CASE kBack # <<>> /\ UNCHANGED <<kStage, kExit>>
  <2>1. kAnswer # NoResponse BY <1>3 DEF ClientInv, Answered
  <2>2. ClientTypes' BY <1>2, <1>3 DEF ClientInv, ClientTypes
  <2>3. Connected' BY <1>2, <1>3 DEF ClientInv, Connected
  <2>4. Answered' BY <1>2, <1>3, <2>1, SameRequest DEF ClientInv, Answered, Unless
  <2>5. Exited' BY <1>1, <1>2, <1>3 DEF ClientInv, Exited
  <2> QED BY <2>2, <2>3, <2>4, <2>5 DEF ClientInv
<1>4. ASSUME UNCHANGED <<kGot, kBack>>, NEW e, Ends(EXIT_CLIENT(e)),
             e \notin {"NO_CODE_PROVIDED", "STDIN_READ_ERROR"}
      PROVE  ClientInv'
  <2>1. EXIT_CLIENT(e).code = 2 /\ EXIT_CLIENT(e).error = e BY DEF EXIT_CLIENT
  <2> QED BY <1>1, <1>2, <1>4, <2>1, EndsAlone
<1>5. CASE /\ UNCHANGED <<kGot, kBack>> /\ kServer = "closed" /\ Ends(parse_http_response(kGot))
  <2>1. CASE parse_http_response(kGot) = EXIT_PROTOCOL("PROTOCOL_ERROR")
    <3>1. EXIT_PROTOCOL("PROTOCOL_ERROR").code = 4
          /\ EXIT_PROTOCOL("PROTOCOL_ERROR").error = "PROTOCOL_ERROR"
      BY DEF EXIT_PROTOCOL
    <3> QED BY <1>1, <1>2, <1>5, <2>1, <3>1, EndsAlone
  <2>2. CASE kGot # <<>> /\ parse_http_response(kGot) = handle_response(kAnswer)
    <3>1. kAnswer \in Answers /\ kAnswer # NoResponse
      BY <2>2 DEF ClientInv, ClientTypes, Answered
    <3>2. kStage' = "done" /\ \/ kExit' = handle_response(kAnswer)
                              \/ kExit' = [code |-> 2, error |-> "OUTPUT_ERROR"]
      BY <1>5, <2>2, EndsDoes
    <3>3. \/ kAnswer = Result /\ kExit' = Success
          \/ /\ kExit' = [code |-> 4, error |-> kAnswer.error] /\ kAnswer.error \in ServerErrors
          \/ kExit' = [code |-> 2, error |-> "OUTPUT_ERROR"]
      BY <3>1, <3>2, AnswerIsHandled
    <3>4. ClientTypes' BY <1>2, <3>2 DEF ClientInv, ClientTypes
    <3>5. Connected' BY <1>2, <3>2 DEF ClientInv, Connected
    <3>6. Answered'
      <4>1. kStage # "done" BY <1>1
      <4> QED BY <1>2, <1>5, <3>2, <4>1, SameRequest DEF ClientInv, Answered, Unless
    <3>7. Exited' BY <1>1, <1>2, <1>5, <3>2, <3>3 DEF Exited, Success, ServerErrors
    <3> QED BY <3>4, <3>5, <3>6, <3>7 DEF ClientInv
  <2> QED BY <2>1, <2>2, GotIsAnswer
<1>6. \/ kBack # <<>> /\ UNCHANGED <<kStage, kExit>>
      \/ /\ kServer = "closed" /\ UNCHANGED <<kGot, kBack>>
         /\ Ends(EXIT_CLIENT("TRANSPORT_ERROR")) \/ Ends(parse_http_response(kGot))
      \/ Ends(EXIT_CLIENT("READ_TIMED_OUT")) /\ UNCHANGED <<kGot, kBack>>
  BY DEF Receive
<1> QED BY <1>3, <1>4, <1>5, <1>6

\* What the server's end does before it answers.
LEMMA ServerGoesOn ==
  ASSUME ClientInv, kServer \notin {"none", "closed"}, kAnswer = NoResponse,
         kServer' \in {"reading", "parse", "too_large", "waiting", "closed"},
         kRead' \in Seq(Characters), kWire' \in Seq(Characters),
         kRead' \o (kWire' \o kUnsent) = kRead \o (kWire \o kUnsent),
         kServer' = "waiting" => IsParsed', kServer' = "parse" => IsParsed' \/ Unless(kStage = "done"),
         UNCHANGED <<kCommand, kTarget, kStage, kExit, kRequest, kUnsent, kAnswer, kBack, kGot>>
  PROVE  ClientInv'
<1>1. ClientTypes' BY DEF ClientInv, ClientTypes
<1>2. Connected' BY DEF ClientInv, Connected
<1>3. Answered' BY AnswersDiffer DEF ClientInv, Answered, Unless
<1>4. Exited' BY DEF ClientInv, Exited
<1> QED BY <1>1, <1>2, <1>3, <1>4 DEF ClientInv

LEMMA ServerAnswers ==
  ASSUME ClientInv, kServer \in {"parse", "too_large", "waiting"}, NEW a \in Answers \ {NoResponse},
         Respond(a), a = Result => IsParsed,
         a.error = "PARSE_ERROR" => Unless(kStage = "done"),
         UNCHANGED <<kCommand, kTarget, kStage, kExit, kRequest, kUnsent, kWire, kRead, kBack, kGot>>
  PROVE  ClientInv'
<1>1. kAnswer' = a /\ kServer' = "writing" BY DEF Respond
<1>2. ClientTypes' BY <1>1 DEF ClientInv, ClientTypes
<1>3. Connected' BY <1>1 DEF ClientInv, Connected
<1>4. Answered' BY <1>1, SameRequest DEF Answered, Unless
<1>5. Exited' BY <1>1 DEF ClientInv, Exited
<1> QED BY <1>2, <1>3, <1>4, <1>5 DEF ClientInv

LEMMA PieceRead ==
  ASSUME ClientTypes, kServer = "reading", NEW n \in 1..Len(kWire),
         kRead' = kRead \o SubSeq(kWire, 1, n), kWire' = SubSeq(kWire, n + 1, Len(kWire))
  PROVE  /\ kRead' \in Seq(Characters) /\ kWire' \in Seq(Characters)
         /\ kRead' \o (kWire' \o kUnsent) = kRead \o (kWire \o kUnsent)
<1>1. kRead \in Seq(Characters) /\ kWire \in Seq(Characters) /\ kUnsent \in Seq(Characters)
  BY DEF ClientTypes
<1>2. /\ kRead' \in Seq(Characters) /\ kWire' \in Seq(Characters)
      /\ kRead' \o kWire' = kRead \o kWire
  BY <1>1, PieceMoves
<1> DEFINE r == kRead'
           w == kWire'
<1>3. r \in Seq(Characters) /\ w \in Seq(Characters) BY <1>2
<1> HIDE DEF r, w
<1>4. (r \o w) \o kUnsent = r \o (w \o kUnsent) BY <1>1, <1>3, ConcatAssociative, SMTT(30)
<1>5. (kRead \o kWire) \o kUnsent = kRead \o (kWire \o kUnsent)
  BY <1>1, ConcatAssociative, SMTT(30)
<1>6. r \o w = kRead \o kWire BY <1>2 DEF r, w
<1>7. r \o (w \o kUnsent) = kRead \o (kWire \o kUnsent) BY <1>4, <1>5, <1>6
<1> QED BY <1>2, <1>7 DEF r, w

\* The whole of a request is parsed, and nothing that is not.
LEMMA WholeIsParsed ==
  ASSUME kRequest \in ClientRequests, NEW buf,
         buf = Pieces(kRequest) \/ buf = Body(kRequest), kRequest.form # "no_json"
  PROVE  Parses(extract_body(buf))
BY BodyIsExtracted, BareBodyIsExtracted DEF Parses

LEMMA ReadSomeKeeps ==
  ASSUME ClientInv, ReadSome
  PROVE  ClientInv'
<1>1. kServer = "reading" /\ kServer' = AfterRead(kRead')
      /\ UNCHANGED <<kCommand, kTarget, kStage, kExit, kRequest, kUnsent, kAnswer, kBack, kGot>>
  BY DEF ReadSome, endVars
<1>2. PICK n \in 1..Len(kWire) : /\ kRead' = kRead \o SubSeq(kWire, 1, n)
                                /\ kWire' = SubSeq(kWire, n + 1, Len(kWire))
  <2>1. Len(kWire) \in Nat /\ ReadSize \in Nat BY ClientAssumption DEF ClientInv, ClientTypes
  <2>2. PICK n \in 1..(IF Len(kWire) < ReadSize THEN Len(kWire) ELSE ReadSize) :
          kRead' = kRead \o SubSeq(kWire, 1, n) /\ kWire' = SubSeq(kWire, n + 1, Len(kWire))
    BY DEF ReadSome
  <2>3. n \in 1..Len(kWire) BY <2>1
  <2> QED BY <2>2, <2>3
<1>3. /\ kRead' \in Seq(Characters) /\ kWire' \in Seq(Characters)
      /\ kRead' \o (kWire' \o kUnsent) = kRead \o (kWire \o kUnsent)
  BY <1>1, <1>2, PieceRead DEF ClientInv
<1>4. kAnswer = NoResponse BY <1>1 DEF ClientInv, Answered
<1>5. kServer' \in {"reading", "parse", "too_large"} BY <1>1 DEF AfterRead
<1>6. ASSUME kServer' = "parse" PROVE IsParsed' \/ kRequest.form = "no_json"
  <2> SUFFICES ASSUME kRequest.form # "no_json" PROVE IsParsed' OBVIOUS
  <2>1. kRequest \in ClientRequests /\ kUnsent \in Seq(Characters) BY DEF ClientInv, ClientTypes
  <2>2. kRead' = Pieces(kRequest) \/ Parses(kRead')
    <3>1. Len(kRead') >= Len(Pieces(kRequest)) \/ Parses(kRead') BY <1>1, <1>6 DEF AfterRead
    <3>2. Pieces(kRequest) = kRead' \o (kWire' \o kUnsent)
      BY <1>3 DEF ClientInv, Connected
    <3>3. CASE Len(kRead') >= Len(Pieces(kRequest))
      <4> DEFINE r == kRead'
                 w == kWire'
      <4>1. r \in Seq(Characters) /\ w \in Seq(Characters) BY <1>3
      <4>2. Len(r) >= Len(r \o (w \o kUnsent)) BY <3>2, <3>3
      <4> HIDE DEF r, w
      <4>3. r = r \o (w \o kUnsent) BY <2>1, <4>1, <4>2, AllOfIt
      <4> QED BY <3>2, <4>3 DEF r, w
    <3> QED BY <3>1, <3>3
  <2>3. kRead' = Pieces(kRequest) \/ kRead' = Body(kRequest) BY <2>2 DEF Parses
  <2>4. Parses(extract_body(kRead')) BY <2>1, <2>3, WholeIsParsed
  <2>5. kRequest' = kRequest BY <1>1
  <2> QED BY <2>4, <2>5 DEF IsParsed, Parses
<1> QED BY <1>1, <1>3, <1>4, <1>5, <1>6, ServerGoesOn DEF Unless

LEMMA ReadEofKeeps ==
  ASSUME ClientInv, ReadEof
  PROVE  ClientInv'
<1>1. /\ kServer = "reading" /\ kWire = <<>> /\ kServer' \in {"closed", "parse"}
      /\ UNCHANGED <<kCommand, kTarget, kStage, kExit, kRequest, kUnsent, kAnswer, kBack, kGot,
                     kRead, kWire>>
      /\ kStage \in {"wait", "done"}
  BY DEF ReadEof, endVars, wireVars, Shut
<1>2. kAnswer = NoResponse BY <1>1 DEF ClientInv, Answered
<1>3. kRead \in Seq(Characters) /\ kWire \in Seq(Characters) /\ kRequest \in ClientRequests
  BY DEF ClientInv, ClientTypes
<1>4. IsParsed' \/ Unless(kStage = "done")
  <2> SUFFICES ASSUME kRequest.form # "no_json", kUnsent = <<>> PROVE IsParsed'
    BY <1>1 DEF Unless, ClientInv, Connected
  <2>1. kRead = Pieces(kRequest)
    <3>1. kRead \o (<<>> \o <<>>) = Pieces(kRequest) BY <1>1 DEF ClientInv, Connected
    <3>2. <<>> \in Seq(Characters) OBVIOUS
    <3>3. <<>> \o <<>> = <<>> BY <3>2, ConcatEmptySeq
    <3>4. kRead \o <<>> = kRead BY <1>3, ConcatEmptySeq
    <3> QED BY <3>1, <3>3, <3>4
  <2>2. IsParsed BY <1>3, <2>1, WholeIsParsed DEF IsParsed
  <2> QED BY <1>1, <2>2, SameRequest
<1> QED BY <1>1, <1>2, <1>3, <1>4, ServerGoesOn

LEMMA RejectKeeps ==
  ASSUME ClientInv, Reject
  PROVE  ClientInv'
<1>1. /\ kServer \in {"parse", "too_large"}
      /\ UNCHANGED <<kCommand, kTarget, kStage, kExit, kRequest, kUnsent, kBack, kGot, kRead, kWire>>
  BY DEF Reject, endVars, wireVars
<1>2. kRead \in Seq(Characters) /\ kWire \in Seq(Characters) BY DEF ClientInv, ClientTypes
<1>3. CASE Respond(Refused("INVALID_REQUEST"))
  <2>1. Refused("INVALID_REQUEST") \in Answers \ {NoResponse}
        /\ Refused("INVALID_REQUEST") # Result
        /\ Refused("INVALID_REQUEST").error # "PARSE_ERROR"
    BY AnswersDiffer DEF Answers, ServerErrors
  <2> QED BY <1>1, <1>3, <2>1, ServerAnswers
<1>4. CASE kServer = "parse" /\ ~IsParsed /\ Respond(Refused("PARSE_ERROR"))
  <2>1. Refused("PARSE_ERROR") \in Answers \ {NoResponse} /\ Refused("PARSE_ERROR") # Result
    BY AnswersDiffer DEF Answers, ServerErrors
  <2>2. Unless(kStage = "done") BY <1>4 DEF ClientInv, Answered
  <2> QED BY <1>1, <1>4, <2>1, <2>2, ServerAnswers
<1>5. CASE kServer = "parse" /\ kServer' = "closed" /\ UNCHANGED kAnswer
  <2>1. kAnswer = NoResponse BY <1>5 DEF ClientInv, Answered
  <2> QED BY <1>1, <1>2, <1>5, <2>1, ServerGoesOn
<1> QED BY <1>3, <1>4, <1>5 DEF Reject, IsParsed

LEMMA DispatchKeeps ==
  ASSUME ClientInv, Dispatch
  PROVE  ClientInv'
<1>1. /\ kServer = "parse" /\ IsParsed
      /\ UNCHANGED <<kCommand, kTarget, kStage, kExit, kRequest, kUnsent, kBack, kGot, kRead, kWire>>
  BY DEF Dispatch, Dispatched, endVars, wireVars, IsParsed
<1>2. kRead \in Seq(Characters) /\ kWire \in Seq(Characters) BY DEF ClientInv, ClientTypes
<1>3. CASE Respond(Result)
  <2>1. Result \in Answers \ {NoResponse} /\ Result.error # "PARSE_ERROR"
    BY AnswersDiffer DEF Answers
  <2> QED BY <1>1, <1>3, <2>1, ServerAnswers
<1>4. ASSUME NEW e \in ServerErrors \ {"PARSE_ERROR"}, Respond(Refused(e)) PROVE ClientInv'
  <2>1. Refused(e) \in Answers \ {NoResponse} /\ Refused(e) # Result
        /\ Refused(e).error # "PARSE_ERROR"
    BY AnswersDiffer DEF Answers
  <2> QED BY <1>1, <1>4, <2>1, ServerAnswers
<1>5. CASE kServer' = "waiting" /\ UNCHANGED kAnswer
  <2>1. kAnswer = NoResponse BY <1>1 DEF ClientInv, Answered
  <2>2. IsParsed' BY <1>1, SameRequest
  <2> QED BY <1>1, <1>2, <1>5, <2>1, <2>2, ServerGoesOn
<1>6. \/ Respond(Result)
      \/ \E e \in ServerErrors \ {"PARSE_ERROR"} : Respond(Refused(e))
      \/ kServer' = "waiting" /\ UNCHANGED kAnswer
  BY DEF Dispatch, ServerErrors, incomplete_input_response
<1> QED BY <1>3, <1>4, <1>5, <1>6

LEMMA ReplyKeeps ==
  ASSUME ClientInv, Reply
  PROVE  ClientInv'
<1>1. /\ kServer = "waiting"
      /\ UNCHANGED <<kCommand, kTarget, kStage, kExit, kRequest, kUnsent, kBack, kGot, kRead, kWire>>
  BY DEF Reply, endVars, wireVars
<1>2. IsParsed BY <1>1 DEF ClientInv, Answered
<1>3. PICK a \in {Result, Refused("R_BUSY"), Refused("INTERNAL_ERROR")} : Respond(a)
  BY DEF Reply, session_fallback_response
<1>4. a \in Answers \ {NoResponse} /\ a.error # "PARSE_ERROR"
  BY <1>3, AnswersDiffer DEF Answers, ServerErrors
<1> QED BY <1>1, <1>2, <1>3, <1>4, ServerAnswers

LEMMA WriteBackKeeps ==
  ASSUME ClientInv, WriteBack
  PROVE  ClientInv'
<1>1. /\ kServer \in {"writing", "half"} /\ kServer' \in {"half", "closed"}
      /\ UNCHANGED <<kCommand, kTarget, kStage, kExit, kRequest, kUnsent, kGot, kRead, kWire, kAnswer>>
  BY DEF WriteBack, endVars
<1>2. kAnswer # NoResponse BY <1>1 DEF ClientInv, Answered
<1>3. ClientTypes' BY <1>1 DEF ClientInv, ClientTypes
<1>4. Connected' BY <1>1 DEF ClientInv, Connected
<1>5. Answered' BY <1>1, <1>2, SameRequest DEF ClientInv, Answered, Unless
<1>6. Exited' BY <1>1 DEF ClientInv, Exited
<1> QED BY <1>3, <1>4, <1>5, <1>6 DEF ClientInv

LEMMA WorldKeeps ==
  ASSUME ClientInv, SessionsChange \/ Killed \/ Tick
  PROVE  ClientInv'
<1>1. UNCHANGED <<kCommand, kTarget, kRequest, kUnsent, kWire, kBack, kGot, kRead, kAnswer>>
  BY DEF SessionsChange, Killed, Tick, wireVars, endVars, serverVars
<1>2. CASE /\ kStage # "done" /\ UNCHANGED <<kStage, kExit>>
           /\ kServer' = kServer \/ (kServer # "none" /\ kServer' = "closed")
  <2>1. ClientTypes' BY <1>1, <1>2 DEF ClientInv, ClientTypes
  <2>2. Connected' BY <1>1, <1>2 DEF ClientInv, Connected
  <2>3. Answered' BY <1>1, <1>2, SameRequest DEF ClientInv, Answered, Unless
  <2>4. Exited' BY <1>1, <1>2 DEF ClientInv, Exited, NotYet
  <2> QED BY <2>1, <2>2, <2>3, <2>4 DEF ClientInv
<1>3. CASE Killed
  <2>1. kStage \in {"write", "wait"} /\ kStage' = "done" /\ UNCHANGED kServer
        /\ kExit' = [code |-> 1, error |-> "killed"]
    BY <1>3 DEF Killed, serverVars
  <2>2. ClientTypes' BY <1>1, <2>1 DEF ClientInv, ClientTypes
  <2>3. Connected' BY <1>1, <2>1 DEF ClientInv, Connected
  <2>4. Answered' BY <1>1, <2>1, SameRequest DEF ClientInv, Answered, Unless
  <2>5. Exited' BY <1>1, <2>1 DEF Exited
  <2> QED BY <2>2, <2>3, <2>4, <2>5 DEF ClientInv
<1>4. SessionsChange => /\ kStage # "done" /\ UNCHANGED <<kStage, kExit>>
                        /\ kServer' = kServer \/ (kServer # "none" /\ kServer' = "closed")
  BY DEF SessionsChange
<1>5. Tick => kStage # "done" /\ UNCHANGED <<kStage, kExit>> /\ kServer' = kServer
  BY DEF Tick, endVars, serverVars
<1> QED BY <1>2, <1>3, <1>4, <1>5

LEMMA ClientBegins == ClientInit => ClientInv
<1> SUFFICES ASSUME ClientInit PROVE ClientInv OBVIOUS
<1>1. /\ kStage = "start" /\ kTarget = AnyPid /\ kExit = NotYet
      /\ kUnsent = Pieces(kRequest) /\ kWire = <<>> /\ kBack = <<>> /\ kGot = <<>>
      /\ kRead = <<>> /\ kServer = "none" /\ kAnswer = NoResponse
  BY DEF ClientInit, ConnectionUnused
<1>2. kRequest \in ClientRequests
  <2>1. {1, RequestLimit} \subseteq Nat BY ClientAssumption
  <2> QED BY <2>1 DEF ClientInit, ClientRequests
<1>3. Pieces(kRequest) \in Seq(Characters) BY <1>2, BodyIsExtracted
<1>4. PICK c \in ClientCommands : \E in : kCommand = [c EXCEPT !.code = in] BY DEF ClientInit
<1>5. /\ kCommand.verb \in Verbs
      /\ kCommand.limit # <<>> => kCommand.verb = "eval" /\ kCommand.limit[1] \in TimeLimits
  BY <1>4 DEF ClientCommands
<1>6. <<>> \in Seq(Characters) OBVIOUS
<1>7. ClientTypes BY <1>1, <1>2, <1>3, <1>5, <1>6 DEF ClientTypes, Answers
<1>8. Connected
  <2>1. <<>> \o Pieces(kRequest) = Pieces(kRequest) BY <1>3, ConcatEmptySeq
  <2> QED BY <1>1, <2>1 DEF Connected
<1>9. Answered BY <1>1, AnswersDiffer DEF Answered
<1>10. Exited BY <1>1 DEF Exited, NotYet
<1> QED BY <1>7, <1>8, <1>9, <1>10 DEF ClientInv

LEMMA ClientStep ==
  ASSUME ClientInv, ClientNext
  PROVE  ClientInv'
BY StartKeeps, ResolveKeeps, ExplainKeeps, ReadCodeKeeps, WriteKeeps, ReceiveKeeps, ReadSomeKeeps,
   ReadEofKeeps, RejectKeeps, DispatchKeeps, ReplyKeeps, WriteBackKeeps, WorldKeeps
   DEF ClientNext

LEMMA ClientStutters ==
  ASSUME ClientInv, UNCHANGED clientVars
  PROVE  ClientInv'
<1>1. UNCHANGED <<kCommand, kStage, kTarget, kExit, kRequest, kUnsent, kWire, kRead, kServer,
                  kAnswer, kBack, kGot>>
  BY DEF clientVars
<1>2. ClientTypes' BY <1>1 DEF ClientInv, ClientTypes
<1>3. Connected' BY <1>1 DEF ClientInv, Connected
<1>4. Answered' BY <1>1, SameRequest DEF ClientInv, Answered, Unless
<1>5. Exited' BY <1>1 DEF ClientInv, Exited
<1> QED BY <1>2, <1>3, <1>4, <1>5 DEF ClientInv

LEMMA ClientInvariant == ClientSpec => []ClientInv
<1>1. ClientInv /\ [ClientNext]_clientVars => ClientInv' BY ClientStep, ClientStutters
<1> QED BY <1>1, ClientBegins, PTL DEF ClientSpec

-----------------------------------------------------------------------------
(* Who gives up first.                                                     *)

\* The client has waited for no longer than the main thread has been given, and for what
\* the server thread was late.
Waiting == kCommand.verb \in {"eval", "send", "session"}
InGoodTime ==
  /\ kWaited \in Nat /\ kIdle \in Nat /\ kLate \in Nat /\ kLate <= Lateness
  /\ kServer = "waiting" => Waiting
  /\ kWaited # 0 => Waiting /\ kServer \in {"waiting", "writing", "half", "closed"}
  /\ kWaited <= server_timeout(kCommand)
  /\ kStage = "wait" /\ Ours => kIdle <= kWaited + kLate
  /\ ServerGivesUpFirst

LEMMA TimesAre ==
  ASSUME ClientTypes, kCommand.verb # "list"
  PROVE  /\ server_timeout(kCommand) \in Nat /\ transport_timeout(kCommand) \in Nat
         /\ Method \in CodeMethods \cup {"session"} <=> Waiting
         /\ kCommand.verb \in {"eval", "session"} =>
              transport_timeout(kCommand) = server_timeout(kCommand) + Spare
         /\ kCommand.verb = "history" => transport_timeout(kCommand) = SessionLimit + Spare
         /\ kCommand.verb = "shutdown" => transport_timeout(kCommand) = DefaultLimit
<1>1. /\ DefaultLimit \in Nat /\ SessionLimit \in Nat /\ Spare \in Nat
      /\ \A t \in TimeLimits : t \in Nat
  BY ClientAssumption
<1>2. server_timeout(kCommand) \in Nat
      /\ (kCommand.verb = "session" => server_timeout(kCommand) = SessionLimit)
  <2>1. CASE kCommand.verb = "session"
    <3>1. kCommand.limit = <<>> BY <2>1 DEF ClientTypes
    <3> QED BY <1>1, <2>1, <3>1 DEF server_timeout
  <2>2. CASE kCommand.verb # "session" /\ kCommand.limit # <<>>
    <3>1. kCommand.limit[1] \in Nat BY <1>1, <2>2 DEF ClientTypes
    <3> QED BY <2>2, <3>1 DEF server_timeout
  <2>3. CASE kCommand.verb # "session" /\ kCommand.limit = <<>>
    BY <1>1, <2>3 DEF server_timeout
  <2> QED BY <2>1, <2>2, <2>3
<1>3. kCommand.verb \in {"eval", "send", "session", "history", "shutdown"}
  BY DEF ClientTypes, Verbs, CodeVerbs
<1>4. /\ kCommand.verb = "eval"     => Asked(kCommand) = cmd_eval(kCommand)
      /\ kCommand.verb = "send"     => Asked(kCommand) = cmd_send
      /\ kCommand.verb = "shutdown" => Asked(kCommand) = cmd_shutdown
      /\ kCommand.verb = "session"  => Asked(kCommand) = cmd_session
      /\ kCommand.verb = "history"  => Asked(kCommand) = cmd_history
  BY DEF Asked
<1> HIDE DEF Asked, server_timeout
<1>5. CASE kCommand.verb = "eval"
  BY <1>1, <1>2, <1>4, <1>5
  DEF transport_timeout, Method, CodeMethods, Waiting, cmd_eval, Asking
<1>6. CASE kCommand.verb = "send"
  BY <1>1, <1>2, <1>4, <1>6
  DEF transport_timeout, Method, CodeMethods, Waiting, cmd_send, Asking
<1>7. CASE kCommand.verb = "shutdown"
  BY <1>1, <1>2, <1>4, <1>7
  DEF transport_timeout, Method, CodeMethods, Waiting, cmd_shutdown, Asking
<1>8. CASE kCommand.verb = "session"
  BY <1>1, <1>2, <1>4, <1>8
  DEF transport_timeout, Method, CodeMethods, Waiting, cmd_session, Asking
<1>9. CASE kCommand.verb = "history"
  BY <1>1, <1>2, <1>4, <1>9
  DEF transport_timeout, Method, CodeMethods, Waiting, cmd_history, Asking
<1> QED BY <1>3, <1>5, <1>6, <1>7, <1>8, <1>9

\* A step that no time takes.
LEMMA NoTimePasses ==
  ASSUME InGoodTime, UNCHANGED <<kCommand, kRequest, kWaited, kLate>>, kIdle' \in {0, kIdle},
         kStage' = "wait" => kStage = "wait" \/ kIdle' = 0,
         \/ kServer' = kServer
         \/ kServer' # "waiting" /\ kServer \in {"none", "reading", "parse", "too_large"}
         \/ kServer' \in {"writing", "half", "closed"},
         kExit' = kExit \/ kExit'.error # "READ_TIMED_OUT"
  PROVE  InGoodTime'
<1> USE DEF InGoodTime
<1>1. kWaited' \in Nat /\ kIdle' \in Nat /\ kLate' \in Nat /\ kLate' <= Lateness OBVIOUS
<1>2. /\ kServer' = "waiting" => Waiting'
      /\ kWaited' # 0 => Waiting' /\ kServer' \in {"waiting", "writing", "half", "closed"}
  BY DEF Waiting
<1>3. (kWaited <= server_timeout(kCommand))' BY DEF server_timeout
<1>4. Ours' <=> Ours BY DEF Ours
<1>5. kStage' = "wait" /\ Ours' => kIdle' <= kWaited' + kLate' BY <1>4
<1>6. ServerGivesUpFirst' BY <1>4 DEF ServerGivesUpFirst
<1> QED BY <1>1, <1>2, <1>3, <1>5, <1>6

LEMMA EndsInTime ==
  ASSUME NEW exit, Ends(exit), exit.error # "READ_TIMED_OUT"
  PROVE  kStage' = "done" /\ kExit'.error # "READ_TIMED_OUT"
BY EndsDoes

LEMMA AnswersInTime ==
  ASSUME ClientInv
  PROVE  parse_http_response(kGot).error # "READ_TIMED_OUT"
<1>1. CASE parse_http_response(kGot) = EXIT_PROTOCOL("PROTOCOL_ERROR")
  BY <1>1 DEF EXIT_PROTOCOL
<1>2. CASE kGot # <<>> /\ parse_http_response(kGot) = handle_response(kAnswer)
  <2>1. kAnswer \in Answers /\ kAnswer # NoResponse BY <1>2 DEF ClientInv, ClientTypes, Answered
  <2> QED BY <1>2, <2>1, AnswerIsHandled DEF Success, ServerErrors
<1> QED BY <1>1, <1>2, GotIsAnswer

\* The client of arf that gives up has waited longer than the server.
LEMMA GivesUpLast ==
  ASSUME Lateness < Spare, Lateness < DefaultLimit, ClientInv, InGoodTime,
         kStage = "wait", Ours, kIdle >= transport_timeout(kCommand)
  PROVE  kCommand.verb = "send"
<1>1. kCommand.verb # "list" /\ ClientTypes BY DEF ClientInv, Connected
<1>2. /\ server_timeout(kCommand) \in Nat /\ transport_timeout(kCommand) \in Nat
      /\ kCommand.verb \in {"eval", "session"} =>
           transport_timeout(kCommand) = server_timeout(kCommand) + Spare
      /\ kCommand.verb = "history" => transport_timeout(kCommand) = SessionLimit + Spare
      /\ kCommand.verb = "shutdown" => transport_timeout(kCommand) = DefaultLimit
  BY <1>1, TimesAre
<1>3. /\ kWaited \in Nat /\ kIdle \in Nat /\ kLate \in Nat /\ kLate <= Lateness
      /\ kWaited # 0 => Waiting
      /\ kWaited <= server_timeout(kCommand) /\ kIdle <= kWaited + kLate
  BY DEF InGoodTime
<1>4. Lateness \in Nat /\ Spare \in Nat /\ DefaultLimit \in Nat /\ SessionLimit \in Nat
  BY ClientAssumption
<1>5. kCommand.verb \in {"eval", "send", "session", "history", "shutdown"}
  BY <1>1 DEF ClientTypes, Verbs, CodeVerbs
<1>6. CASE kCommand.verb \in {"eval", "session"} BY <1>2, <1>3, <1>4, <1>6
<1>7. CASE kCommand.verb \in {"history", "shutdown"}
  <2>1. kWaited = 0 BY <1>3, <1>7 DEF Waiting
  <2> QED BY <1>2, <1>3, <1>4, <1>7, <2>1
<1> QED BY <1>5, <1>6, <1>7

LEMMA TickInTime ==
  ASSUME ClientInv, InGoodTime, Tick
  PROVE  InGoodTime'
<1>1. kStage = "wait" /\ kCommand.verb # "list" /\ ClientTypes
  BY DEF Tick, ClientInv, Connected
<1>2. server_timeout(kCommand) \in Nat BY <1>1, TimesAre
<1>3. UNCHANGED <<kCommand, kRequest, kServer, kStage, kExit>>
  BY DEF Tick, endVars, serverVars
<1>4. /\ kIdle' = kIdle + 1 /\ (InTime \/ StillReading \/ kLate < Lateness)
      /\ kWaited' = IF InTime THEN kWaited + 1 ELSE kWaited
      /\ kLate' = IF InTime \/ StillReading THEN kLate ELSE kLate + 1
  BY DEF Tick
<1>5. InTime => kServer = "waiting" /\ kWaited < server_timeout(kCommand) BY DEF InTime
<1>6. StillReading => ~Ours BY <1>1 DEF StillReading, Shut
<1>7. /\ kWaited \in Nat /\ kIdle \in Nat /\ kLate \in Nat /\ kLate <= Lateness
      /\ kServer = "waiting" => Waiting
      /\ kWaited # 0 => Waiting /\ kServer \in {"waiting", "writing", "half", "closed"}
      /\ kWaited <= server_timeout(kCommand)
      /\ Ours => kIdle <= kWaited + kLate
      /\ ServerGivesUpFirst
  BY <1>1 DEF InGoodTime
<1>8. Lateness \in Nat BY ClientAssumption
<1> HIDE DEF InTime, StillReading
<1>9. kWaited' \in Nat /\ kIdle' \in Nat /\ kLate' \in Nat /\ kLate' <= Lateness
  BY <1>4, <1>7, <1>8
<1>10. kWaited' <= server_timeout(kCommand) BY <1>2, <1>4, <1>5, <1>7
<1>11. Ours => kIdle' <= kWaited' + kLate' BY <1>4, <1>6, <1>7
<1>12. kWaited' # 0 => Waiting /\ kServer \in {"waiting", "writing", "half", "closed"}
  BY <1>4, <1>5, <1>7
<1>13. kServer' = "waiting" => Waiting' BY <1>3, <1>7 DEF Waiting
<1>14. kWaited' # 0 => Waiting' /\ kServer' \in {"waiting", "writing", "half", "closed"}
  BY <1>3, <1>12 DEF Waiting
<1>15. (kWaited <= server_timeout(kCommand))' BY <1>3, <1>10 DEF server_timeout
<1>16. kStage' = "wait" /\ Ours' => kIdle' <= kWaited' + kLate' BY <1>3, <1>11 DEF Ours
<1>17. ServerGivesUpFirst' BY <1>3, <1>7 DEF ServerGivesUpFirst, Ours
<1> QED BY <1>9, <1>13, <1>14, <1>15, <1>16, <1>17 DEF InGoodTime

LEMMA TimeStep ==
  ASSUME Lateness < Spare, Lateness < DefaultLimit, ClientInv, InGoodTime, ClientNext
  PROVE  InGoodTime'
<1>1. CASE Start
  <2>1. UNCHANGED <<kCommand, kRequest, kServer, kWaited, kIdle, kLate>>
    BY <1>1 DEF Start, serverVars, timeVars
  <2>2. Success.error # "READ_TIMED_OUT"
        /\ EXIT_CLIENT("NO_CODE_PROVIDED").error # "READ_TIMED_OUT"
    BY DEF Success, EXIT_CLIENT
  <2>3. \/ \E e : Ends(e) /\ e.error # "READ_TIMED_OUT"
        \/ kStage' = "resolve" /\ UNCHANGED kExit
    BY <1>1, <2>2 DEF Start
  <2> QED BY <2>1, <2>3, EndsInTime, NoTimePasses
<1>2. CASE Resolve \/ Explain
  <2>1. UNCHANGED <<kCommand, kRequest, kServer, kWaited, kIdle, kLate>>
    BY <1>2 DEF Resolve, Explain, serverVars, timeVars
  <2>2. /\ EXIT_SESSION("SESSION_NOT_FOUND").error # "READ_TIMED_OUT"
        /\ EXIT_SESSION("SESSION_AMBIGUOUS").error # "READ_TIMED_OUT"
    BY DEF EXIT_SESSION
  <2>3. \/ \E e : Ends(e) /\ e.error # "READ_TIMED_OUT"
        \/ kStage' \in {"code", "explain"} /\ UNCHANGED kExit
    BY <1>2, <2>2 DEF Resolve, Explain
  <2> QED BY <2>1, <2>3, EndsInTime, NoTimePasses
<1>3. CASE ReadCode
  <2>1. UNCHANGED <<kCommand, kRequest, kWaited, kIdle, kLate>> BY <1>3 DEF ReadCode, timeVars
  <2>2. /\ EXIT_CLIENT("STDIN_READ_ERROR").error # "READ_TIMED_OUT"
        /\ EXIT_CLIENT("TRANSPORT_ERROR").error # "READ_TIMED_OUT"
    BY DEF EXIT_CLIENT
  <2>3. \/ (\E e : Ends(e) /\ e.error # "READ_TIMED_OUT") /\ UNCHANGED kServer
        \/ kStage' = "write" /\ kServer' = "reading" /\ UNCHANGED kExit
    BY <1>3, <2>2 DEF ReadCode
  <2>4. kServer = "none" BY <1>3 DEF ReadCode, ClientInv, Connected
  <2> QED BY <2>1, <2>3, <2>4, EndsInTime, NoTimePasses
<1>4. CASE Write
  <2>1. UNCHANGED <<kCommand, kRequest, kServer, kWaited, kLate>> BY <1>4 DEF Write, serverVars
  <2>2. EXIT_CLIENT("TRANSPORT_ERROR").error # "READ_TIMED_OUT" BY DEF EXIT_CLIENT
  <2>3. \/ (\E e : Ends(e) /\ e.error # "READ_TIMED_OUT") /\ UNCHANGED kIdle
        \/ UNCHANGED <<kStage, kExit, kIdle>>
        \/ kStage' = "wait" /\ kIdle' = 0 /\ UNCHANGED kExit
    BY <1>4, <2>2 DEF Write
  <2> QED BY <2>1, <2>3, EndsInTime, NoTimePasses
<1>5. CASE Receive
  <2>1. UNCHANGED <<kCommand, kRequest, kServer, kWaited, kLate>> /\ kStage = "wait"
    BY <1>5 DEF Receive, serverVars
  <2>2. /\ EXIT_CLIENT("TRANSPORT_ERROR").error # "READ_TIMED_OUT"
        /\ parse_http_response(kGot).error # "READ_TIMED_OUT"
    BY AnswersInTime DEF EXIT_CLIENT
  <2>3. CASE kIdle' = 0 /\ UNCHANGED <<kStage, kExit>> BY <2>1, <2>3, NoTimePasses
  <2>4. CASE (\E e : Ends(e) /\ e.error # "READ_TIMED_OUT") /\ UNCHANGED kIdle
    BY <2>1, <2>4, EndsInTime, NoTimePasses
  <2>5. CASE /\ Ends(EXIT_CLIENT("READ_TIMED_OUT")) /\ UNCHANGED kIdle
             /\ kIdle >= transport_timeout(kCommand)
    <3>1. kStage' = "done" BY <2>5, EndsDoes
    <3>2. ServerGivesUpFirst'
      <4>1. Ours' <=> Ours BY <2>1 DEF Ours
      <4>2. Ours => kCommand.verb = "send" BY <2>1, <2>5, GivesUpLast
      <4> QED BY <2>1, <4>1, <4>2 DEF ServerGivesUpFirst
    <3>3. (kWaited <= server_timeout(kCommand))' BY <2>1 DEF InGoodTime, server_timeout
    <3> QED BY <2>1, <2>5, <3>1, <3>2, <3>3 DEF InGoodTime, Waiting
  <2>6. \/ kIdle' = 0 /\ UNCHANGED <<kStage, kExit>>
        \/ (\E e : Ends(e) /\ e.error # "READ_TIMED_OUT") /\ UNCHANGED kIdle
        \/ /\ Ends(EXIT_CLIENT("READ_TIMED_OUT")) /\ UNCHANGED kIdle
           /\ kIdle >= transport_timeout(kCommand)
    BY <1>5, <2>2 DEF Receive
  <2> QED BY <2>3, <2>4, <2>5, <2>6
<1>6. CASE ReadSome \/ ReadEof \/ Reject \/ Reply \/ WriteBack
  <2>1. /\ UNCHANGED <<kCommand, kRequest, kStage, kExit, kWaited, kIdle, kLate>>
        /\ \/ kServer' # "waiting" /\ kServer \in {"reading", "parse", "too_large"}
           \/ kServer' \in {"writing", "half", "closed"}
    BY <1>6 DEF ReadSome, ReadEof, Reject, Reply, WriteBack, Respond, AfterRead, endVars, timeVars
  <2> QED BY <2>1, NoTimePasses
<1>7. CASE Dispatch
  <2>1. /\ UNCHANGED <<kCommand, kRequest, kStage, kExit, kIdle, kLate>> /\ kWaited' = 0
        /\ kServer = "parse" /\ kServer' \in {"writing", "waiting"}
        /\ kServer' = "waiting" => Method \in CodeMethods \cup {"session"}
    BY <1>7 DEF Dispatch, Dispatched, Respond, endVars
  <2>2. kCommand.verb # "list" /\ ClientTypes BY <2>1 DEF ClientInv, Connected
  <2>3. /\ Method \in CodeMethods \cup {"session"} <=> Waiting
        /\ server_timeout(kCommand) \in Nat
    BY <2>2, TimesAre
  <2>4. kWaited = 0 BY <2>1 DEF InGoodTime
  <2>5. (kWaited <= server_timeout(kCommand))' BY <2>1, <2>3 DEF server_timeout
  <2>6. Waiting' <=> Waiting BY <2>1 DEF Waiting
  <2>7. Ours' <=> Ours BY <2>1 DEF Ours
  <2>8. ServerGivesUpFirst' BY <2>1, <2>7 DEF InGoodTime, ServerGivesUpFirst
  <2> HIDE DEF Waiting, Ours, server_timeout, ServerGivesUpFirst, Method
  <2>9. kStage' = "wait" /\ Ours' => kIdle' <= kWaited' + kLate'
    BY <2>1, <2>4, <2>7 DEF InGoodTime
  <2>10. kServer' = "waiting" => Waiting' BY <2>1, <2>3, <2>6
  <2>11. kWaited' \in Nat /\ kIdle' \in Nat /\ kLate' \in Nat /\ kLate' <= Lateness
    BY <2>1 DEF InGoodTime
  <2> QED BY <2>1, <2>5, <2>8, <2>9, <2>10, <2>11 DEF InGoodTime
<1>8. CASE SessionsChange
  <2>1. /\ UNCHANGED <<kCommand, kRequest, kStage, kExit, kWaited, kIdle, kLate>>
        /\ kServer' = kServer \/ kServer' = "closed"
    BY <1>8 DEF SessionsChange, timeVars
  <2> QED BY <2>1, NoTimePasses
<1>9. CASE Killed
  <2>1. /\ UNCHANGED <<kCommand, kRequest, kServer, kWaited, kIdle, kLate>>
        /\ kStage' = "done" /\ kExit'.error # "READ_TIMED_OUT"
    BY <1>9 DEF Killed, serverVars, timeVars
  <2> QED BY <2>1, NoTimePasses
<1> QED BY <1>1, <1>2, <1>3, <1>4, <1>5, <1>6, <1>7, <1>8, <1>9, TickInTime DEF ClientNext

LEMMA TimeBegins == ClientInit => InGoodTime
<1> SUFFICES ASSUME ClientInit PROVE InGoodTime OBVIOUS
<1>1. kStage = "start" /\ kExit = NotYet /\ kServer = "none" /\ kWaited = 0 /\ kIdle = 0 /\ kLate = 0
  BY DEF ClientInit, ConnectionUnused
<1>2. ClientTypes BY ClientBegins DEF ClientInv
<1>3. Lateness \in Nat /\ DefaultLimit \in Nat BY ClientAssumption
<1>4. server_timeout(kCommand) \in Nat
  <2>1. CASE kCommand.verb = "list"
    <3>1. kCommand.limit = <<>> BY <1>2, <2>1 DEF ClientTypes
    <3> QED BY <1>3, <2>1, <3>1 DEF server_timeout
  <2> QED BY <1>2, <2>1, TimesAre
<1> QED BY <1>1, <1>3, <1>4 DEF InGoodTime, ServerGivesUpFirst, NotYet

LEMMA TimeStutters ==
  ASSUME InGoodTime, UNCHANGED clientVars
  PROVE  InGoodTime'
<1>1. UNCHANGED <<kCommand, kRequest, kServer, kStage, kExit, kWaited, kIdle, kLate>>
  BY DEF clientVars
<1>2. kIdle \in Nat BY DEF InGoodTime
<1> QED BY <1>1, <1>2, NoTimePasses

\* arf ipc, every command, in every run of client and server: exit code 0 is an answer of the
\* session asked for to this request; with 3, or code that cannot be had, nothing was sent; a
\* 4 that names an error is the server's; and a request that was written to its end is never
\* taken for a broken one, however send_request and handle_connection have cut it.
THEOREM ClientCodesRight == ClientSpec => [](CodesTellWho /\ CutsDoNotMatter)
<1>1. ASSUME ClientInv PROVE CodesTellWho
  <2>1. /\ kAnswer = Result => Parses(extract_body(kRead))
        /\ kServer = "none" => kUnsent = Pieces(kRequest)
    BY <1>1 DEF ClientInv, Connected, Answered, IsParsed
  <2> QED BY <1>1, <2>1 DEF ClientInv, Exited, CodesTellWho
<1>2. ASSUME ClientInv PROVE CutsDoNotMatter
  BY <1>2 DEF ClientInv, Answered, Unless, CutsDoNotMatter
<1>3. ClientInv => CodesTellWho /\ CutsDoNotMatter BY <1>1, <1>2
<1> QED BY <1>3, ClientInvariant, PTL

\* What the exit code tells, and who gives up first: send_request waits for so much longer
\* than dispatch_request (five seconds) that an eval, and a session request, hears of the
\* server's timeout, as long as the server thread is not later than that, or than the
\* five minutes of the commands that do not wait for R.
THEOREM ClientTellsTruthAlways ==
  ASSUME Lateness < Spare, Lateness < DefaultLimit
  PROVE  ClientSpec => []ClientTellsTruth
<1>1. ClientInv /\ InGoodTime /\ [ClientNext]_clientVars => InGoodTime'
  BY TimeStep, TimeStutters
<1>2. InGoodTime => ServerGivesUpFirst BY DEF InGoodTime
<1>3. CodesTellWho /\ CutsDoNotMatter /\ ServerGivesUpFirst => ClientTellsTruth
  BY DEF ClientTellsTruth
<1> QED BY <1>1, <1>2, <1>3, TimeBegins, ClientInvariant, ClientCodesRight, PTL DEF ClientSpec

-----------------------------------------------------------------------------
(* The reader of a radian history, by induction over the lines it reads:   *)
(* it holds what the block it is in has given, and has listed the blocks    *)
(* before it.                                                              *)

\* The structure of a file f (EntriesAreBlocks), of any length.
CommandAt(f, i) == \E c \in 1..i - 1 : /\ f[c].k = "command"
                                       /\ \A j \in c + 1..i - 1 : f[j].k \notin {"time", "blank"}
SeparatesIn(f, i) == f[i].k = "time" \/ (f[i].k = "blank" /\ CommandAt(f, i))
IsBlock(f, b) ==
  /\ b[1] < b[2] /\ (b[1] = 0 \/ SeparatesIn(f, b[1]))
  /\ \A i \in b[1] + 1..b[2] - 1 : ~SeparatesIn(f, i)
CommandsIn(f, b) == {i \in b[1] + 1..b[2] - 1 : f[i].k = "command"}
ModesIn(f, b) == {i \in b[1] + 1..b[2] - 1 : f[i].k = "mode"}
ModeIn(f, b) == IF ModesIn(f, b) = {} THEN None ELSE f[LastOf(ModesIn(f, b))].mode
TimeIn(f, b) == IF b[1] > 0 /\ f[b[1]].k = "time" THEN f[b[1]].at ELSE None
EntryIn(f, b) ==
  [time |-> TimeIn(f, b), mode |-> from_external(ModeIn(f, b)),
   lines |-> Cardinality(CommandsIn(f, b)), end |-> b[2] - 1]

\* The blocks that a separator has ended.
Closed(f) ==
  {b \in (0..Len(f)) \X (1..Len(f)) : IsBlock(f, b) /\ SeparatesIn(f, b[2])}
Found(f) == {EntryIn(f, b) : b \in {x \in Closed(f) : CommandsIn(f, x) # {}}}

Grown(f, g, line) ==
  /\ f \in Seq(Lines) /\ g \in Seq(Lines) /\ Len(g) = Len(f) + 1
  /\ \A i \in 1..Len(f) : g[i] = f[i]
  /\ g[Len(g)] = line

LEMMA AppendGrows ==
  ASSUME NEW f \in Seq(Lines), NEW line \in Lines
  PROVE  Grown(f, Append(f, line), line)
<1> DEFINE L == Lines
<1> HIDE DEF L
<1> SUFFICES ASSUME NEW h \in Seq(L), NEW x \in L
             PROVE  /\ Append(h, x) \in Seq(L) /\ Len(Append(h, x)) = Len(h) + 1
                    /\ \A i \in 1..Len(h) : Append(h, x)[i] = h[i]
                    /\ Append(h, x)[Len(Append(h, x))] = x
  BY DEF Grown, L
<1> QED OBVIOUS

LEMMA LastIs ==
  ASSUME NEW N \in Nat, NEW S \in SUBSET (1..N), S # {}
  PROVE  LastOf(S) \in S /\ \A j \in S : j <= LastOf(S)
<1>1. S \in SUBSET (0..N) OBVIOUS
<1>2. Max(S) \in S /\ \A j \in S : j <= Max(S) BY <1>1, GreatestUpTo
<1>3. \E i \in S : \A j \in S : j <= i BY <1>2
<1> QED BY <1>3 DEF LastOf

LEMMA SameSeparators ==
  ASSUME NEW f, NEW g, NEW line, Grown(f, g, line)
  PROVE  /\ \A i \in 1..Len(f) + 1 : CommandAt(g, i) <=> CommandAt(f, i)
         /\ \A i \in 1..Len(f) : SeparatesIn(g, i) <=> SeparatesIn(f, i)
<1>1. Len(f) \in Nat /\ \A i \in 1..Len(f) : g[i] = f[i] BY DEF Grown
<1>2. ASSUME NEW i \in 1..Len(f) + 1 PROVE CommandAt(g, i) <=> CommandAt(f, i)
  <2>1. \A c \in 1..i - 1 : g[c] = f[c] BY <1>1
  <2>2. \A c \in 1..i - 1 : \A j \in c + 1..i - 1 : g[j] = f[j] BY <1>1
  <2> QED BY <2>1, <2>2 DEF CommandAt
<1>3. ASSUME NEW i \in 1..Len(f) PROVE SeparatesIn(g, i) <=> SeparatesIn(f, i)
  BY <1>1, <1>2 DEF SeparatesIn
<1> QED BY <1>2, <1>3

\* What a line more changes nothing about.
LEMMA SameBlock ==
  ASSUME NEW f, NEW g, NEW line, Grown(f, g, line),
         NEW b \in (0..Len(f)) \X (1..Len(f) + 1)
  PROVE  /\ IsBlock(g, b) <=> IsBlock(f, b)
         /\ CommandsIn(g, b) = CommandsIn(f, b) /\ ModesIn(g, b) = ModesIn(f, b)
         /\ EntryIn(g, b) = EntryIn(f, b)
<1>1. Len(f) \in Nat /\ \A i \in 1..Len(f) : g[i] = f[i] BY DEF Grown
<1>2. b[1] \in 0..Len(f) /\ b[2] \in 1..Len(f) + 1 OBVIOUS
<1>3. \A i \in b[1] + 1..b[2] - 1 : i \in 1..Len(f) /\ g[i] = f[i] BY <1>1, <1>2
<1>4. IsBlock(g, b) <=> IsBlock(f, b) BY <1>1, <1>2, <1>3, SameSeparators DEF IsBlock
<1>5. CommandsIn(g, b) = CommandsIn(f, b) BY <1>3 DEF CommandsIn
<1>6. ModesIn(g, b) = ModesIn(f, b) BY <1>3 DEF ModesIn
<1>7. ModeIn(g, b) = ModeIn(f, b)
  <2>1. CASE ModesIn(f, b) = {} BY <1>6, <2>1 DEF ModeIn
  <2>2. CASE ModesIn(f, b) # {}
    <3>1. ModesIn(f, b) \in SUBSET (1..Len(f)) BY <1>3 DEF ModesIn
    <3>2. LastOf(ModesIn(f, b)) \in 1..Len(f) BY <1>1, <2>2, <3>1, LastIs
    <3> QED BY <1>1, <1>6, <2>2, <3>2 DEF ModeIn
  <2> QED BY <2>1, <2>2
<1>8. TimeIn(g, b) = TimeIn(f, b)
  <2>1. b[1] > 0 => g[b[1]] = f[b[1]] BY <1>1, <1>2
  <2> QED BY <2>1 DEF TimeIn
<1> QED BY <1>4, <1>5, <1>6, <1>7, <1>8 DEF EntryIn

LEMMA ClosedGrows ==
  ASSUME NEW f, NEW g, NEW line, Grown(f, g, line), NEW s \in 0..Len(f),
         IsBlock(f, <<s, Len(f) + 1>>)
  PROVE  Closed(g) = Closed(f) \cup (IF SeparatesIn(g, Len(g)) THEN {<<s, Len(f) + 1>>} ELSE {})
<1> DEFINE N == Len(f)  new == <<s, N + 1>>
<1>1. N \in Nat /\ Len(g) = N + 1 BY DEF Grown
<1>2. ASSUME NEW b \in Closed(f) PROVE b \in Closed(g)
  <2>1. b \in (0..N) \X (1..N) /\ IsBlock(f, b) /\ SeparatesIn(f, b[2]) BY DEF Closed
  <2>2. b \in (0..N) \X (1..N + 1) /\ b \in (0..N + 1) \X (1..N + 1) /\ b[2] \in 1..N
    BY <1>1, <2>1
  <2>3. IsBlock(g, b) BY <2>1, <2>2, SameBlock
  <2>4. SeparatesIn(g, b[2]) BY <2>1, <2>2, SameSeparators
  <2> QED BY <1>1, <2>2, <2>3, <2>4 DEF Closed
<1>3. ASSUME SeparatesIn(g, Len(g)) PROVE new \in Closed(g)
  <2>1. new \in (0..N) \X (1..N + 1) /\ new \in (0..N + 1) \X (1..N + 1) /\ new[2] = N + 1
    BY <1>1
  <2>2. IsBlock(g, new) BY <2>1, SameBlock
  <2> QED BY <1>1, <1>3, <2>1, <2>2 DEF Closed
<1>4. ASSUME NEW b \in Closed(g), b \notin Closed(f)
      PROVE  b = new /\ SeparatesIn(g, Len(g))
  <2>1. b \in (0..N + 1) \X (1..N + 1) /\ IsBlock(g, b) /\ SeparatesIn(g, b[2])
    BY <1>1, <1>4 DEF Closed
  <2>2. b[1] \in 0..N + 1 /\ b[2] \in 1..N + 1 /\ b = <<b[1], b[2]>> BY <2>1
  <2>3. b[1] < b[2] BY <2>1 DEF IsBlock
  <2>4. b[1] \in 0..N BY <1>1, <2>2, <2>3
  <2>5. b \in (0..N) \X (1..N + 1) BY <2>2, <2>4
  <2>6. IsBlock(f, b) BY <2>1, <2>5, SameBlock
  <2>7. b[2] = N + 1
    <3>1. SUFFICES ASSUME b[2] # N + 1 PROVE FALSE OBVIOUS
    <3>2. b[2] \in 1..N BY <1>1, <2>2, <3>1
    <3>3. b \in (0..N) \X (1..N) BY <2>2, <2>4, <3>2
    <3>4. SeparatesIn(f, b[2]) BY <2>1, <3>2, SameSeparators
    <3> QED BY <1>4, <2>6, <3>3, <3>4 DEF Closed
  <2>8. b[1] = s
    <3>1. \A i \in b[1] + 1..N : ~SeparatesIn(f, i) BY <1>1, <2>6, <2>7 DEF IsBlock
    <3>2. \A i \in s + 1..N : ~SeparatesIn(f, i) BY <1>1 DEF IsBlock
    <3>3. b[1] = 0 \/ SeparatesIn(f, b[1]) BY <2>6 DEF IsBlock
    <3>4. s = 0 \/ SeparatesIn(f, s) BY DEF IsBlock
    <3>5. ~(b[1] < s) BY <1>1, <2>4, <3>1, <3>4
    <3>6. ~(s < b[1]) BY <1>1, <2>4, <3>2, <3>3
    <3> QED BY <2>4, <3>5, <3>6
  <2>9. b = new BY <2>2, <2>7, <2>8
  <2> QED BY <1>1, <2>1, <2>7, <2>9
<1> QED BY <1>2, <1>3, <1>4

LEMMA NextCommandAt ==
  ASSUME NEW f, NEW g, NEW line, Grown(f, g, line)
  PROVE  CommandAt(g, Len(g) + 1) <=>
           line.k = "command" \/ (line.k \notin {"time", "blank"} /\ CommandAt(f, Len(f) + 1))
<1> DEFINE N == Len(f)
<1>1. N \in Nat /\ Len(g) = N + 1 /\ g[N + 1] = line /\ \A i \in 1..N : g[i] = f[i] BY DEF Grown
<1>2. ASSUME NEW c \in 1..N
      PROVE  (\A j \in c + 1..N + 1 : g[j].k \notin {"time", "blank"}) <=>
               line.k \notin {"time", "blank"} /\ \A j \in c + 1..N : f[j].k \notin {"time", "blank"}
  <2>1. c + 1..N + 1 = (c + 1..N) \cup {N + 1} BY <1>1
  <2>2. \A j \in c + 1..N : g[j] = f[j] BY <1>1
  <2> QED BY <1>1, <2>1, <2>2
<1> DEFINE LastOne(c) == /\ g[c].k = "command"
                      /\ \A j \in c + 1..N + 1 : g[j].k \notin {"time", "blank"}
<1>3. CommandAt(g, N + 2) <=> \E c \in 1..N + 1 : LastOne(c) BY <1>1 DEF CommandAt
<1>4. LastOne(N + 1) <=> line.k = "command" BY <1>1
<1>5. \A c \in 1..N : LastOne(c) <=>
        /\ line.k \notin {"time", "blank"} /\ f[c].k = "command"
        /\ \A j \in c + 1..N : f[j].k \notin {"time", "blank"}
  BY <1>1, <1>2
<1>6. 1..N + 1 = (1..N) \cup {N + 1} BY <1>1
<1>7. CommandAt(f, N + 1) <=>
        \E c \in 1..N : f[c].k = "command" /\ \A j \in c + 1..N : f[j].k \notin {"time", "blank"}
  BY <1>1 DEF CommandAt
<1> HIDE DEF LastOne
<1>8. CommandAt(g, N + 2) <=> line.k = "command" \/ \E c \in 1..N : LastOne(c) BY <1>3, <1>4, <1>6
<1>9. (\E c \in 1..N : LastOne(c)) <=> line.k \notin {"time", "blank"} /\ CommandAt(f, N + 1)
  BY <1>5, <1>7
<1>10. Len(g) + 1 = N + 2 BY <1>1
<1> DEFINE before == \E c \in 1..N : LastOne(c)
<1> HIDE DEF before
<1>11. CommandAt(g, N + 2) <=> line.k = "command" \/ before BY <1>8 DEF before
<1>12. before <=> line.k \notin {"time", "blank"} /\ CommandAt(f, N + 1) BY <1>9 DEF before
<1> QED BY <1>10, <1>11, <1>12

\* A line that does not separate belongs to the block it is in.
BlockGrows(f, g, line, old, new) ==
  /\ IsBlock(g, new) /\ TimeIn(g, new) = TimeIn(f, old)
  /\ CommandsIn(g, new) = CommandsIn(f, old) \cup (IF line.k = "command" THEN {Len(g)} ELSE {})
  /\ ModeIn(g, new) = IF line.k = "mode" THEN line.mode ELSE ModeIn(f, old)

LEMMA BlockGoesOn ==
  ASSUME NEW f, NEW g, NEW line, Grown(f, g, line), ~SeparatesIn(g, Len(g)), NEW s \in 0..Len(f),
         NEW old, old = <<s, Len(f) + 1>>, IsBlock(f, old), NEW new, new = <<s, Len(g) + 1>>
  PROVE  BlockGrows(f, g, line, old, new)
<1> DEFINE N == Len(f)
<1>1. N \in Nat /\ Len(g) = N + 1 /\ g[N + 1] = line /\ \A i \in 1..N : g[i] = f[i] BY DEF Grown
<1>2. old \in (0..N) \X (1..N + 1) /\ old[1] = s /\ old[2] = N + 1 /\ new[1] = s /\ new[2] = N + 2
  BY <1>1
<1>3. s + 1..N + 1 = (s + 1..N) \cup {N + 1} BY <1>1
<1>4. \A i \in s + 1..N : g[i] = f[i] /\ i # N + 1 BY <1>1
<1>5. IsBlock(g, old) BY <1>2, SameBlock
<1>6. IsBlock(g, new)
  <2>1. \A i \in s + 1..N : ~SeparatesIn(g, i) BY <1>1, <1>2, <1>5 DEF IsBlock
  <2>2. s = 0 \/ SeparatesIn(g, s) BY <1>2, <1>5 DEF IsBlock
  <2>3. \A i \in s + 1..N + 1 : ~SeparatesIn(g, i) BY <1>1, <1>3, <2>1
  <2> QED BY <1>1, <1>2, <2>2, <2>3 DEF IsBlock
<1>7. TimeIn(g, new) = TimeIn(f, old) BY <1>1, <1>2 DEF TimeIn
<1>8. CommandsIn(g, new) = CommandsIn(f, old) \cup (IF line.k = "command" THEN {N + 1} ELSE {})
  BY <1>1, <1>2, <1>3, <1>4 DEF CommandsIn
<1>9. ModesIn(g, new) = ModesIn(f, old) \cup (IF line.k = "mode" THEN {N + 1} ELSE {})
  BY <1>1, <1>2, <1>3, <1>4 DEF ModesIn
<1>10. ModeIn(g, new) = IF line.k = "mode" THEN line.mode ELSE ModeIn(f, old)
  <2>1. ModesIn(f, old) \in SUBSET (1..N) BY <1>1, <1>2 DEF ModesIn
  <2>2. CASE line.k = "mode"
    <3> DEFINE M == ModesIn(g, new)  K == N + 1
    <3>1. K \in Nat /\ M = ModesIn(f, old) \cup {K} /\ g[K] = line BY <1>1, <1>9, <2>2
    <3>6. ModesIn(f, old) \subseteq 1..K /\ K \in 1..K BY <1>1, <2>1
    <3> HIDE DEF M, K
    <3>2. M \in SUBSET (1..K) /\ K \in M BY <3>1, <3>6
    <3>3. LastOf(M) \in M /\ \A j \in M : j <= LastOf(M) BY <3>1, <3>2, LastIs
    <3>4. LastOf(M) = K
      <4>1. LastOf(M) \in 1..K /\ K <= LastOf(M) BY <3>2, <3>3
      <4> QED BY <3>1, <4>1
    <3>5. M # {} BY <3>2
    <3> QED BY <2>2, <3>1, <3>4, <3>5 DEF ModeIn, M
  <2>3. CASE line.k # "mode" /\ ModesIn(f, old) = {} BY <1>9, <2>3 DEF ModeIn
  <2>4. CASE line.k # "mode" /\ ModesIn(f, old) # {}
    <3>1. LastOf(ModesIn(f, old)) \in 1..N BY <1>1, <2>1, <2>4, LastIs
    <3> QED BY <1>1, <1>9, <2>4, <3>1 DEF ModeIn
  <2> QED BY <2>2, <2>3, <2>4
<1> QED BY <1>1, <1>6, <1>7, <1>8, <1>10 DEF BlockGrows

\* One that does opens a block.
LEMMA BlockOpens ==
  ASSUME NEW f, NEW g, NEW line, Grown(f, g, line), SeparatesIn(g, Len(g))
  PROVE  LET new == <<Len(g), Len(g) + 1>>
         IN /\ IsBlock(g, new) /\ CommandsIn(g, new) = {} /\ ModeIn(g, new) = None
            /\ TimeIn(g, new) = IF line.k = "time" THEN line.at ELSE None
<1> DEFINE N == Len(f)  new == <<N + 1, N + 2>>
<1>1. N \in Nat /\ Len(g) = N + 1 /\ g[N + 1] = line BY DEF Grown
<1>2. new[1] = N + 1 /\ new[2] = N + 2 /\ new[1] + 1..new[2] - 1 = {} BY <1>1
<1>3. IsBlock(g, new) BY <1>1, <1>2 DEF IsBlock
<1>4. CommandsIn(g, new) = {} /\ ModesIn(g, new) = {} BY <1>2 DEF CommandsIn, ModesIn
<1>5. ModeIn(g, new) = None BY <1>4 DEF ModeIn
<1>6. TimeIn(g, new) = IF line.k = "time" THEN line.at ELSE None BY <1>1, <1>2 DEF TimeIn
<1>7. Len(g) + 1 = N + 2 BY <1>1
<1> QED BY <1>1, <1>3, <1>4, <1>5, <1>6, <1>7

LEMMA FoundGrows ==
  ASSUME NEW f, NEW g, NEW line, Grown(f, g, line), NEW s \in 0..Len(f),
         IsBlock(f, <<s, Len(f) + 1>>)
  PROVE  LET b == <<s, Len(f) + 1>>
         IN Found(g) = Found(f) \cup (IF SeparatesIn(g, Len(g)) /\ CommandsIn(f, b) # {}
                                      THEN {EntryIn(f, b)} ELSE {})
<1> DEFINE N == Len(f)  new == <<s, N + 1>>
<1>1. N \in Nat BY DEF Grown
<1>2. Closed(g) = Closed(f) \cup (IF SeparatesIn(g, Len(g)) THEN {new} ELSE {}) BY ClosedGrows
<1>3. \A b \in Closed(f) : b \in (0..N) \X (1..N + 1) BY <1>1 DEF Closed
<1>4. new \in (0..N) \X (1..N + 1) BY <1>1
<1>5. \A b \in Closed(f) \cup {new} :
        CommandsIn(g, b) = CommandsIn(f, b) /\ EntryIn(g, b) = EntryIn(f, b)
  BY <1>3, <1>4, SameBlock
<1> HIDE DEF new
<1>6. CASE SeparatesIn(g, Len(g)) BY <1>2, <1>5, <1>6 DEF Found, new
<1>7. CASE ~SeparatesIn(g, Len(g)) BY <1>2, <1>5, <1>7 DEF Found
<1> QED BY <1>6, <1>7

Given == {None, "r", "shell", "browse", "other"}
RadianEntry ==
  [time : Stamps \cup {None}, mode : {from_external(m) : m \in Given}, lines : Nat, end : Nat]

\* The entries of the blocks in S, in the order of the file, before the line at bound.
Lists(es, S, bound) ==
  /\ es \in Seq(RadianEntry) /\ {es[i] : i \in DOMAIN es} = S
  /\ \A i \in DOMAIN es : es[i].end < bound
  /\ \A i, j \in DOMAIN es : i < j => es[i].end < es[j].end

\* What the reader holds is what it has read since the last separator, at s.
Holds(s) ==
  LET b == <<s, Len(file) + 1>> IN
  /\ IsBlock(file, b)
  /\ current_lines = Cardinality(CommandsIn(file, b))
  /\ current_timestamp = TimeIn(file, b) /\ current_mode = ModeIn(file, b)
  /\ Pending <=> CommandAt(file, Len(file) + 1)

RadianTypes ==
  /\ file \in Seq(Lines) /\ parsed \in BOOLEAN
  /\ current_timestamp \in Stamps \cup {None} /\ current_mode \in Given /\ current_lines \in Nat

RadianInv ==
  /\ RadianTypes /\ EntriesAreBlocks
  /\ ~parsed => /\ \E s \in 0..Len(file) : Holds(s)
                /\ Lists(entries, Found(file), Len(file))

LEMMA ListsMore ==
  ASSUME NEW es, NEW S, NEW bound \in Nat, Lists(es, S, bound),
         NEW e \in RadianEntry, e.end = bound
  PROVE  Lists(Append(es, e), S \cup {e}, bound + 1)
<1> DEFINE E == RadianEntry  n == Len(es)  es2 == Append(es, e)
<1>1. es \in Seq(E) /\ e \in E BY DEF Lists
<1>2. \A x \in E : x.end \in Nat BY DEF RadianEntry
<1> HIDE DEF E
<1>3. /\ es2 \in Seq(E) /\ Len(es2) = n + 1 /\ n \in Nat /\ DOMAIN es2 = 1..n + 1
      /\ DOMAIN es = 1..n /\ \A i \in 1..n : es2[i] = es[i] /\ es[i] \in E
      /\ es2[n + 1] = e
  BY <1>1
<1> HIDE DEF es2
<1>4. 1..n + 1 = (1..n) \cup {n + 1} BY <1>3
<1>5. {es2[i] : i \in DOMAIN es2} = {es[i] : i \in DOMAIN es} \cup {e} BY <1>3, <1>4
<1>6. \A i \in 1..n : es[i].end < bound /\ es[i].end \in Nat BY <1>2, <1>3 DEF Lists
<1>7. \A i \in DOMAIN es2 : es2[i].end < bound + 1 BY <1>3, <1>4, <1>6
<1>8. ASSUME NEW i \in DOMAIN es2, NEW j \in DOMAIN es2, i < j PROVE es2[i].end < es2[j].end
  <2>1. i \in 1..n BY <1>3, <1>8
  <2>2. CASE j \in 1..n BY <1>3, <1>8, <2>1, <2>2 DEF Lists
  <2>3. CASE j = n + 1 BY <1>3, <1>6, <2>1, <2>3
  <2> QED BY <1>3, <1>4, <2>2, <2>3
<1>9. {es[i] : i \in DOMAIN es} = S BY DEF Lists
<1> QED BY <1>3, <1>5, <1>7, <1>8, <1>9 DEF Lists, E, es2

LEMMA ListsLater ==
  ASSUME NEW es, NEW S, NEW bound \in Nat, Lists(es, S, bound)
  PROVE  Lists(es, S, bound + 1)
<1>1. \A i \in DOMAIN es : es[i] \in RadianEntry BY DEF Lists
<1>2. \A i \in DOMAIN es : es[i].end \in Nat BY <1>1 DEF RadianEntry
<1> QED BY <1>2 DEF Lists

LEMMA BlockCounted ==
  ASSUME NEW f \in Seq(Lines), NEW s \in 0..Len(f), NEW b, b = <<s, Len(f) + 1>>
  PROVE  /\ IsFiniteSet(CommandsIn(f, b)) /\ Cardinality(CommandsIn(f, b)) \in Nat
         /\ Cardinality(CommandsIn(f, b)) = 0 <=> CommandsIn(f, b) = {}
         /\ Len(f) + 1 \notin CommandsIn(f, b)
<1>1. Len(f) \in Nat /\ b[1] = s /\ b[2] = Len(f) + 1 OBVIOUS
<1>2. CommandsIn(f, b) \subseteq 1..Len(f) BY <1>1 DEF CommandsIn
<1>3. IsFiniteSet(1..Len(f)) BY <1>1, FS_Interval
<1>4. IsFiniteSet(CommandsIn(f, b)) BY <1>2, <1>3, FS_Subset
<1> QED BY <1>1, <1>2, <1>4, FS_CardinalityType, FS_EmptySet

\* The entry that ends here is the one of the block that is open.
LEMMA FinalizeIs ==
  ASSUME RadianTypes, NEW s \in 0..Len(file), Holds(s), Lists(entries, Found(file), Len(file)),
         NEW b, b = <<s, Len(file) + 1>>
  PROVE  Lists(Finalize, Found(file) \cup (IF CommandsIn(file, b) # {} THEN {EntryIn(file, b)} ELSE {}),
               Len(file) + 1)
<1> DEFINE e == [time |-> current_timestamp, mode |-> from_external(current_mode),
                 lines |-> current_lines, end |-> Len(file)]
           N == Len(file)
<1>1. N \in Nat /\ b[2] - 1 = N BY DEF RadianTypes
<1>2. e = EntryIn(file, b) BY <1>1 DEF Holds, EntryIn
<1>3. e \in RadianEntry /\ e.end = N BY <1>1 DEF RadianTypes, RadianEntry
<1>4. Pending <=> CommandsIn(file, b) # {}
  <2>1. file \in Seq(Lines) /\ current_lines = Cardinality(CommandsIn(file, b))
    BY DEF Holds, RadianTypes
  <2>2. /\ Cardinality(CommandsIn(file, b)) \in Nat
        /\ Cardinality(CommandsIn(file, b)) = 0 <=> CommandsIn(file, b) = {}
    BY <2>1, BlockCounted
  <2> QED BY <2>1, <2>2 DEF Pending
<1>5. CASE Pending
  <2>1. Finalize = Append(entries, e) BY <1>5 DEF Finalize
  <2> HIDE DEF e
  <2> QED BY <1>1, <1>2, <1>3, <1>4, <1>5, <2>1, ListsMore
<1>6. CASE ~Pending
  <2>1. Finalize = entries BY <1>6 DEF Finalize
  <2> QED BY <1>1, <1>4, <1>6, <2>1, ListsLater
<1> QED BY <1>5, <1>6

\* What a line leads to, unless it ends the block.
LEMMA HoldsOn ==
  ASSUME RadianTypes, NEW s \in 0..Len(file), Holds(s), Lists(entries, Found(file), Len(file)),
         NEW line \in Lines, file' = Append(file, line), UNCHANGED <<entries, current_timestamp>>,
         ~parsed', line.k # "time", line.k = "blank" => ~Pending,
         current_mode' = (IF line.k = "mode" THEN line.mode ELSE current_mode),
         current_lines' = (IF line.k = "command" THEN current_lines + 1 ELSE current_lines)
  PROVE  Holds(s)' /\ Lists(entries, Found(file), Len(file))'
<1> DEFINE N == Len(file)  g == file'  old == <<s, N + 1>>  new == <<s, Len(g) + 1>>
<1>1. Grown(file, g, line) BY AppendGrows DEF RadianTypes
<1>2. N \in Nat /\ Len(g) = N + 1 /\ g[N + 1] = line /\ g \in Seq(Lines) BY <1>1 DEF Grown
<1>3. /\ IsBlock(file, old) /\ current_lines = Cardinality(CommandsIn(file, old))
      /\ current_timestamp = TimeIn(file, old) /\ current_mode = ModeIn(file, old)
      /\ Pending <=> CommandAt(file, N + 1)
  BY DEF Holds
<1>4. ~SeparatesIn(g, Len(g))
  <2>1. CommandAt(g, N + 1) <=> CommandAt(file, N + 1) BY <1>1, <1>2, SameSeparators
  <2> QED BY <1>2, <1>3, <2>1 DEF SeparatesIn
<1>5. /\ IsBlock(g, new) /\ TimeIn(g, new) = TimeIn(file, old)
      /\ CommandsIn(g, new) = CommandsIn(file, old)
                                \cup (IF line.k = "command" THEN {Len(g)} ELSE {})
      /\ ModeIn(g, new) = IF line.k = "mode" THEN line.mode ELSE ModeIn(file, old)
  <2>1. old = <<s, Len(file) + 1>> /\ new = <<s, Len(g) + 1>> OBVIOUS
  <2> HIDE DEF old, new
  <2>2. BlockGrows(file, g, line, old, new) BY <1>1, <1>3, <1>4, <2>1, BlockGoesOn
  <2> QED BY <2>2 DEF BlockGrows
<1>6. Found(g) = Found(file) BY <1>1, <1>3, <1>4, FoundGrows
<1>7. current_lines' = Cardinality(CommandsIn(g, new))
  <2>1. IsFiniteSet(CommandsIn(file, old)) /\ N + 1 \notin CommandsIn(file, old)
    BY BlockCounted DEF RadianTypes
  <2> HIDE DEF old, new
  <2>2. CASE line.k = "command"
    <3>1. Cardinality(CommandsIn(file, old) \cup {N + 1}) = Cardinality(CommandsIn(file, old)) + 1
      BY <2>1, FS_AddElement
    <3> QED BY <1>2, <1>3, <1>5, <2>2, <3>1
  <2>3. CASE line.k # "command" BY <1>3, <1>5, <2>3
  <2> QED BY <2>2, <2>3
<1>8. current_lines' > 0 <=> CommandAt(g, Len(g) + 1)
  <2>1. CommandAt(g, Len(g) + 1) <=>
          line.k = "command" \/ (line.k \notin {"time", "blank"} /\ CommandAt(file, N + 1))
    BY <1>1, NextCommandAt
  <2>2. current_lines \in Nat BY DEF RadianTypes
  <2> QED BY <1>3, <2>1, <2>2 DEF Pending
<1>9. Holds(s)' BY <1>3, <1>5, <1>7, <1>8 DEF Holds, Pending
<1>10. Lists(entries, Found(file), Len(file))'
  <2>1. Lists(entries, Found(file), N + 1) BY <1>2, ListsLater
  <2>2. entries' = entries /\ Found(file)' = Found(file) /\ Len(file)' = N + 1 BY <1>2, <1>6
  <2> QED BY <2>1, <2>2
<1> QED BY <1>9, <1>10

\* And when it does.
LEMMA HoldsAnew ==
  ASSUME RadianTypes, NEW s \in 0..Len(file), Holds(s), Lists(entries, Found(file), Len(file)),
         NEW line \in Lines, file' = Append(file, line), entries' = Finalize, ~parsed',
         line.k = "time" \/ (line.k = "blank" /\ Pending),
         current_timestamp' = (IF line.k = "time" THEN line.at ELSE None),
         current_mode' = None, current_lines' = 0
  PROVE  /\ Len(file)' \in 0..Len(file)' /\ Holds(Len(file))'
         /\ Lists(entries, Found(file), Len(file))'
<1> DEFINE N == Len(file)  g == file'  old == <<s, N + 1>>  new == <<Len(g), Len(g) + 1>>
<1>1. Grown(file, g, line) BY AppendGrows DEF RadianTypes
<1>2. N \in Nat /\ Len(g) = N + 1 /\ g[N + 1] = line /\ g \in Seq(Lines) BY <1>1 DEF Grown
<1>3. IsBlock(file, old) /\ (Pending <=> CommandAt(file, N + 1)) BY DEF Holds
<1>4. SeparatesIn(g, Len(g))
  <2>1. CommandAt(g, N + 1) <=> CommandAt(file, N + 1) BY <1>1, <1>2, SameSeparators
  <2> QED BY <1>2, <1>3, <2>1 DEF SeparatesIn
<1>5. /\ IsBlock(g, new) /\ CommandsIn(g, new) = {} /\ ModeIn(g, new) = None
      /\ TimeIn(g, new) = IF line.k = "time" THEN line.at ELSE None
  BY <1>1, <1>4, BlockOpens
<1>6. Found(g) = Found(file) \cup (IF CommandsIn(file, old) # {} THEN {EntryIn(file, old)} ELSE {})
  BY <1>1, <1>3, <1>4, FoundGrows
<1>7. ~CommandAt(g, Len(g) + 1) BY <1>1, NextCommandAt
<1>8. Holds(Len(file))'
  <2>1. Cardinality({}) = 0 BY FS_EmptySet
  <2>2. current_lines' = Cardinality(CommandsIn(g, new)) BY <1>5, <2>1
  <2>3. ~(current_lines' > 0) OBVIOUS
  <2> QED BY <1>5, <1>7, <2>2, <2>3 DEF Holds, Pending
<1>9. Lists(entries, Found(file), Len(file))'
  <2>1. Lists(Finalize, Found(g), N + 1) BY <1>6, FinalizeIs
  <2>2. entries' = Finalize /\ Len(file)' = N + 1 BY <1>2
  <2> QED BY <2>1, <2>2
<1>10. Len(file)' \in 0..Len(file)' BY <1>2
<1> QED BY <1>8, <1>9, <1>10

\* The blocks of a file that has ended are those closed, and the one that is open.
LEMMA AllBlocks ==
  ASSUME file \in Seq(Lines), NEW s \in 0..Len(file), IsBlock(file, <<s, Len(file) + 1>>)
  PROVE  Blocks = Closed(file) \cup {<<s, Len(file) + 1>>}
<1> DEFINE N == Len(file)  new == <<s, N + 1>>
<1>1. N \in Nat OBVIOUS
<1>2. \A i : SeparatesIn(file, i) <=> Separates(i)
  BY DEF SeparatesIn, Separates, CommandAt, IsCommand
<1>3. \A b : b \in Blocks <=>
               /\ b \in (0..N) \X (1..N + 1) /\ IsBlock(file, b)
               /\ (b[2] = N + 1 \/ SeparatesIn(file, b[2]))
  BY <1>2 DEF Blocks, IsBlock
<1>4. ASSUME NEW b \in Closed(file) PROVE b \in Blocks
  <2>1. b \in (0..N) \X (1..N) /\ IsBlock(file, b) /\ SeparatesIn(file, b[2]) BY <1>4 DEF Closed
  <2>2. b \in (0..N) \X (1..N + 1) BY <1>1, <2>1
  <2> QED BY <1>3, <2>1, <2>2
<1>5. new \in Blocks
  <2>1. new \in (0..N) \X (1..N + 1) /\ new[2] = N + 1 BY <1>1
  <2> QED BY <1>3, <2>1
<1>6. ASSUME NEW b \in Blocks PROVE b \in Closed(file) \/ b = new
  <2>1. /\ b \in (0..N) \X (1..N + 1) /\ IsBlock(file, b)
        /\ (b[2] = N + 1 \/ SeparatesIn(file, b[2]))
    BY <1>3, <1>6
  <2>2. b[1] \in 0..N /\ b[2] \in 1..N + 1 /\ b = <<b[1], b[2]>> BY <2>1
  <2>3. CASE b[2] # N + 1
    <3>1. b[2] \in 1..N BY <1>1, <2>2, <2>3
    <3>2. b \in (0..N) \X (1..N) BY <2>2, <3>1
    <3> QED BY <2>1, <2>3, <3>2 DEF Closed
  <2>4. CASE b[2] = N + 1
    <3>1. \A i \in b[1] + 1..N : ~SeparatesIn(file, i) BY <1>1, <2>1, <2>4 DEF IsBlock
    <3>2. \A i \in s + 1..N : ~SeparatesIn(file, i) BY <1>1 DEF IsBlock
    <3>3. (b[1] = 0 \/ SeparatesIn(file, b[1])) /\ (s = 0 \/ SeparatesIn(file, s))
      BY <2>1 DEF IsBlock
    <3>4. ~(b[1] < s) /\ ~(s < b[1]) BY <1>1, <2>2, <3>1, <3>2, <3>3
    <3>5. b[1] = s BY <2>2, <3>4
    <3> QED BY <2>2, <2>4, <3>5
  <2> QED BY <2>3, <2>4
<1> QED BY <1>4, <1>5, <1>6

AllEntries == {EntryOf(b) : b \in {x \in Blocks : CommandsOf(x) # {}}}

LEMMA SameEntries == ASSUME file' = file PROVE AllEntries' = AllEntries
<1>1. \A i : IsCommand(i)' = IsCommand(i) BY DEF IsCommand
<1>2. \A i : Separates(i)' <=> Separates(i) BY <1>1 DEF Separates
<1>3. \A b : CommandsOf(b)' = CommandsOf(b) BY <1>1 DEF CommandsOf
<1>4. \A b : ModesOf(b)' = ModesOf(b) BY DEF ModesOf
<1>5. \A b : EntryOf(b)' = EntryOf(b) BY <1>3, <1>4 DEF EntryOf
<1>6. Blocks' = Blocks BY <1>2 DEF Blocks
<1> QED BY <1>3, <1>5, <1>6 DEF AllEntries

LEMMA BlocksFound ==
  ASSUME NEW s \in 0..Len(file), file \in Seq(Lines), NEW b, b = <<s, Len(file) + 1>>,
         IsBlock(file, b)
  PROVE  AllEntries = Found(file) \cup (IF CommandsIn(file, b) # {} THEN {EntryIn(file, b)} ELSE {})
<1> DEFINE WithCommands == {x \in Blocks : CommandsOf(x) # {}}
<1>1. Blocks = Closed(file) \cup {b} BY AllBlocks
<1>2. \A x : CommandsOf(x) = CommandsIn(file, x) /\ ModesOf(x) = ModesIn(file, x)
  BY DEF CommandsOf, CommandsIn, IsCommand, ModesOf, ModesIn
<1>3. \A x : EntryOf(x) = EntryIn(file, x) BY <1>2 DEF EntryOf, EntryIn, ModeIn, TimeIn
<1>4. {EntryOf(x) : x \in WithCommands}
        = Found(file) \cup (IF CommandsIn(file, b) # {} THEN {EntryIn(file, b)} ELSE {})
  <2>1. CASE CommandsIn(file, b) # {} BY <1>1, <1>2, <1>3, <2>1 DEF Found
  <2>2. CASE CommandsIn(file, b) = {} BY <1>1, <1>2, <1>3, <2>2 DEF Found
  <2> QED BY <2>1, <2>2
<1> QED BY <1>4 DEF AllEntries

LEMMA RadianBegins == RadianInit => RadianInv
<1> SUFFICES ASSUME RadianInit PROVE RadianInv OBVIOUS
<1> DEFINE b == <<0, 1>>
<1>1. file = <<>> /\ entries = <<>> /\ ~parsed BY DEF RadianInit
<1>2. Len(file) = 0 /\ file \in Seq(Lines) /\ entries \in Seq(RadianEntry) /\ DOMAIN entries = {}
  BY <1>1
<1>3. b[1] = 0 /\ b[2] = 1 /\ b[1] + 1..b[2] - 1 = {} OBVIOUS
<1>4. IsBlock(file, b) /\ CommandsIn(file, b) = {} /\ ModesIn(file, b) = {}
  BY <1>3 DEF IsBlock, CommandsIn, ModesIn
<1>5. ModeIn(file, b) = None /\ TimeIn(file, b) = None BY <1>3, <1>4 DEF ModeIn, TimeIn
<1>6. ~CommandAt(file, 1) BY DEF CommandAt
<1>7. Len(file) + 1 = 1 BY <1>2
<1>8. Holds(0) BY <1>4, <1>5, <1>6, <1>7, FS_EmptySet DEF Holds, Pending, RadianInit
<1>9. Closed(file) = {} BY <1>2 DEF Closed
<1>10. Lists(entries, Found(file), Len(file)) BY <1>2, <1>9 DEF Lists, Found
<1>11. RadianTypes BY <1>1, <1>2 DEF RadianTypes, RadianInit, Given
<1> QED BY <1>1, <1>2, <1>8, <1>10, <1>11 DEF RadianInv, EntriesAreBlocks

LEMMA RadianStep == RadianInv /\ [RadianNext]_radianVars => RadianInv'
<1> SUFFICES ASSUME RadianInv, [RadianNext]_radianVars PROVE RadianInv' OBVIOUS
<1>1. RadianTypes /\ EntriesAreBlocks BY DEF RadianInv
<1>2. ASSUME ~parsed
      PROVE  \E s \in 0..Len(file) : Holds(s) /\ Lists(entries, Found(file), Len(file))
  BY <1>2 DEF RadianInv
<1>3. ASSUME NEW line \in Lines, Reads(line)
      PROVE  ~parsed /\ file' = Append(file, line) /\ file' \in Seq(Lines)
  <2>1. ~parsed /\ file' = Append(file, line) BY <1>3 DEF Reads
  <2>2. Grown(file, Append(file, line), line) BY <1>1, AppendGrows DEF RadianTypes
  <2> QED BY <2>1, <2>2 DEF Grown
\* A line read, the entries being what they should be.
<1>4. ASSUME NEW s \in 0..Len(file)', Holds(s)', Lists(entries, Found(file), Len(file))',
             RadianTypes', ~parsed'
      PROVE  RadianInv'
  BY <1>4 DEF RadianInv, EntriesAreBlocks
<1>5. ASSUME NEW line \in Lines, Reads(line), UNCHANGED <<entries, current_timestamp, parsed>>,
             line.k # "time", line.k = "blank" => ~Pending,
             current_mode' = (IF line.k = "mode" THEN line.mode ELSE current_mode),
             current_lines' = (IF line.k = "command" THEN current_lines + 1 ELSE current_lines)
      PROVE  RadianInv'
  <2>1. ~parsed /\ file' = Append(file, line) /\ file' \in Seq(Lines) BY <1>3, <1>5
  <2>2. PICK s \in 0..Len(file) : Holds(s) /\ Lists(entries, Found(file), Len(file))
    BY <1>2, <2>1
  <2>3. Holds(s)' /\ Lists(entries, Found(file), Len(file))'
    BY <1>1, <1>5, <2>1, <2>2, HoldsOn
  <2>4. RadianTypes'
    <3>1. line.k = "mode" => line.mode \in Given BY DEF Lines, Given
    <3> QED BY <1>1, <1>5, <2>1, <3>1 DEF RadianTypes
  <2>5. s \in 0..Len(file)'
    <3>1. Grown(file, file', line) BY <1>1, <2>1, AppendGrows DEF RadianTypes
    <3> QED BY <1>1, <3>1 DEF Grown, RadianTypes
  <2> QED BY <1>4, <1>5, <2>1, <2>3, <2>4, <2>5
<1>6. ASSUME NEW line \in Lines, Reads(line), entries' = Finalize, UNCHANGED parsed,
             line.k = "time" \/ (line.k = "blank" /\ Pending),
             current_timestamp' = (IF line.k = "time" THEN line.at ELSE None),
             current_mode' = None, current_lines' = 0
      PROVE  RadianInv'
  <2>1. ~parsed /\ file' = Append(file, line) /\ file' \in Seq(Lines) BY <1>3, <1>6
  <2>2. PICK s \in 0..Len(file) : Holds(s) /\ Lists(entries, Found(file), Len(file))
    BY <1>2, <2>1
  <2>3. /\ Len(file)' \in 0..Len(file)' /\ Holds(Len(file))'
        /\ Lists(entries, Found(file), Len(file))'
    BY <1>1, <1>6, <2>1, <2>2, HoldsAnew
  <2>4. RadianTypes'
    <3>1. line.k = "time" => line.at \in Stamps \cup {None} BY DEF Lines
    <3> QED BY <1>1, <1>6, <2>1, <3>1 DEF RadianTypes, Given
  <2> QED BY <1>4, <1>6, <2>1, <2>3, <2>4
<1>7. CASE EndOfFile
  <2>1. ~parsed /\ parsed' /\ entries' = Finalize /\ UNCHANGED <<file, current_timestamp, current_lines>>
    BY <1>1, <1>7 DEF EndOfFile, RadianTypes
  <2>2. PICK s \in 0..Len(file) : Holds(s) /\ Lists(entries, Found(file), Len(file))
    BY <1>2, <2>1
  <2> DEFINE b == <<s, Len(file) + 1>>
             found == Found(file) \cup (IF CommandsIn(file, b) # {} THEN {EntryIn(file, b)} ELSE {})
  <2>3. Lists(Finalize, found, Len(file) + 1) BY <1>1, <2>2, FinalizeIs
  <2>4. IsBlock(file, b) BY <2>2 DEF Holds
  <2>5. EntriesAreBlocks'
    <3>1. AllEntries = found BY <1>1, <2>2, <2>4, BlocksFound DEF RadianTypes
    <3>2. AllEntries' = AllEntries BY <2>1, SameEntries
    <3>3. Lists(entries', AllEntries', Len(file) + 1) BY <2>1, <2>3, <3>1, <3>2
    <3> QED BY <3>3 DEF EntriesAreBlocks, AllEntries, Lists
  <2>6. RadianTypes' BY <1>1, <1>7, <2>1 DEF RadianTypes, EndOfFile, Given
  <2> QED BY <2>1, <2>5, <2>6 DEF RadianInv
<1>8. CASE UNCHANGED radianVars
  <2>1. UNCHANGED <<file, current_timestamp, current_mode, current_lines, entries, parsed>>
    BY <1>8 DEF radianVars
  <2>2. EntriesAreBlocks' BY <1>1, <2>1, SameEntries DEF EntriesAreBlocks, AllEntries
  <2>3. RadianTypes' BY <1>1, <2>1 DEF RadianTypes
  <2>4. CASE parsed BY <2>1, <2>2, <2>3, <2>4 DEF RadianInv
  <2>5. CASE ~parsed
    <3>1. PICK s \in 0..Len(file) : Holds(s) /\ Lists(entries, Found(file), Len(file))
      BY <1>2, <2>5
    <3>2. s \in 0..Len(file)' /\ Holds(s)' /\ Lists(entries, Found(file), Len(file))'
      BY <2>1, <3>1 DEF Holds, Pending
    <3> QED BY <1>4, <2>1, <2>3, <2>5, <3>2
  <2> QED BY <2>4, <2>5
<1>9. ASSUME NEW line \in Lines,
             \/ TimeHeader(line) \/ ModeHeader(line) \/ CommandLine(line)
             \/ BlankLine(line) \/ OtherLine(line)
      PROVE  RadianInv'
  <2>1. CASE TimeHeader(line) BY <1>6, <2>1 DEF TimeHeader
  <2>2. CASE ModeHeader(line) BY <1>5, <2>2 DEF ModeHeader
  <2>3. CASE CommandLine(line) BY <1>5, <2>3 DEF CommandLine
  <2>4. CASE BlankLine(line) /\ Pending BY <1>6, <2>4 DEF BlankLine
  <2>5. CASE BlankLine(line) /\ ~Pending
    <3>1. entries' = entries /\ current_lines' = current_lines
      BY <1>1, <2>5 DEF BlankLine, Finalize, Pending, RadianTypes
    <3> QED BY <1>5, <2>5, <3>1 DEF BlankLine
  <2>6. CASE OtherLine(line) BY <1>5, <2>6 DEF OtherLine
  <2> QED BY <1>9, <2>1, <2>2, <2>3, <2>4, <2>5, <2>6
<1> QED BY <1>7, <1>8, <1>9 DEF RadianNext

\* For every file, of any length: the entries are its blocks with a command line, in their
\* order, each with the time and the mode its own block gives (parse_radian_history).
THEOREM RadianEntriesRight == RadianSpec => []EntriesAreBlocks
<1>1. RadianInv => EntriesAreBlocks BY DEF RadianInv
<1> QED BY <1>1, RadianBegins, RadianStep, PTL DEF RadianSpec

-----------------------------------------------------------------------------
(* The policy of silent evaluation.  The walks are recursive functions: each *)
(* is well defined, since the trees below a tree are lower, and a tree that  *)
(* refutes a lemma would have one as low as any that does.                 *)

LEMMA TreesAreGrammatical ==
  ASSUME NEW n \in Trees
  PROVE  /\ Grammatical(n) /\ n.kids \in Seq(Trees) /\ Height(n) \in Nat
         /\ \A i \in DOMAIN n.kids : n.kids[i] \in Trees /\ Height(n.kids[i]) < Height(n)
<1>1. /\ Grammatical(n) /\ n.kids \in Seq(Trees) /\ Height(n) \in Nat
      /\ \A i \in DOMAIN n.kids : Height(n.kids[i]) < Height(n)
  BY PolicyAssumption
<1> QED BY <1>1

TreeHeights == [n \in Trees |-> Height(n)]

\* For each of the walks, its rule for a tree.
Expression(n, allowlist, valid) ==
  \/ n.kind \in LeafKinds \cup {"comment", "dots"}
  \/ n.kind = "call" /\ validate_call(n, allowlist, valid)
  \/ n.kind \in OperatorKinds /\ validate_operator(n, allowlist, valid)
  \/ n.kind \in GroupKinds /\ validate_group(n, valid)

TopLevel(n, allowlist, valid) ==
  \/ n.kind \in LeafKinds \cup {"comment"}
  \/ n.kind \in OperatorKinds \cup {"call"} /\ validate_expression(allowlist)[n]
  \/ /\ n.kind = "parenthesized_expression"
     /\ \E i \in DOMAIN n.kids : Uncommented(n.kids) = {i} /\ valid[n.kids[i]]

CallsAmong(n, calls, positions) == UNION {calls[n.kids[i]] : i \in positions}
CallsIn(n, calls) ==
  LET of(positions) == CallsAmong(n, calls, positions)
      target == call_target(n.kids[1])
  IN CASE n.kind = "call" ->
            {target} \cup of(2..Len(n.kids)) \cup (IF target = NoTarget THEN of({1}) ELSE {})
       [] n.kind \in OperatorKinds ->
            of(DOMAIN n.kids)
              \cup (IF n.op \in Assignments \cup {"|>"} THEN {Special} ELSE {<<n.op>>})
       [] n.kind \in GroupKinds -> of(DOMAIN n.kids)
       [] n.kind = "namespace_operator" -> {Special}
       [] n.kind = "special" -> {Special} \cup of(DOMAIN n.kids)
       [] OTHER -> {}

LEMMA ExpressionLooksBelow ==
  ASSUME NEW n \in Trees, NEW allowlist, NEW e, NEW f,
         \A i \in DOMAIN n.kids : e[n.kids[i]] = f[n.kids[i]]
  PROVE  Expression(n, allowlist, e) = Expression(n, allowlist, f)
<1>1. n.kids \in Seq(Trees) /\ Grammatical(n) BY TreesAreGrammatical
<1>2. \A i \in 2..Len(n.kids) : i \in DOMAIN n.kids BY <1>1
<1>3. validate_call(n, allowlist, e) <=> validate_call(n, allowlist, f)
  BY <1>2 DEF validate_call
<1>4. validate_operator(n, allowlist, e) <=> validate_operator(n, allowlist, f)
  BY DEF validate_operator
<1>5. validate_group(n, e) <=> validate_group(n, f) BY DEF validate_group
<1> QED BY <1>3, <1>4, <1>5 DEF Expression

LEMMA ExpressionRule ==
  ASSUME NEW allowlist
  PROVE  /\ validate_expression(allowlist) \in [Trees -> BOOLEAN]
         /\ \A n \in Trees : validate_expression(allowlist)[n]
                               = Expression(n, allowlist, validate_expression(allowlist))
<1> DEFINE g == [x \in Trees \X [Trees -> BOOLEAN] |-> Expression(x[1], allowlist, x[2])]
           Is(f) == f = [n \in Trees |-> Expression(n, allowlist, f)]
<1>1. g \in [Trees \X [Trees -> BOOLEAN] -> BOOLEAN] BY DEF Expression
<1>2. \A n \in Trees : \A f \in [Trees -> BOOLEAN] : g[<<n, f>>] = Expression(n, allowlist, f)
  OBVIOUS
<1>3. TreeHeights \in [Trees -> Nat] BY TreesAreGrammatical DEF TreeHeights
<1>4. GoesDown(g, Trees, BOOLEAN, TreeHeights)
  <2>1. ASSUME NEW n \in Trees, NEW e \in [Trees -> BOOLEAN], NEW f \in [Trees -> BOOLEAN],
               \A m \in Trees : TreeHeights[m] < TreeHeights[n] => e[m] = f[m]
        PROVE  g[<<n, e>>] = g[<<n, f>>]
    <3>1. \A i \in DOMAIN n.kids : e[n.kids[i]] = f[n.kids[i]]
      BY <2>1, TreesAreGrammatical DEF TreeHeights
    <3>2. Expression(n, allowlist, e) = Expression(n, allowlist, f)
      BY <3>1, ExpressionLooksBelow
    <3> HIDE DEF g
    <3> QED BY <1>2, <3>2
  <2> HIDE DEF g
  <2> QED BY <1>1, <1>3, <2>1 DEF GoesDown
<1> HIDE DEF g
<1>5. Solvable(g, Trees, BOOLEAN) BY <1>4, Recursion
<1>6. \E f : Is(f)
  <2>1. PICK f \in [Trees -> BOOLEAN] : \A n \in Trees : f[n] = g[<<n, f>>] BY <1>5 DEF Solvable
  <2>2. Is(f) BY <1>2, <2>1
  <2> HIDE DEF Is
  <2> QED BY <2>2
<1>7. validate_expression(allowlist) = CHOOSE h : Is(h)
  BY DEF validate_expression, Expression
<1>8. Is(validate_expression(allowlist))
  <2> HIDE DEF Is
  <2> QED BY <1>6, <1>7
<1>9. \A n \in Trees : Expression(n, allowlist, validate_expression(allowlist)) \in BOOLEAN
  BY DEF Expression
<1> DEFINE v == validate_expression(allowlist)
<1>10. v = [n \in Trees |-> Expression(n, allowlist, v)] BY <1>8
<1> HIDE DEF v
<1>11. \A n \in Trees : Expression(n, allowlist, v) \in BOOLEAN BY <1>9 DEF v
<1>12. v \in [Trees -> BOOLEAN] /\ \A n \in Trees : v[n] = Expression(n, allowlist, v)
  BY <1>10, <1>11
<1> QED BY <1>12 DEF v

LEMMA TopLevelRule ==
  ASSUME NEW allowlist
  PROVE  \A n \in Trees : validate_top_level(allowlist)[n]
                            <=> TopLevel(n, allowlist, validate_top_level(allowlist))
<1> DEFINE g == [x \in Trees \X [Trees -> BOOLEAN] |-> TopLevel(x[1], allowlist, x[2])]
           Is(f) == f = [n \in Trees |-> TopLevel(n, allowlist, f)]
<1>1. \A n \in Trees : validate_expression(allowlist)[n] \in BOOLEAN BY ExpressionRule
<1>2. g \in [Trees \X [Trees -> BOOLEAN] -> BOOLEAN] BY <1>1 DEF TopLevel
<1>3. \A n \in Trees : \A f \in [Trees -> BOOLEAN] : g[<<n, f>>] = TopLevel(n, allowlist, f)
  OBVIOUS
<1>4. GoesDown(g, Trees, BOOLEAN, TreeHeights)
  <2>1. ASSUME NEW n \in Trees, NEW e \in [Trees -> BOOLEAN], NEW f \in [Trees -> BOOLEAN],
               \A m \in Trees : TreeHeights[m] < TreeHeights[n] => e[m] = f[m]
        PROVE  g[<<n, e>>] = g[<<n, f>>]
    <3>1. \A i \in DOMAIN n.kids : e[n.kids[i]] = f[n.kids[i]]
      BY <2>1, TreesAreGrammatical DEF TreeHeights
    <3>2. TopLevel(n, allowlist, e) <=> TopLevel(n, allowlist, f) BY <3>1 DEF TopLevel
    <3>3. g[<<n, e>>] <=> g[<<n, f>>] BY <3>2
    <3>4. g[<<n, e>>] \in BOOLEAN /\ g[<<n, f>>] \in BOOLEAN BY <1>2
    <3> HIDE DEF g
    <3> QED BY <3>3, <3>4
  <2>2. TreeHeights \in [Trees -> Nat] BY TreesAreGrammatical DEF TreeHeights
  <2> HIDE DEF g
  <2> QED BY <1>2, <2>1, <2>2 DEF GoesDown
<1> HIDE DEF g
<1>5. Solvable(g, Trees, BOOLEAN) BY <1>4, Recursion
<1>6. \E f : Is(f)
  <2>1. PICK f \in [Trees -> BOOLEAN] : \A n \in Trees : f[n] = g[<<n, f>>] BY <1>5 DEF Solvable
  <2>2. Is(f) BY <1>3, <2>1
  <2> HIDE DEF Is
  <2> QED BY <2>2
<1>7. validate_top_level(allowlist) = CHOOSE h : Is(h) BY DEF validate_top_level, TopLevel
<1>8. Is(validate_top_level(allowlist))
  <2> HIDE DEF Is
  <2> QED BY <1>6, <1>7
<1> DEFINE v == validate_top_level(allowlist)
<1>9. v = [n \in Trees |-> TopLevel(n, allowlist, v)] BY <1>8
<1> HIDE DEF v
<1> QED BY <1>9 DEF v

\* What calls can go by.
CallNames ==
  {Special, NoTarget} \cup {<<n.op>> : n \in Trees}
    \cup {<<n.kids[1].op, n.kids[2].op>> : n \in Trees}

LEMMA CallsInIs ==
  ASSUME NEW n, NEW calls
  PROVE  /\ n.kind = "call" =>
              CallsIn(n, calls)
                = {call_target(n.kids[1])} \cup CallsAmong(n, calls, 2..Len(n.kids))
                    \cup (IF call_target(n.kids[1]) = NoTarget THEN CallsAmong(n, calls, {1}) ELSE {})
         /\ n.kind \in OperatorKinds =>
              CallsIn(n, calls)
                = CallsAmong(n, calls, DOMAIN n.kids)
                    \cup (IF n.op \in Assignments \cup {"|>"} THEN {Special} ELSE {<<n.op>>})
         /\ n.kind \in GroupKinds => CallsIn(n, calls) = CallsAmong(n, calls, DOMAIN n.kids)
         /\ n.kind = "namespace_operator" => CallsIn(n, calls) = {Special}
         /\ n.kind = "special" =>
              CallsIn(n, calls) = {Special} \cup CallsAmong(n, calls, DOMAIN n.kids)
         /\ n.kind \notin {"call", "namespace_operator", "special"} \cup OperatorKinds \cup GroupKinds
              => CallsIn(n, calls) = {}
BY DEF CallsIn, OperatorKinds, GroupKinds

LEMMA OfSame ==
  ASSUME NEW n, NEW e, NEW f, NEW positions, \A i \in positions : e[n.kids[i]] = f[n.kids[i]]
  PROVE  CallsAmong(n, e, positions) = CallsAmong(n, f, positions)
BY DEF CallsAmong

LEMMA CallsInSame ==
  ASSUME NEW n \in Trees, NEW e, NEW f, \A i \in DOMAIN n.kids : e[n.kids[i]] = f[n.kids[i]]
  PROVE  CallsIn(n, e) = CallsIn(n, f)
<1>1. n.kids \in Seq(Trees) /\ n.kind = "call" => 1 \in DOMAIN n.kids
  BY TreesAreGrammatical DEF Grammatical
<1>2. CallsAmong(n, e, DOMAIN n.kids) = CallsAmong(n, f, DOMAIN n.kids) BY OfSame
<1>3. CallsAmong(n, e, 2..Len(n.kids)) = CallsAmong(n, f, 2..Len(n.kids))
  <2>1. \A i \in 2..Len(n.kids) : i \in DOMAIN n.kids BY TreesAreGrammatical
  <2> QED BY <2>1, OfSame
<1>4. n.kind = "call" => CallsAmong(n, e, {1}) = CallsAmong(n, f, {1}) BY <1>1, TreesAreGrammatical, OfSame DEF Grammatical
<1> DEFINE all(calls) == CallsAmong(n, calls, DOMAIN n.kids)
           rest(calls) == CallsAmong(n, calls, 2..Len(n.kids))
           first(calls) == CallsAmong(n, calls, {1})
           target == call_target(n.kids[1])
<1>5. CASE n.kind = "call"
  <2>1. ASSUME NEW c
        PROVE  CallsIn(n, c) = {target} \cup rest(c) \cup (IF target = NoTarget THEN first(c) ELSE {})
    BY <1>5, CallsInIs
  <2>2. rest(e) = rest(f) /\ first(e) = first(f) BY <1>3, <1>4, <1>5
  <2> HIDE DEF rest, first, target
  <2> QED BY <2>1, <2>2
<1>6. CASE n.kind \in OperatorKinds
  <2> DEFINE own == IF n.op \in Assignments \cup {"|>"} THEN {Special} ELSE {<<n.op>>}
  <2>1. ASSUME NEW c PROVE CallsIn(n, c) = all(c) \cup own BY <1>6, CallsInIs
  <2> HIDE DEF own
  <2> QED BY <1>2, <2>1
<1>7. CASE n.kind \in GroupKinds
  <2>1. ASSUME NEW c PROVE CallsIn(n, c) = all(c) BY <1>7, CallsInIs
  <2> QED BY <1>2, <2>1
<1>8. CASE n.kind = "special"
  <2>1. ASSUME NEW c PROVE CallsIn(n, c) = {Special} \cup all(c) BY <1>8, CallsInIs
  <2> QED BY <1>2, <2>1
<1>9. CASE n.kind \notin {"call", "special"} \cup OperatorKinds \cup GroupKinds
  <2>1. ASSUME NEW c PROVE CallsIn(n, c) = IF n.kind = "namespace_operator" THEN {Special} ELSE {}
    BY <1>9, CallsInIs
  <2> QED BY <2>1
<1> QED BY <1>5, <1>6, <1>7, <1>8, <1>9

LEMMA CallsRule == \A n \in Trees : Calls[n] = CallsIn(n, Calls)
<1> DEFINE A == SUBSET CallNames
           g == [x \in Trees \X [Trees -> A] |-> CallsIn(x[1], x[2])]
           Is(f) == f = [n \in Trees |-> CallsIn(n, f)]
<1>1. ASSUME NEW n \in Trees, NEW f \in [Trees -> A] PROVE CallsIn(n, f) \in A
  <2>1. \A i \in DOMAIN n.kids : f[n.kids[i]] \subseteq CallNames BY TreesAreGrammatical
  <2>2. 2..Len(n.kids) \subseteq DOMAIN n.kids BY TreesAreGrammatical
  <2>3. ASSUME n.kind = "call"
        PROVE  1 \in DOMAIN n.kids /\ n.kids[1] \in Trees /\ call_target(n.kids[1]) \in CallNames
    <3>1. 1 \in DOMAIN n.kids /\ n.kids[1] \in Trees BY <2>3, TreesAreGrammatical DEF Grammatical
    <3> QED BY <3>1 DEF call_target, CallNames
  <2>4. <<n.op>> \in CallNames /\ Special \in CallNames BY DEF CallNames
  <2> HIDE DEF CallNames
  <2>5. CallsAmong(n, f, DOMAIN n.kids) \subseteq CallNames /\ CallsAmong(n, f, 2..Len(n.kids)) \subseteq CallNames
    BY <2>1, <2>2 DEF CallsAmong
  <2>6. n.kind = "call" => CallsAmong(n, f, {1}) \subseteq CallNames BY <2>1, <2>3 DEF CallsAmong
  <2> HIDE DEF Assignments, Special
  <2> QED BY <2>3, <2>4, <2>5, <2>6, CallsInIs
<1>2. g \in [Trees \X [Trees -> A] -> A]
  <2> HIDE DEF A
  <2> QED BY <1>1
<1>3. \A n \in Trees : \A f \in [Trees -> A] : g[<<n, f>>] = CallsIn(n, f) OBVIOUS
<1>4. GoesDown(g, Trees, A, TreeHeights)
  <2>1. ASSUME NEW n \in Trees, NEW e \in [Trees -> A], NEW f \in [Trees -> A],
               \A m \in Trees : TreeHeights[m] < TreeHeights[n] => e[m] = f[m]
        PROVE  g[<<n, e>>] = g[<<n, f>>]
    <3>1. \A i \in DOMAIN n.kids : e[n.kids[i]] = f[n.kids[i]]
      BY <2>1, TreesAreGrammatical DEF TreeHeights
    <3>2. CallsIn(n, e) = CallsIn(n, f) BY <3>1, CallsInSame
    <3> HIDE DEF g
    <3> QED BY <1>3, <3>2
  <2>2. TreeHeights \in [Trees -> Nat] BY TreesAreGrammatical DEF TreeHeights
  <2> HIDE DEF g, A
  <2> QED BY <1>2, <2>1, <2>2 DEF GoesDown
<1>5. A # {} OBVIOUS
<1> HIDE DEF g, A
<1>6. Solvable(g, Trees, A) BY <1>4, <1>5, Recursion
<1>7. \E f : Is(f)
  <2>1. PICK f \in [Trees -> A] : \A n \in Trees : f[n] = g[<<n, f>>] BY <1>6 DEF Solvable
  <2>2. Is(f) BY <1>3, <2>1
  <2> HIDE DEF Is
  <2> QED BY <2>2
<1>8. Calls = CHOOSE h : Is(h) BY DEF Calls, CallsIn, CallsAmong
<1>9. Is(Calls)
  <2> HIDE DEF Is
  <2> QED BY <1>7, <1>8
<1> DEFINE v == Calls
<1>10. v = [n \in Trees |-> CallsIn(n, v)] BY <1>9
<1> HIDE DEF v
<1> QED BY <1>10 DEF v


LEMMA CallsOfBelow ==
  ASSUME NEW n \in Trees, NEW i \in DOMAIN n.kids, n.kind # "call" \/ i # 1,
         n.kind \in {"call", "special"} \cup OperatorKinds \cup GroupKinds
  PROVE  Calls[n.kids[i]] \subseteq Calls[n]
<1>1. n.kids \in Seq(Trees) BY TreesAreGrammatical
<1>2. Calls[n.kids[i]] \subseteq CallsAmong(n, Calls, DOMAIN n.kids) BY DEF CallsAmong
<1>3. i # 1 => i \in 2..Len(n.kids) BY <1>1
<1>4. i # 1 => Calls[n.kids[i]] \subseteq CallsAmong(n, Calls, 2..Len(n.kids)) BY <1>3 DEF CallsAmong
<1>5. Calls[n] = CallsIn(n, Calls) BY CallsRule
<1> QED BY <1>2, <1>4, <1>5, CallsInIs

LEMMA InertCalls ==
  ASSUME NEW n \in Trees, n.kind \in Inert \cup LeafKinds \cup {"dots"}
  PROVE  Calls[n] = {}
<1>1. n.kind \notin {"call", "namespace_operator", "special"} \cup OperatorKinds \cup GroupKinds
  BY DEF Inert, LeafKinds, OperatorKinds, GroupKinds
<1> QED BY <1>1, CallsRule, CallsInIs

\* What the walk lets through calls only what is listed, below arguments as well.
LEMMA ValidCallsListed ==
  ASSUME NEW allowlist
  PROVE  \A n \in Trees : validate_expression(allowlist)[n] => Calls[n] \subseteq allowlist
<1> DEFINE valid == validate_expression(allowlist)
           Bad == {n \in Trees : valid[n] /\ ~(Calls[n] \subseteq allowlist)}
           Depths == {Height(n) : n \in Bad}
<1>1. \A n \in Trees : valid[n] = Expression(n, allowlist, valid) BY ExpressionRule
<1> HIDE DEF valid
<1> SUFFICES ASSUME Bad # {} PROVE FALSE BY DEF valid
<1>2. Depths \in SUBSET Nat /\ Depths # {} BY TreesAreGrammatical
<1>3. PICK h \in Depths : \A k \in Depths : h <= k BY <1>2, SmallestNat
<1>4. PICK n \in Bad : h = Height(n) BY <1>3
<1>5. n \in Trees /\ valid[n] /\ Grammatical(n) /\ Expression(n, allowlist, valid)
  BY <1>1, <1>4, TreesAreGrammatical
<1>6. ASSUME NEW i \in DOMAIN n.kids, n.kids[i].kind \in Inert \/ valid[n.kids[i]]
      PROVE  Calls[n.kids[i]] \subseteq allowlist
  <2> DEFINE k == n.kids[i]
  <2>1. k \in Trees /\ Height(k) < Height(n) /\ Height(k) \in Nat /\ Height(n) \in Nat
    BY <1>5, TreesAreGrammatical
  <2>2. k \notin Bad BY <1>3, <1>4, <2>1
  <2> QED BY <1>6, <2>1, <2>2, InertCalls
<1>7. Calls[n] = CallsIn(n, Calls) /\ n.kids \in Seq(Trees) BY <1>5, CallsRule, TreesAreGrammatical
<1>8. CASE n.kind \in LeafKinds \cup {"comment", "dots"}
  BY <1>4, <1>8, InertCalls DEF Inert
<1>9. CASE n.kind = "call" /\ validate_call(n, allowlist, valid)
  <2>1. CallsAmong(n, Calls, 2..Len(n.kids)) \subseteq allowlist
    BY <1>6, <1>7, <1>9 DEF CallsAmong, validate_call
  <2>2. call_target(n.kids[1]) # NoTarget /\ call_target(n.kids[1]) \in allowlist
    BY <1>9 DEF validate_call
  <2>3. Calls[n] \subseteq allowlist BY <1>7, <1>9, <2>1, <2>2, CallsInIs
  <2> QED BY <1>4, <2>3
<1>10. CASE n.kind \in OperatorKinds /\ validate_operator(n, allowlist, valid)
  <2>1. CallsAmong(n, Calls, DOMAIN n.kids) \subseteq allowlist
    BY <1>6, <1>10 DEF CallsAmong, validate_operator
  <2>2. n.op \notin Assignments \cup {"|>"} /\ <<n.op>> \in allowlist
    BY <1>5, <1>10 DEF Grammatical, validate_operator
  <2>3. Calls[n] \subseteq allowlist BY <1>7, <1>10, <2>1, <2>2, CallsInIs
  <2> QED BY <1>4, <2>3
<1>11. CASE n.kind \in GroupKinds /\ validate_group(n, valid)
  <2>1. CallsAmong(n, Calls, DOMAIN n.kids) \subseteq allowlist
    BY <1>6, <1>11 DEF CallsAmong, validate_group
  <2>2. Calls[n] \subseteq allowlist BY <1>7, <1>11, <2>1, CallsInIs
  <2> QED BY <1>4, <2>2
<1> QED BY <1>5, <1>8, <1>9, <1>10, <1>11 DEF Expression

\* And lets through what calls only what is listed.
LEMMA ListedCallsValid ==
  ASSUME NEW allowlist, Special \notin allowlist, NoTarget \notin allowlist
  PROVE  \A n \in Trees : n.kind # "comma" /\ Calls[n] \subseteq allowlist
                            => validate_expression(allowlist)[n]
<1> DEFINE valid == validate_expression(allowlist)
           Bad == {n \in Trees : n.kind # "comma" /\ Calls[n] \subseteq allowlist /\ ~valid[n]}
           Depths == {Height(n) : n \in Bad}
<1>1. \A n \in Trees : valid[n] = Expression(n, allowlist, valid) BY ExpressionRule
<1> HIDE DEF valid
<1> SUFFICES ASSUME Bad # {} PROVE FALSE BY DEF valid
<1>2. Depths \in SUBSET Nat /\ Depths # {} BY TreesAreGrammatical
<1>3. PICK h \in Depths : \A k \in Depths : h <= k BY <1>2, SmallestNat
<1>4. PICK n \in Bad : h = Height(n) BY <1>3
<1>5. /\ n \in Trees /\ n.kind # "comma" /\ Calls[n] \subseteq allowlist
      /\ Grammatical(n) /\ n.kids \in Seq(Trees) /\ ~Expression(n, allowlist, valid)
  BY <1>1, <1>4, TreesAreGrammatical
<1>6. ASSUME NEW i \in DOMAIN n.kids, n.kind # "call" \/ i # 1,
             n.kind \in {"call"} \cup OperatorKinds \cup GroupKinds
      PROVE  n.kids[i].kind = "comma" \/ valid[n.kids[i]]
  <2> DEFINE k == n.kids[i]
  <2>1. k \in Trees /\ Height(k) < Height(n) /\ Height(k) \in Nat /\ Height(n) \in Nat
    BY <1>5, TreesAreGrammatical
  <2>2. k \notin Bad BY <1>3, <1>4, <2>1
  <2>3. Calls[k] \subseteq Calls[n] BY <1>5, <1>6, CallsOfBelow
  <2> QED BY <1>5, <2>1, <2>2, <2>3
<1>7. Calls[n] = CallsIn(n, Calls) BY <1>5, CallsRule
<1>8. CASE n.kind \in LeafKinds \cup {"comment", "dots"} BY <1>5, <1>8 DEF Expression
<1>9. CASE n.kind = "call"
  <2>1. call_target(n.kids[1]) \in Calls[n] BY <1>7, <1>9, CallsInIs
  <2>2. \A i \in 2..Len(n.kids) : i \in DOMAIN n.kids /\ i # 1 BY <1>5
  <2>3. \A i \in 2..Len(n.kids) : n.kids[i].kind \in Inert \/ valid[n.kids[i]]
    BY <1>6, <1>9, <2>2 DEF Inert
  <2>4. n.kids # <<>> BY <1>5, <1>9 DEF Grammatical
  <2>5. validate_call(n, allowlist, valid) BY <1>5, <2>1, <2>3, <2>4 DEF validate_call
  <2> QED BY <1>5, <1>9, <2>5 DEF Expression
<1>10. CASE n.kind \in OperatorKinds
  <2>1. n.op \notin Assignments \cup {"|>"} /\ <<n.op>> \in allowlist
    <3>1. (IF n.op \in Assignments \cup {"|>"} THEN {Special} ELSE {<<n.op>>}) \subseteq Calls[n]
      BY <1>7, <1>10, CallsInIs
    <3> QED BY <1>5, <3>1
  <2>2. n.kind # "call" BY <1>10 DEF OperatorKinds
  <2>3. \A i \in DOMAIN n.kids : valid[n.kids[i]] BY <1>5, <1>6, <1>10, <2>2 DEF Grammatical
  <2>4. validate_operator(n, allowlist, valid) BY <2>1, <2>3 DEF validate_operator
  <2> QED BY <1>5, <1>10, <2>4 DEF Expression
<1>11. CASE n.kind \in GroupKinds
  <2>1. n.kind # "call" BY <1>11 DEF GroupKinds
  <2>2. validate_group(n, valid) BY <1>6, <1>11, <2>1 DEF validate_group, Inert
  <2> QED BY <1>5, <1>11, <2>2 DEF Expression
<1>12. CASE n.kind \in {"namespace_operator", "special"}
  BY <1>5, <1>7, <1>12, CallsInIs
<1>13. n.kind \in LeafKinds \cup Inert \cup OperatorKinds \cup GroupKinds
                    \cup {"dots", "call", "namespace_operator", "special"}
  BY <1>5 DEF Grammatical
<1> QED BY <1>5, <1>8, <1>9, <1>10, <1>11, <1>12, <1>13 DEF Inert

LEMMA TopLevelCallsListed ==
  ASSUME NEW allowlist
  PROVE  \A n \in Trees : validate_top_level(allowlist)[n] => Calls[n] \subseteq allowlist
<1> DEFINE valid == validate_top_level(allowlist)
           Bad == {n \in Trees : valid[n] /\ ~(Calls[n] \subseteq allowlist)}
           Depths == {Height(n) : n \in Bad}
<1>1. \A n \in Trees : valid[n] <=> TopLevel(n, allowlist, valid) BY TopLevelRule
<1> HIDE DEF valid
<1> SUFFICES ASSUME Bad # {} PROVE FALSE BY DEF valid
<1>2. Depths \in SUBSET Nat /\ Depths # {} BY TreesAreGrammatical
<1>3. PICK h \in Depths : \A k \in Depths : h <= k BY <1>2, SmallestNat
<1>4. PICK n \in Bad : h = Height(n) BY <1>3
<1>5. n \in Trees /\ TopLevel(n, allowlist, valid) BY <1>1, <1>4
<1>6. CASE n.kind \in LeafKinds \cup {"comment"} BY <1>4, <1>6, InertCalls DEF Inert
<1>7. CASE validate_expression(allowlist)[n] BY <1>4, <1>7, ValidCallsListed
<1>8. ASSUME n.kind = "parenthesized_expression",
             NEW i \in DOMAIN n.kids, Uncommented(n.kids) = {i}, valid[n.kids[i]]
      PROVE  FALSE
  <2>1. ASSUME NEW j \in DOMAIN n.kids PROVE Calls[n.kids[j]] \subseteq allowlist
    <3> DEFINE k == n.kids[j]
    <3>1. k \in Trees /\ Height(k) < Height(n) /\ Height(k) \in Nat /\ Height(n) \in Nat
      BY <1>5, TreesAreGrammatical
    <3>2. j = i \/ k.kind = "comment" BY <1>8 DEF Uncommented
    <3>3. k \notin Bad BY <1>3, <1>4, <3>1
    <3> QED BY <1>8, <3>1, <3>2, <3>3, InertCalls DEF Inert
  <2>2. n.kind \in GroupKinds BY <1>8 DEF GroupKinds
  <2>3. Calls[n] = CallsAmong(n, Calls, DOMAIN n.kids) BY <1>5, <2>2, CallsRule, CallsInIs
  <2>4. Calls[n] \subseteq allowlist BY <2>1, <2>3 DEF CallsAmong
  <2> QED BY <1>4, <2>4
<1> QED BY <1>5, <1>6, <1>7, <1>8 DEF TopLevel

LEMMA ValidatedIsListed ==
  ASSUME NEW code \in Codes, NEW policy, ~policy.unrestricted, validate_with_policy(code, policy)
  PROVE  CallsOf(code) \subseteq policy.allowlist
<1>1. ASSUME NEW i \in DOMAIN code.children
      PROVE  Calls[code.children[i]] \subseteq policy.allowlist
  <2>1. code.children[i] \in Trees BY PolicyAssumption
  <2>2. CASE i \in Uncommented(code.children)
    BY <2>1, <2>2, TopLevelCallsListed DEF validate_with_policy
  <2>3. CASE i \notin Uncommented(code.children)
    BY <2>1, <2>3, InertCalls DEF Uncommented, Inert
  <2> QED BY <2>2, <2>3
<1> QED BY <1>1 DEF CallsOf

LEMMA ListedIsValidated ==
  ASSUME NEW code \in Codes, NEW policy, Plain(code), CallsOf(code) \subseteq policy.allowlist,
         Special \notin policy.allowlist, NoTarget \notin policy.allowlist
  PROVE  validate_with_policy(code, policy)
<1>1. ASSUME NEW i \in DOMAIN code.children
      PROVE  validate_top_level(policy.allowlist)[code.children[i]]
  <2> DEFINE n == code.children[i]  l == policy.allowlist
  <2>1. n \in Trees /\ n.kind \notin {"arguments", "argument", "comma"} /\ Grammatical(n)
    BY PolicyAssumption
  <2>2. Calls[n] \subseteq l BY DEF CallsOf
  <2>3. n.kind \notin {"parenthesized_expression", "dots"} \cup Inert BY DEF Plain
  <2>4. validate_expression(l)[n] BY <2>1, <2>2, ListedCallsValid
  <2>5. n.kind \notin {"namespace_operator", "special"}
    BY <2>1, <2>2, CallsRule, CallsInIs
  <2>6. n.kind \in LeafKinds \cup OperatorKinds \cup {"call"}
    BY <2>1, <2>3, <2>5 DEF Grammatical, GroupKinds, Inert
  <2>7. TopLevel(n, l, validate_top_level(l)) BY <2>4, <2>6 DEF TopLevel
  <2> QED BY <2>1, <2>7, TopLevelRule
<1> QED BY <1>1 DEF Plain, Uncommented, validate_with_policy

PolicyInv ==
  /\ evalPolicy.unrestricted \in BOOLEAN /\ evalPolicy.send_allow \in BOOLEAN
  /\ \A name \in evalPolicy.allowlist : Len(name) \in {1, 2}
  /\ evalVerdict \in {"none", "unasked", "allowed", "refused"}
  /\ evalVerdict \in {"allowed", "refused"} =>
       /\ evalCode \in Codes
       /\ evalVerdict = "allowed" <=> validate_with_policy(evalCode, evalPolicy)

LEMMA PolicyInvariant == PolicySpec => []PolicyInv
<1>1. PolicyInit => PolicyInv BY DEF PolicyInit, PolicyInv
<1>2. ASSUME PolicyInv, [PolicyNext]_policyVars PROVE PolicyInv'
  <2>1. CASE set_policy
    <3>1. PICK config \in Allowlists, cli \in Allowlists, unrestricted \in BOOLEAN,
               allow \in BOOLEAN :
            evalPolicy' = [allowlist |-> config \cup cli, unrestricted |-> unrestricted,
                           send_allow |-> allow]
      BY <2>1 DEF set_policy
    <3>2. \A name \in evalPolicy'.allowlist : Len(name) \in {1, 2} BY <3>1, PolicyAssumption
    <3> QED BY <2>1, <3>1, <3>2 DEF set_policy, PolicyInv
  <2>2. CASE validate BY <1>2, <2>2 DEF validate, PolicyInv
  <2>3. CASE UNCHANGED policyVars BY <1>2, <2>3 DEF policyVars, PolicyInv
  <2> QED BY <1>2, <2>1, <2>2, <2>3 DEF PolicyNext
<1> QED BY <1>1, <1>2, PTL DEF PolicySpec

\* For any code the parser makes a tree of, however deep, and any allowlist: silent
\* evaluation is refused unless all R calls for the code is listed (validate_with_policy),
\* and plain code that calls nothing else is let through.
THEOREM ListedRunsOnly == PolicySpec => []OnlyListedRuns
<1>1. ASSUME PolicyInv PROVE OnlyListedRuns
  <2> DEFINE l == evalPolicy.allowlist
  <2>1. SUFFICES ASSUME evalVerdict \in {"allowed", "refused"}
        PROVE  /\ evalVerdict = "allowed" => ~evalCode.broken
               /\ ~evalPolicy.unrestricted =>
                    /\ evalVerdict = "allowed" => CallsOf(evalCode) \subseteq l
                    /\ Plain(evalCode) /\ CallsOf(evalCode) \subseteq l => evalVerdict = "allowed"
    BY DEF OnlyListedRuns, policy_description
  <2>2. evalCode \in Codes /\ (evalVerdict = "allowed" <=> validate_with_policy(evalCode, evalPolicy))
    BY <1>1, <2>1 DEF PolicyInv
  <2>3. Special \notin l /\ NoTarget \notin l
    <3>1. Len(Special) = 3 /\ Len(NoTarget) = 0 BY DEF Special, NoTarget
    <3>2. \A name \in l : Len(name) \in {1, 2} BY <1>1 DEF PolicyInv
    <3> HIDE DEF l
    <3> QED BY <3>1, <3>2
  <2>4. evalVerdict = "allowed" => ~evalCode.broken BY <2>2 DEF validate_with_policy
  <2> QED BY <2>2, <2>3, <2>4, ValidatedIsListed, ListedIsValidated
<1>2. PolicyInv => OnlyListedRuns BY <1>1
<1> QED BY <1>2, PolicyInvariant, PTL

-----------------------------------------------------------------------------
(* The newest rows first.                                                  *)

\* A strict order of the elements of S, as the pairs that are in it.
Orders(R, S) ==
  /\ \A x \in S : <<x, x>> \notin R
  /\ \A x, y \in S : x # y => <<x, y>> \in R \/ <<y, x>> \in R
  /\ \A x, y, z \in S : <<x, y>> \in R /\ <<y, z>> \in R => <<x, z>> \in R
Preceding(R, S, x) == {y \in S : <<y, x>> \in R}
Ordered(f, R, S) ==
  /\ f \in [1..Cardinality(S) -> S] /\ {f[n] : n \in 1..Cardinality(S)} = S
  /\ \A m, n \in 1..Cardinality(S) : m < n => <<f[m], f[n]>> \in R
\* f has at each place an element with as many before it, where there is one.
Placed(f, R, S) ==
  /\ f = [n \in 1..Cardinality(S) |-> f[n]]
  /\ \A n \in 1..Cardinality(S) : \A x \in S :
       Cardinality(Preceding(R, S, x)) = n - 1 =>
         f[n] \in S /\ Cardinality(Preceding(R, S, f[n])) = n - 1

\* Each place in the order is taken, and only once.
LEMMA Ranks ==
  ASSUME NEW S, IsFiniteSet(S), NEW R, Orders(R, S), NEW f,
         Placed(f, R, S)
  PROVE  Ordered(f, R, S)
<1> DEFINE N == Cardinality(S)  rank == [x \in S |-> Cardinality(Preceding(R, S, x)) + 1]
<1>1. N \in Nat BY FS_CardinalityType
<1>2. ASSUME NEW x \in S
      PROVE  /\ IsFiniteSet(Preceding(R, S, x)) /\ Cardinality(Preceding(R, S, x)) \in Nat
             /\ rank[x] \in 1..N
  <2> DEFINE P == Preceding(R, S, x)
  <2>1. P \subseteq S /\ x \notin P BY DEF Preceding, Orders
  <2> HIDE DEF P
  <2>2. IsFiniteSet(P) BY <2>1, FS_Subset
  <2>3. Cardinality(P) \in Nat BY <2>2, FS_CardinalityType
  <2>4. Cardinality(P \cup {x}) = Cardinality(P) + 1 BY <2>1, <2>2, FS_AddElement
  <2>5. P \cup {x} \in SUBSET S BY <2>1
  <2>6. Cardinality(P \cup {x}) <= N BY <2>5, FS_Subset
  <2>7. rank[x] = Cardinality(P) + 1 BY DEF P
  <2>8. rank[x] \in 1..N BY <1>1, <2>3, <2>4, <2>6, <2>7
  <2> QED BY <2>2, <2>3, <2>8 DEF P
<1>3. ASSUME NEW x \in S, NEW y \in S, <<x, y>> \in R PROVE rank[x] < rank[y]
  <2> DEFINE P == Preceding(R, S, x)  Q == Preceding(R, S, y)
  <2>1. P \cup {x} \subseteq Q /\ x \notin P BY <1>3 DEF Preceding, Orders
  <2>2. /\ IsFiniteSet(P) /\ Cardinality(P) \in Nat /\ IsFiniteSet(Q) /\ Cardinality(Q) \in Nat
    BY <1>2
  <2>3. rank[x] = Cardinality(P) + 1 /\ rank[y] = Cardinality(Q) + 1 OBVIOUS
  <2> HIDE DEF P, Q, rank
  <2>4. Cardinality(P \cup {x}) = Cardinality(P) + 1 BY <2>1, <2>2, FS_AddElement
  <2>5. P \cup {x} \in SUBSET Q BY <2>1
  <2>6. Cardinality(P \cup {x}) <= Cardinality(Q) BY <2>2, <2>5, FS_Subset
  <2> QED BY <2>2, <2>3, <2>4, <2>6
<1>4. rank \in [S -> 1..N] BY <1>2
<1>5. \A x \in S : rank[x] = Cardinality(Preceding(R, S, x)) + 1 OBVIOUS
<1> HIDE DEF rank
<1>6. \A x, y \in S : rank[x] = rank[y] => x = y
  <2> SUFFICES ASSUME NEW x \in S, NEW y \in S, rank[x] = rank[y], x # y PROVE FALSE OBVIOUS
  <2>1. rank[x] < rank[y] \/ rank[y] < rank[x] BY <1>3 DEF Orders
  <2> QED BY <1>4, <2>1
<1>7. rank \in Injection(S, 1..N) BY <1>4, <1>6 DEF Injection, IsInjective
<1>8. IsFiniteSet(1..N) /\ Cardinality(1..N) = N BY <1>1, FS_Interval
<1>9. rank \in Surjection(S, 1..N)
  <2> DEFINE T == 1..N
  <2>1. rank \in Injection(S, T) /\ IsFiniteSet(T) /\ Cardinality(S) = Cardinality(T)
    BY <1>7, <1>8
  <2> HIDE DEF T
  <2>2. rank \in Surjection(S, T) BY <2>1, FS_Injection
  <2> QED BY <2>2 DEF T
<1>10. ASSUME NEW n \in 1..N PROVE f[n] \in S /\ rank[f[n]] = n
  <2>1. PICK x \in S : rank[x] = n BY <1>9 DEF Surjection
  <2>2. Cardinality(Preceding(R, S, x)) = n - 1
    BY <1>1, <1>2, <1>5, <2>1
  <2>3. f[n] \in S /\ Cardinality(Preceding(R, S, f[n])) = n - 1 BY <2>2 DEF Placed
  <2> QED BY <1>2, <1>5, <2>3
<1>11. f \in [1..N -> S] BY <1>10 DEF Placed
<1>12. S \subseteq {f[n] : n \in 1..N}
  <2>1. ASSUME NEW x \in S PROVE x \in {f[n] : n \in 1..N}
    <3>1. rank[x] \in 1..N BY <1>4
    <3>2. f[rank[x]] \in S /\ rank[f[rank[x]]] = rank[x] BY <1>10, <3>1
    <3>3. f[rank[x]] = x BY <1>6, <3>2
    <3> QED BY <3>1, <3>3
  <2> QED BY <2>1
<1>13. ASSUME NEW m \in 1..N, NEW n \in 1..N, m < n PROVE <<f[m], f[n]>> \in R
  <2>1. /\ f[m] \in S /\ rank[f[m]] = m /\ f[n] \in S /\ rank[f[n]] = n
        /\ m \in Nat /\ n \in Nat
    BY <1>1, <1>10
  <2>2. PICK a \in S, b \in S : a = f[m] /\ b = f[n] BY <2>1
  <2>3. rank[a] < rank[b] /\ rank[a] \in Nat /\ rank[b] \in Nat BY <1>13, <2>1, <2>2
  <2>4. a # b BY <2>3
  <2>5. <<b, a>> \notin R
    <3>1. SUFFICES ASSUME <<b, a>> \in R PROVE FALSE OBVIOUS
    <3>2. rank[b] < rank[a] BY <1>3, <3>1
    <3> QED BY <2>3, <3>2
  <2>6. <<a, b>> \in R BY <2>4, <2>5 DEF Orders
  <2> QED BY <2>2, <2>6
<1> QED BY <1>11, <1>12, <1>13 DEF Ordered

\* The newest of S, as many as there may be.
NewestOnes(e, S, limit) ==
  /\ e \in Seq(S) /\ Len(e) <= limit
  /\ Len(e) = IF Cardinality(S) < limit THEN Cardinality(S) ELSE limit
  /\ \A i, j \in DOMAIN e : i < j => e[i] > e[j]
  /\ \A r \in S : \/ \E i \in DOMAIN e : e[i] = r
                  \/ (Len(e) = limit /\ Cardinality(S) > limit /\ \A i \in DOMAIN e : e[i] > r)

LEMMA NewestIs ==
  ASSUME NEW S \in SUBSET Nat, IsFiniteSet(S), NEW limit \in Nat
  PROVE  NewestOnes(Newest(S, limit), S, limit)
<1> DEFINE R == {p \in S \X S : p[1] > p[2]}  N == Cardinality(S)
           all == InOrder(S, LAMBDA x, y : x > y)
           m == IF N < limit THEN N ELSE limit  e == Newest(S, limit)
<1>1. N \in Nat BY FS_CardinalityType
<1>2. Orders(R, S) BY DEF Orders
<1>3. ASSUME NEW x \in S PROVE Preceding(R, S, x) = {y \in S : y > x} BY DEF Preceding
<1>4. Ordered(all, R, S)
  <2>1. all = [n \in 1..N |-> CHOOSE x \in S : Cardinality({y \in S : y > x}) = n - 1]
    BY DEF InOrder
  <2>2. ASSUME NEW n \in 1..N, NEW x \in S, Cardinality(Preceding(R, S, x)) = n - 1
        PROVE  all[n] \in S /\ Cardinality(Preceding(R, S, all[n])) = n - 1
    <3>1. Cardinality({y \in S : y > x}) = n - 1 BY <1>3, <2>2
    <3> HIDE DEF R, all, N
    <3>2. all[n] \in S /\ Cardinality({y \in S : y > all[n]}) = n - 1 BY <2>1, <3>1
    <3> QED BY <1>3, <3>2
  <2> HIDE DEF R, all, N
  <2>3. all = [n \in 1..N |-> all[n]] BY <2>1
  <2>4. Placed(all, R, S) BY <2>2, <2>3 DEF Placed, N
  <2> QED BY <1>2, <2>4, Ranks
<1>5. all \in [1..N -> S] /\ DOMAIN all = 1..N /\ {all[n] : n \in 1..N} = S
  BY <1>4 DEF Ordered
<1>6. \A i, j \in 1..N : i < j => all[i] > all[j]
  <2>1. ASSUME NEW i \in 1..N, NEW j \in 1..N, i < j PROVE all[i] > all[j]
    <3>1. <<all[i], all[j]>> \in R BY <1>4, <2>1 DEF Ordered
    <3> HIDE DEF all
    <3> QED BY <3>1
  <2> QED BY <2>1
<1> HIDE DEF all, R
<1>7. all \in Seq(S) /\ Len(all) = N BY <1>1, <1>5
<1>8. e = SubSeq(all, 1, m)
  <2>1. e = SubSeq(all, 1, IF Len(all) < limit THEN Len(all) ELSE limit) BY DEF Newest, all
  <2> QED BY <1>7, <2>1
<1> HIDE DEF e
<1>9. m \in Nat /\ m <= N /\ m <= limit BY <1>1
<1>10. e \in Seq(S) /\ Len(e) = m /\ DOMAIN e = 1..m /\ \A i \in 1..m : e[i] = all[i]
  <2> HIDE DEF m, N
  <2> QED BY <1>1, <1>7, <1>8, <1>9
<1>11. \A i, j \in DOMAIN e : i < j => e[i] > e[j] BY <1>1, <1>6, <1>9, <1>10
<1>12. ASSUME NEW r \in S, \A i \in DOMAIN e : e[i] # r
       PROVE  Len(e) = limit /\ N > limit /\ \A i \in DOMAIN e : e[i] > r
  <2>1. PICK n \in 1..N : all[n] = r BY <1>5
  <2>2. n > m BY <1>1, <1>9, <1>10, <1>12, <2>1
  <2>3. m = limit /\ N > limit BY <1>1, <2>2
  <2>4. ASSUME NEW i \in 1..m PROVE e[i] > r
    <3>1. i \in 1..N /\ i < n BY <1>1, <1>9, <2>2
    <3> QED BY <1>6, <1>10, <2>1, <3>1
  <2> QED BY <1>10, <2>3, <2>4
<1>13. \A r \in S : \/ \E i \in DOMAIN e : e[i] = r
                    \/ (Len(e) = limit /\ Cardinality(S) > limit /\ \A i \in DOMAIN e : e[i] > r)
  BY <1>12
<1>14. e \in Seq(S) /\ Len(e) <= limit /\ Len(e) = m BY <1>9, <1>10
<1>15. NewestOnes(e, S, limit) BY <1>11, <1>13, <1>14 DEF NewestOnes
<1> QED BY <1>15 DEF e

-----------------------------------------------------------------------------
(* A client's history request.                                             *)

\* What has been matched so far, down to the row p.
MatchedDownTo(m, p) ==
  /\ m \in Seq(Ids)
  /\ \A i \in DOMAIN m : Matches(m[i]) /\ m[i] >= p
  /\ \A i, j \in DOMAIN m : i < j => m[i] > m[j]
  /\ p = 0 => m = <<>>
  /\ p > 0 => \A r \in qStayed : Matches(r) /\ r >= p => \E i \in DOMAIN m : m[i] = r

\* A page is searched: more rows are wanted, and all that match above it are there.
Searching ==
  /\ qPage \in 0..MaxRows /\ qAnswer = Unanswered
  /\ qAsked.limit \in Nat \ {0} /\ Len(qMatched) < qAsked.limit
  /\ MatchedDownTo(qMatched, qPage)

SearchInv ==
  /\ rows \in SUBSET Ids /\ lastRow \in 0..MaxRows /\ qStayed \in SUBSET rows
  /\ qPage = NoPage => qMatched = <<>>
  /\ qPage # NoPage => Searching
  /\ AnswerComplete

\* What a page adds, and what it leaves out.
Added(m) ==
  /\ m \in Seq(Ids)
  /\ \A i \in DOMAIN m : Matches(m[i])
  /\ \A i, j \in DOMAIN m : i < j => m[i] > m[j]
  /\ \A r \in qStayed : Matches(r) =>
       \/ \E i \in DOMAIN m : m[i] = r
       \/ (Len(Page) = PageSize /\ r < Last(Page) /\ \A i \in DOMAIN m : m[i] > r)
  /\ Len(Page) = PageSize =>
       Last(Page) \in Ids /\ \A i \in DOMAIN m : m[i] >= Last(Page)

LEMMA FiniteIds ==
  ASSUME NEW S \in SUBSET Ids
  PROVE  S \in SUBSET Nat /\ IsFiniteSet(S)
<1>1. 1 \in Int /\ MaxRows \in Int BY SharedAssumption
<1>2. IsFiniteSet(1..MaxRows) BY <1>1, FS_Interval
<1>3. S \in SUBSET (1..MaxRows) BY DEF Ids
<1>4. IsFiniteSet(S) BY <1>2, <1>3, FS_Subset
<1>5. S \in SUBSET Nat BY <1>1, <1>3
<1> QED BY <1>4, <1>5

\* The matching rows of a page are all there, in their order.
LEMMA PagesRows ==
  ASSUME rows \in SUBSET Ids,
         NEW S, S = {r \in rows : Row[r].found /\ (qPage > 0 => r < qPage)}
  PROVE  /\ NewestOnes(Page, S, PageSize)
         /\ PageMatches \in Seq(Ids)
         /\ \A i, j \in DOMAIN PageMatches : i < j => PageMatches[i] > PageMatches[j]
         /\ \A r \in Ids : (\E i \in DOMAIN PageMatches : PageMatches[i] = r)
                           <=> Matches(r) /\ \E i \in DOMAIN Page : Page[i] = r
         /\ \A i \in DOMAIN PageMatches : PageMatches[i] \in S
<1> DEFINE P == Page  M == PageMatches  T == {r \in Range(P) : Matches(r)}
<1>1. PageSize \in Nat \ {0} BY SearchAssumption
<1>2. S \in SUBSET Ids /\ S \in SUBSET Nat /\ IsFiniteSet(S) BY FiniteIds
<1>3. P = Newest(S, PageSize) BY DEF Page
<1>4. NewestOnes(P, S, PageSize) BY <1>1, <1>2, <1>3, NewestIs
<1> HIDE DEF P
<1>5. P \in Seq(S) /\ Len(P) <= PageSize /\ Len(P) \in Nat /\ DOMAIN P = 1..Len(P)
  BY <1>4 DEF NewestOnes
<1>6. Range(P) \in SUBSET S BY <1>5 DEF Range
<1>7. Cardinality(Range(P)) <= PageSize
  <2>1. IsFiniteSet(DOMAIN P) /\ Cardinality(DOMAIN P) = Len(P)
    <3>1. 1 \in Int /\ Len(P) \in Int BY <1>5
    <3> QED BY <1>5, <3>1, FS_Interval
  <2>2. P \in Surjection(DOMAIN P, Range(P)) BY <1>5 DEF Range, Surjection
  <2>3. Cardinality(Range(P)) <= Cardinality(DOMAIN P) /\ IsFiniteSet(Range(P))
    BY <2>1, <2>2, FS_Surjection
  <2>4. Cardinality(Range(P)) \in Nat BY <2>3, FS_CardinalityType
  <2> QED BY <1>1, <1>5, <2>1, <2>3, <2>4
<1>8. T \in SUBSET S /\ T \in SUBSET Nat /\ IsFiniteSet(T) /\ IsFiniteSet(Range(P))
  BY <1>2, <1>6, FS_Subset
<1>9. Cardinality(T) <= PageSize
  <2>1. T \in SUBSET Range(P) OBVIOUS
  <2> HIDE DEF T
  <2>2. Cardinality(T) <= Cardinality(Range(P)) BY <1>8, <2>1, FS_Subset
  <2>3. Cardinality(T) \in Nat /\ Cardinality(Range(P)) \in Nat BY <1>8, FS_CardinalityType
  <2> QED BY <1>1, <1>7, <2>2, <2>3
<1>10. M = Newest(T, PageSize) BY DEF PageMatches, P
<1> HIDE DEF M
<1>11. NewestOnes(M, T, PageSize)
  <2> HIDE DEF T
  <2> QED BY <1>1, <1>8, <1>10, NewestIs
<1>12. Cardinality(T) \in Nat BY <1>8, FS_CardinalityType
<1>13. M \in Seq(T) /\ \A r \in T : \E i \in DOMAIN M : M[i] = r
  <2> HIDE DEF T
  <2> QED BY <1>1, <1>9, <1>11, <1>12 DEF NewestOnes
<1>14. \A i, j \in DOMAIN M : i < j => M[i] > M[j] BY <1>11 DEF NewestOnes
<1>15. \A i \in DOMAIN M : M[i] \in T
  <2> HIDE DEF T
  <2> QED BY <1>13
<1>16. \A r \in Ids : (\E i \in DOMAIN M : M[i] = r) <=> r \in T BY <1>13, <1>15
<1>17. \A r \in Ids : r \in T <=> Matches(r) /\ \E i \in DOMAIN P : P[i] = r BY DEF Range
<1>18. M \in Seq(Ids)
  <2> HIDE DEF T
  <2>1. T \in SUBSET Ids BY <1>2, <1>8
  <2>2. Len(M) \in Nat /\ M = [i \in 1..Len(M) |-> M[i]] /\ DOMAIN M = 1..Len(M) BY <1>13
  <2>3. M \in [1..Len(M) -> Ids] BY <1>15, <2>1, <2>2 DEF T
  <2> QED BY <2>2, <2>3, SeqDef
<1>19. \A i \in DOMAIN M : M[i] \in S BY <1>8, <1>15
<1> QED BY <1>4, <1>14, <1>16, <1>17, <1>18, <1>19 DEF P, M

LEMMA PageAdds ==
  ASSUME rows \in SUBSET Ids, qStayed \in SUBSET rows, Searching
  PROVE  Added(qMatched \o PageMatches)
<1> DEFINE P == Page  M == PageMatches  q == qMatched  m == q \o M
           S == {r \in rows : Row[r].found /\ (qPage > 0 => r < qPage)}
<1>1. /\ NewestOnes(P, S, PageSize) /\ M \in Seq(Ids)
      /\ \A i, j \in DOMAIN M : i < j => M[i] > M[j]
      /\ \A r \in Ids : (\E i \in DOMAIN M : M[i] = r)
                        <=> Matches(r) /\ \E i \in DOMAIN P : P[i] = r
      /\ \A i \in DOMAIN M : M[i] \in S
  BY PagesRows
<1>2. PageSize \in Nat \ {0} BY SearchAssumption
<1>3. MatchedDownTo(q, qPage) /\ qPage \in Nat BY DEF Searching
<1>4. Ids \in SUBSET Nat BY SharedAssumption DEF Ids
<1>5. /\ P \in Seq(S) /\ \A i, j \in DOMAIN P : i < j => P[i] > P[j]
      /\ \A r \in S : \/ \E i \in DOMAIN P : P[i] = r
                      \/ (Len(P) = PageSize /\ \A i \in DOMAIN P : P[i] > r)
  BY <1>1 DEF NewestOnes
<1> HIDE DEF P, M
<1>6. q \in Seq(Ids) /\ Len(q) \in Nat /\ DOMAIN q = 1..Len(q) /\ Len(M) \in Nat /\ DOMAIN M = 1..Len(M)
  BY <1>1, <1>3 DEF MatchedDownTo
<1>7. \A r \in S : r \in rows /\ r \in Ids /\ (qPage > 0 => r < qPage) OBVIOUS
<1>8. \A r \in qStayed : Matches(r) /\ ~(qPage > 0 /\ r >= qPage) => r \in S
  BY <1>3, <1>4 DEF Matches
<1> HIDE DEF S
<1>9. /\ m \in Seq(Ids) /\ Len(m) = Len(q) + Len(M) /\ DOMAIN m = 1..Len(q) + Len(M)
      /\ \A i \in DOMAIN m : m[i] = IF i <= Len(q) THEN q[i] ELSE M[i - Len(q)]
  BY <1>1, <1>6
<1> HIDE DEF m
<1>10. \A i \in DOMAIN m : \/ i \in DOMAIN q /\ m[i] = q[i]
                          \/ (i - Len(q) \in DOMAIN M /\ m[i] = M[i - Len(q)])
  BY <1>6, <1>9
<1>11. \A i \in DOMAIN q : i \in DOMAIN m /\ m[i] = q[i] BY <1>6, <1>9
<1>12. \A i \in DOMAIN M : Len(q) + i \in DOMAIN m /\ m[Len(q) + i] = M[i]
  <2>1. ASSUME NEW i \in DOMAIN M PROVE Len(q) + i \in DOMAIN m /\ m[Len(q) + i] = M[i]
    <3>1. Len(q) + i \in 1..Len(q) + Len(M) /\ ~(Len(q) + i <= Len(q)) /\ Len(q) + i - Len(q) = i
      BY <1>6
    <3> QED BY <1>9, <3>1
  <2> QED BY <2>1
<1>13. \A i \in DOMAIN q : q[i] \in Ids /\ q[i] \in Nat
  <2>1. \A i \in DOMAIN q : q[i] \in Ids BY <1>6
  <2> QED BY <1>4, <2>1
<1>14. \A i \in DOMAIN M : M[i] \in Ids /\ M[i] \in Nat /\ (qPage > 0 => M[i] < qPage)
  BY <1>1, <1>4, <1>7
<1>15. qPage = 0 => q = <<>> /\ DOMAIN q = {} BY <1>3, <1>6 DEF MatchedDownTo
<1>16. \A i \in DOMAIN q : Matches(q[i]) /\ q[i] >= qPage BY <1>3 DEF MatchedDownTo
<1>17. \A i \in DOMAIN m : Matches(m[i]) BY <1>1, <1>10, <1>14, <1>16
<1>18. \A i \in DOMAIN q, j \in DOMAIN M : q[i] > M[j] BY <1>3, <1>13, <1>14, <1>15, <1>16
<1>19. ASSUME NEW i \in DOMAIN m, NEW j \in DOMAIN m, i < j PROVE m[i] > m[j]
  <2>1. CASE j <= Len(q) BY <1>3, <1>6, <1>9, <1>19, <2>1 DEF MatchedDownTo
  <2>2. CASE i <= Len(q) /\ j > Len(q)
    <3>1. i \in DOMAIN q /\ j - Len(q) \in DOMAIN M /\ m[i] = q[i] /\ m[j] = M[j - Len(q)]
      BY <1>6, <1>9, <2>2
    <3> QED BY <1>18, <3>1
  <2>3. CASE i > Len(q)
    <3>1. /\ i - Len(q) \in DOMAIN M /\ j - Len(q) \in DOMAIN M /\ i - Len(q) < j - Len(q)
          /\ m[i] = M[i - Len(q)] /\ m[j] = M[j - Len(q)]
      BY <1>6, <1>9, <1>19, <2>3
    <3> QED BY <1>1, <3>1
  <2> QED BY <1>6, <1>9, <2>1, <2>2, <2>3
\* The end of a full page
<1>20. ASSUME Len(P) = PageSize
       PROVE  /\ Last(P) \in Ids /\ (qPage > 0 => Last(P) < qPage)
              /\ \A i \in DOMAIN P : P[i] >= Last(P)
              /\ PageSize \in DOMAIN P /\ Last(P) = P[PageSize]
  <2>1. Last(P) = P[PageSize] /\ DOMAIN P = 1..PageSize BY <1>2, <1>5, <1>20 DEF Last
  <2>2. \A i \in DOMAIN P : P[i] \in S BY <1>5
  <2>3. \A i \in DOMAIN P : P[i] \in Ids /\ P[i] \in Nat /\ (qPage > 0 => P[i] < qPage)
    BY <1>4, <1>7, <2>2
  <2>4. PageSize \in DOMAIN P BY <1>2, <2>1
  <2>5. ASSUME NEW i \in DOMAIN P PROVE P[i] >= P[PageSize]
    <3>1. i = PageSize \/ i < PageSize BY <1>2, <2>1
    <3> QED BY <1>5, <2>3, <2>4, <3>1
  <2> QED BY <2>1, <2>3, <2>4, <2>5
<1>21. ASSUME Len(P) = PageSize PROVE \A i \in DOMAIN m : m[i] >= Last(P)
  <2>1. \A i \in DOMAIN M : M[i] >= Last(P)
    <3> SUFFICES ASSUME NEW i \in DOMAIN M PROVE M[i] >= Last(P) OBVIOUS
    <3>1. PICK k \in DOMAIN P : P[k] = M[i] BY <1>1, <1>14
    <3> QED BY <1>20, <1>21, <3>1
  <2>2. \A i \in DOMAIN q : q[i] >= Last(P)
    <3> SUFFICES ASSUME NEW i \in DOMAIN q PROVE q[i] >= Last(P) OBVIOUS
    <3>1. qPage > 0 BY <1>3, <1>15
    <3>2. Last(P) \in Nat /\ Last(P) < qPage BY <1>4, <1>20, <1>21, <3>1
    <3> QED BY <1>3, <1>13, <1>16, <3>2
  <2> QED BY <1>10, <2>1, <2>2
<1>22. ASSUME NEW r \in qStayed, Matches(r), ~(\E i \in DOMAIN m : m[i] = r)
       PROVE  Len(P) = PageSize /\ r < Last(P) /\ \A i \in DOMAIN m : m[i] > r
  <2>1. r \in Ids /\ r \in Nat BY <1>4
  <2>2. ~(qPage > 0 /\ r >= qPage) BY <1>3, <1>11, <1>22 DEF MatchedDownTo
  <2>3. r \in S BY <1>8, <1>22, <2>2
  <2>4. ~(\E i \in DOMAIN P : P[i] = r) BY <1>1, <1>12, <1>22, <2>1
  <2>5. Len(P) = PageSize /\ \A i \in DOMAIN P : P[i] > r BY <1>5, <2>3, <2>4
  <2>6. r < Last(P) /\ Last(P) \in Nat BY <1>4, <1>20, <2>1, <2>5
  <2>7. \A i \in DOMAIN m : m[i] \in Nat BY <1>10, <1>13, <1>14
  <2>8. \A i \in DOMAIN m : m[i] > r BY <1>21, <2>1, <2>5, <2>6, <2>7
  <2> QED BY <2>5, <2>6, <2>8
<1> QED BY <1>9, <1>17, <1>19, <1>20, <1>21, <1>22 DEF Added, P, M, m

\* There is enough, or nothing is below the page.
Enough(m, limit) == Len(m) >= limit \/ Len(Page) # PageSize

\* What is sent of what has been matched, once there is enough or nothing is below.
LEMMA SentIs ==
  ASSUME NEW m, Added(m), NEW limit \in Nat \ {0}, Enough(m, limit),
         NEW e, e = Taken(m, limit)
  PROVE  /\ Len(e) <= limit
         /\ \A i \in DOMAIN e : Matches(e[i]) /\ \A j \in 1..i - 1 : e[j] > e[i]
         /\ \A r \in qStayed : Matches(r) /\ r \notin Range(e) =>
              Len(e) = limit /\ \A i \in DOMAIN e : e[i] > r
<1>1. m \in Seq(Ids) BY DEF Added
<1>2. PICK n \in Nat : /\ n <= limit /\ n <= Len(m)
                       /\ (n = limit \/ (n = Len(m) /\ Len(m) < limit)) /\ e = SubSeq(m, 1, n)
  <2>1. CASE Len(m) < limit BY <1>1, <2>1 DEF Taken
  <2>2. CASE ~(Len(m) < limit) BY <1>1, <2>2 DEF Taken
  <2> QED BY <2>1, <2>2
<1>3. limit \in Nat OBVIOUS
<1>4. Len(e) = n /\ DOMAIN e = 1..n /\ \A i \in 1..n : e[i] = m[i] BY <1>1, <1>2, <1>3
<1>5. \A i \in DOMAIN e : Matches(e[i]) /\ \A j \in 1..i - 1 : e[j] > e[i]
  BY <1>1, <1>2, <1>4 DEF Added
<1>6. ASSUME NEW r \in qStayed, Matches(r), r \notin Range(e)
      PROVE  Len(e) = limit /\ \A i \in DOMAIN e : e[i] > r
  <2>1. \A i \in 1..n : m[i] # r BY <1>4, <1>6 DEF Range
  <2>2. CASE \E k \in DOMAIN m : m[k] = r
    <3>1. PICK k \in DOMAIN m : m[k] = r BY <2>2
    <3>2. k > n /\ n = limit BY <1>1, <1>2, <2>1, <3>1
    <3>3. ASSUME NEW i \in 1..n PROVE m[i] > r
      <4>1. i \in DOMAIN m /\ i < k BY <1>1, <1>2, <3>1, <3>2
      <4> QED BY <3>1, <4>1 DEF Added
    <3> QED BY <1>4, <3>2, <3>3
  <2>3. CASE ~(\E k \in DOMAIN m : m[k] = r)
    <3>1. Len(Page) = PageSize /\ \A i \in DOMAIN m : m[i] > r BY <1>6, <2>3 DEF Added
    <3>2. n = limit BY <1>1, <1>2, <1>3, <3>1 DEF Enough
    <3>3. \A i \in 1..n : i \in DOMAIN m BY <1>1, <1>2
    <3> QED BY <1>4, <3>1, <3>2, <3>3
  <2> QED BY <2>2, <2>3
<1> QED BY <1>2, <1>4, <1>5, <1>6

\* What one query of the database answers.
LEMMA OnceIs ==
  ASSUME rows \in SUBSET Ids, qStayed \in SUBSET rows,
         qAsked.all, qAsked.since = "none", NEW limit \in Nat \ {0},
         NEW e, e = Newest({r \in rows : Row[r].found}, limit)
  PROVE  /\ Len(e) <= limit
         /\ \A i \in DOMAIN e : Matches(e[i]) /\ \A j \in 1..i - 1 : e[j] > e[i]
         /\ \A r \in qStayed : Matches(r) /\ r \notin Range(e) =>
              Len(e) = limit /\ \A i \in DOMAIN e : e[i] > r
<1> DEFINE S == {r \in rows : Row[r].found}
<1>1. S \in SUBSET Ids /\ S \in SUBSET Nat /\ IsFiniteSet(S) BY FiniteIds
<1>2. NewestOnes(e, S, limit)
  <2> HIDE DEF S
  <2>1. NewestOnes(Newest(S, limit), S, limit) BY <1>1, NewestIs
  <2>2. e = Newest(S, limit) BY DEF S
  <2> QED BY <2>1, <2>2
<1>3. \A r \in S : Matches(r) BY DEF Matches
<1>4. \A r \in qStayed : Matches(r) => r \in S BY DEF Matches
<1> HIDE DEF S
<1>5. e \in Seq(S) /\ DOMAIN e = 1..Len(e) /\ Len(e) \in Nat /\ Len(e) <= limit BY <1>2 DEF NewestOnes
<1>6. \A i \in DOMAIN e : e[i] \in S BY <1>5
<1>7. \A i \in DOMAIN e : Matches(e[i]) /\ \A j \in 1..i - 1 : e[j] > e[i]
  <2> SUFFICES ASSUME NEW i \in DOMAIN e, NEW j \in 1..i - 1 PROVE e[j] > e[i] BY <1>3, <1>6
  <2>1. j \in DOMAIN e /\ j < i BY <1>5
  <2> QED BY <1>2, <2>1 DEF NewestOnes
<1>8. ASSUME NEW r \in qStayed, Matches(r), r \notin Range(e)
      PROVE  Len(e) = limit /\ \A i \in DOMAIN e : e[i] > r
  <2>1. r \in S /\ ~(\E i \in DOMAIN e : e[i] = r) BY <1>4, <1>8 DEF Range
  <2> QED BY <1>2, <2>1 DEF NewestOnes
<1> QED BY <1>5, <1>7, <1>8

\* An answer to the request there is, in which the properties of rows stay what they were.
LEMMA AnswerIs ==
  ASSUME NEW e, qAnswer' = Entries(e), UNCHANGED <<qAsked, qStayed>>,
         Len(e) <= qAsked.limit,
         \A i \in DOMAIN e : Matches(e[i]) /\ \A j \in 1..i - 1 : e[j] > e[i],
         \A r \in qStayed : Matches(r) /\ r \notin Range(e) =>
           Len(e) = qAsked.limit /\ \A i \in DOMAIN e : e[i] > r
  PROVE  AnswerComplete'
<1>1. qAnswer'.entries = e BY DEF Entries
<1>2. \A r : Matches(r)' <=> Matches(r) BY DEF Matches
<1> QED BY <1>1, <1>2 DEF AnswerComplete

\* While nothing is answered there is nothing to show.
LEMMA NotAnswered == ASSUME qAnswer' # Unanswered => qAnswer'.kind # "entries"
                     PROVE  AnswerComplete'
BY DEF AnswerComplete, Unanswered

LEMMA SearchStarts == SharedInit /\ SearchInit => SearchInv
<1> SUFFICES ASSUME SharedInit, SearchInit PROVE SearchInv OBVIOUS
<1>1. MaxRows \in Nat BY SharedAssumption
<1>2. rows \in SUBSET Ids /\ lastRow \in 0..MaxRows /\ qStayed \in SUBSET rows
  BY <1>1 DEF SharedInit, SearchInit, Ids
<1>3. qPage = NoPage /\ qMatched = <<>> /\ qAnswer = Unanswered BY DEF SearchInit
<1>4. AnswerComplete BY <1>3 DEF AnswerComplete, Unanswered
<1> QED BY <1>2, <1>3, <1>4 DEF SearchInv

LEMMA SearchSteps == SearchInv /\ [SearchNext]_<<searchVars, storeVars>> => SearchInv'
<1> SUFFICES ASSUME SearchInv, [SearchNext]_<<searchVars, storeVars>> PROVE SearchInv' OBVIOUS
<1>0. MaxRows \in Nat /\ Ids \in SUBSET Nat /\ NoPage \notin 0..MaxRows
  BY SharedAssumption DEF Ids, NoPage
<1>1. ASSUME NEW request \in Requests, Ask(request) PROVE SearchInv'
  <2>1. rows' = rows /\ lastRow' = lastRow /\ qStayed' = rows BY <1>1 DEF Ask, storeVars
  <2>2. qMatched' = <<>> BY <1>1 DEF Ask, SearchInv
  <2>3. AnswerComplete' BY <1>1, NotAnswered DEF Ask, Error, Unanswered
  <2>4. ASSUME qPage' # NoPage PROVE Searching'
    <3>1. /\ qPage' = 0 /\ qAnswer' = Unanswered /\ qAsked'.limit >= 1
          /\ qAsked'.limit \in Int
      BY <1>1, <2>4, SearchAssumption DEF Ask, Requests
    <3>2. MatchedDownTo(qMatched, qPage)'
      <4>1. qMatched' \in Seq(Ids) /\ DOMAIN qMatched' = {} BY <2>2
      <4> QED BY <2>2, <3>1, <4>1 DEF MatchedDownTo
    <3> QED BY <1>0, <2>2, <3>1, <3>2 DEF Searching
  <2> QED BY <2>1, <2>2, <2>3, <2>4 DEF SearchInv
<1>2. ASSUME SearchOnce PROVE SearchInv'
  <2>1. /\ UNCHANGED <<qAsked, qMatched, qStayed, rows, lastRow>> /\ qPage' = NoPage
        /\ qPage = 0 /\ qPage # NoPage
    BY <1>0, <1>2 DEF SearchOnce, storeVars
  <2>2. Searching BY <2>1 DEF SearchInv
  <2>3. qMatched' = <<>> BY <2>1, <2>2 DEF Searching, MatchedDownTo
  <2>4. AnswerComplete'
    <3> DEFINE e == Newest({r \in rows : Row[r].found}, qAsked.limit)
    <3>1. /\ qAsked.limit \in Nat \ {0} /\ rows \in SUBSET Ids /\ qStayed \in SUBSET rows
          /\ qAsked.all /\ qAsked.since = "none" /\ qAnswer' = Entries(e)
      BY <1>2, <2>2 DEF Searching, SearchInv, SearchOnce
    <3> HIDE DEF e
    <3>2. PICK f : f = e OBVIOUS
    <3>3. f = Newest({r \in rows : Row[r].found}, qAsked.limit) BY <3>2 DEF e
    <3>4. /\ Len(f) <= qAsked.limit
          /\ \A i \in DOMAIN f : Matches(f[i]) /\ \A j \in 1..i - 1 : f[j] > f[i]
          /\ \A r \in qStayed : Matches(r) /\ r \notin Range(f) =>
               Len(f) = qAsked.limit /\ \A i \in DOMAIN f : f[i] > r
      BY <3>1, <3>3, OnceIs
    <3> QED BY <2>1, <3>1, <3>2, <3>4, AnswerIs
  <2> QED BY <2>1, <2>3, <2>4 DEF SearchInv
<1>3. ASSUME SearchPage PROVE SearchInv'
  <2>1. UNCHANGED <<qAsked, qStayed, rows, lastRow>> /\ qPage # NoPage
    BY <1>3 DEF SearchPage, storeVars
  <2>2. Searching BY <2>1 DEF SearchInv
  <2>3. qAsked.limit \in Nat \ {0} /\ PageSize \in Nat \ {0} BY <2>2, SearchAssumption DEF Searching
  <2>4. PICK m : m = qMatched \o PageMatches OBVIOUS
  <2>5. Added(m) BY <2>2, <2>4, PageAdds DEF SearchInv
  <2>6. Len(m) \in Nat /\ m \in Seq(Ids) BY <2>5 DEF Added
  <2>7. CASE Len(m) >= qAsked.limit \/ LastPage
    <3>1. qAnswer' = Entries(Taken(m, qAsked.limit)) /\ qPage' = NoPage /\ qMatched' = <<>>
      BY <1>3, <2>4, <2>7 DEF SearchPage
    <3>2. PICK e : e = Taken(m, qAsked.limit) OBVIOUS
    <3>3. Enough(m, qAsked.limit) BY <2>3, <2>7 DEF LastPage, Enough
    <3>4. /\ Len(e) <= qAsked.limit
          /\ \A i \in DOMAIN e : Matches(e[i]) /\ \A j \in 1..i - 1 : e[j] > e[i]
          /\ \A r \in qStayed : Matches(r) /\ r \notin Range(e) =>
               Len(e) = qAsked.limit /\ \A i \in DOMAIN e : e[i] > r
      BY <2>3, <2>5, <3>2, <3>3, SentIs
    <3>5. AnswerComplete' BY <2>1, <3>1, <3>2, <3>4, AnswerIs
    <3> QED BY <2>1, <3>1, <3>5 DEF SearchInv
  <2>8. CASE ~(Len(m) >= qAsked.limit \/ LastPage)
    <3>1. qPage' = Last(Page) /\ qMatched' = m /\ qAnswer' = qAnswer
      BY <1>3, <2>4, <2>8 DEF SearchPage
    <3>2. Len(Page) = PageSize
      <4>1. rows \in SUBSET Ids BY DEF SearchInv
      <4>2. PICK S : S = {r \in rows : Row[r].found /\ (qPage > 0 => r < qPage)} OBVIOUS
      <4>3. NewestOnes(Page, S, PageSize) BY <4>1, <4>2, PagesRows
      <4>4. Len(Page) \in Nat /\ Len(Page) <= PageSize BY <4>3 DEF NewestOnes
      <4> QED BY <2>3, <2>8, <4>4 DEF LastPage
    <3>3. PICK p : p = Last(Page) OBVIOUS
    <3>4. /\ p \in Ids /\ p \in Nat /\ p > 0 /\ p \in 0..MaxRows
          /\ \A i \in DOMAIN m : Matches(m[i]) /\ m[i] >= p
      BY <1>0, <2>5, <3>2, <3>3 DEF Added, Ids
    <3>5. ASSUME NEW r \in qStayed, Matches(r), r >= p PROVE \E i \in DOMAIN m : m[i] = r
      <4>1. r \in Nat BY <1>0 DEF SearchInv
      <4>2. ~(r < p) BY <3>4, <3>5, <4>1
      <4> QED BY <2>5, <3>3, <3>5, <4>2 DEF Added
    <3>6. \A r : Matches(r)' <=> Matches(r) BY <2>1 DEF Matches
    <3>7. MatchedDownTo(qMatched, qPage)'
      BY <2>1, <2>5, <2>6, <3>1, <3>3, <3>4, <3>5, <3>6 DEF MatchedDownTo, Added
    <3>8. Searching' BY <2>1, <2>2, <2>3, <2>6, <2>8, <3>1, <3>3, <3>4, <3>7 DEF Searching
    <3>9. AnswerComplete' BY <2>2, <3>1, NotAnswered DEF Searching
    <3>10. qPage' # NoPage BY <1>0, <3>1, <3>3, <3>4
    <3> QED BY <2>1, <3>8, <3>9, <3>10 DEF SearchInv
  <2> QED BY <2>7, <2>8
<1>4. ASSUME SearchFails PROVE SearchInv'
  <2>1. /\ UNCHANGED <<qStayed, rows, lastRow>> /\ qPage' = NoPage /\ qMatched' = <<>>
        /\ qAnswer' = Error("internal")
    BY <1>4 DEF SearchFails, storeVars
  <2>2. AnswerComplete' BY <2>1, NotAnswered DEF Error
  <2> QED BY <2>1, <2>2 DEF SearchInv
<1>5. ASSUME Meanwhile PROVE SearchInv'
  <2>1. /\ UNCHANGED <<qAsked, qPage, qMatched, qAnswer>> /\ qStayed' = qStayed \cap rows'
        /\ qAnswer = Unanswered
    BY <1>5 DEF Meanwhile
  <2>2. rows' \in SUBSET Ids /\ lastRow' \in 0..MaxRows
    <3>1. CASE OtherInserts BY <1>0, <3>1 DEF OtherInserts, SearchInv, Ids
    <3>2. CASE OtherDeletes
      <4>1. rows' \subseteq rows /\ lastRow' = lastRow BY <3>2 DEF OtherDeletes
      <4> QED BY <4>1 DEF SearchInv
    <3> QED BY <1>5, <3>1, <3>2 DEF Meanwhile
  <2>3. AnswerComplete' BY <2>1, NotAnswered
  <2>4. ASSUME Searching PROVE Searching'
    <3>1. \A r : Matches(r)' <=> Matches(r) BY <2>1 DEF Matches
    <3>2. MatchedDownTo(qMatched, qPage)' BY <2>1, <2>4, <3>1 DEF Searching, MatchedDownTo
    <3> QED BY <2>1, <2>4, <3>2 DEF Searching
  <2> QED BY <2>1, <2>2, <2>3, <2>4 DEF SearchInv
<1>6. ASSUME UNCHANGED <<searchVars, storeVars>> PROVE SearchInv'
  <2>1. /\ UNCHANGED <<rows, lastRow, qStayed>>
        /\ UNCHANGED <<qAsked, qPage, qMatched, qAnswer>>
    BY <1>6 DEF searchVars, storeVars
  <2>2. \A r : Matches(r)' <=> Matches(r) BY <2>1 DEF Matches
  <2>3. AnswerComplete' BY <2>1, <2>2 DEF AnswerComplete, SearchInv
  <2>4. Searching => Searching' BY <2>1, <2>2 DEF Searching, MatchedDownTo
  <2> QED BY <2>1, <2>3, <2>4 DEF SearchInv
<1> QED BY <1>1, <1>2, <1>3, <1>4, <1>5, <1>6 DEF SearchNext

\* For any database and any sizes of the pages, and whatever is inserted and deleted while they
\* are read: an answer is the newest rows that match, newest first, and none is missing that
\* was there all the time, unless newer ones fill the limit (query_history in ipc/mod.rs,
\* search_strict_session).
THEOREM AnswersComplete == SearchSpec => []AnswerComplete
<1>1. SearchInv => AnswerComplete BY DEF SearchInv
<1> QED BY <1>1, SearchStarts, SearchSteps, PTL DEF SearchSpec

-----------------------------------------------------------------------------
(* The history browser.                                                    *)

ListEntry == [id : Ids, selected : BOOLEAN]
Listable(e) == e \in Seq(ListEntry) /\ \A i, j \in DOMAIN e : e[i].id = e[j].id => i = j
Unselected(e) == \A i \in DOMAIN e : ~e[i].selected

\* What is chosen is what is selected, and is counted.
Selection == bCount = Cardinality(Selected) /\ bChosen = {bEntries[i].id : i \in Selected}

Listing ==
  /\ bFiltered \in Seq(DOMAIN bEntries) /\ bCursor \in Nat /\ bScroll \in Nat
  /\ bCursor < Len(bFiltered) \/ bCursor = 0

Terminal == rows \in SUBSET Ids /\ lastRow \in 0..MaxRows /\ deletes \in Nat /\ bHeight \in Nat

BrowserInv == Terminal /\ Listable(bEntries) /\ Selection /\ Listing

\* What ScreenTellsTruth says of a step
Tells ==
  /\ bMode = "dialog" => bCount = Cardinality(bChosen)
  /\ Deleted # {} /\ deletes' = deletes => bMode = "dialog" /\ Deleted \subseteq bChosen
  /\ Deleted # {} /\ bMode' # bMode /\ Open' => Deleted = bChosen
  /\ Open /\ Open' /\ CursorDrawn /\ bHeight' = bHeight => CursorDrawn'

LEMMA ListIs ==
  ASSUME NEW e, Listable(e)
  PROVE  /\ Len(e) \in Nat /\ DOMAIN e = 1..Len(e) /\ e \in [1..Len(e) -> ListEntry]
         /\ IsFiniteSet(DOMAIN e) /\ DOMAIN e \in SUBSET Nat
         /\ \A i \in DOMAIN e : e[i].id \in Ids /\ e[i].selected \in BOOLEAN
<1>1. e \in Seq(ListEntry) BY DEF Listable
<1>2. Len(e) \in Nat /\ DOMAIN e = 1..Len(e) BY <1>1
<1>3. \A i \in DOMAIN e : e[i] \in ListEntry BY <1>1
<1>4. e \in [1..Len(e) -> ListEntry] BY <1>1, <1>2, <1>3
<1>5. IsFiniteSet(1..Len(e))
  <2>1. 1 \in Int /\ Len(e) \in Int BY <1>2
  <2> QED BY <2>1, FS_Interval
<1> QED BY <1>2, <1>3, <1>4, <1>5 DEF ListEntry

LEMMA IsList ==
  ASSUME NEW e, NEW n \in Nat, e \in [1..n -> ListEntry],
         \A i, j \in 1..n : e[i].id = e[j].id => i = j
  PROVE  Listable(e) /\ Len(e) = n /\ DOMAIN e = 1..n
<1>1. e \in Seq(ListEntry) BY SeqDef
<1>2. Len(e) = n /\ DOMAIN e = 1..n BY <1>1
<1> QED BY <1>1, <1>2 DEF Listable

\* A function that is in order is a sequence.
LEMMA OrderedSeq ==
  ASSUME NEW f, NEW R, NEW S, IsFiniteSet(S), Ordered(f, R, S)
  PROVE  /\ f \in Seq(S) /\ Len(f) = Cardinality(S) /\ DOMAIN f = 1..Cardinality(S)
         /\ \A n \in 1..Cardinality(S) : f[n] \in S
         /\ \A m, n \in 1..Cardinality(S) : m < n => <<f[m], f[n]>> \in R
<1>1. Cardinality(S) \in Nat BY FS_CardinalityType
<1>2. f \in [1..Cardinality(S) -> S] BY DEF Ordered
<1>3. f \in Seq(S) BY <1>1, <1>2, SeqDef
<1> QED BY <1>1, <1>2, <1>3 DEF Ordered

LEMMA LoadIs ==
  ASSUME NEW S \in SUBSET Ids, NEW e, e = load_history(S)
  PROVE  Listable(e) /\ Unselected(e)
<1> DEFINE ids == Newest(S, MaxEntries)
<1>1. S \in SUBSET Nat /\ IsFiniteSet(S) BY FiniteIds
<1>2. MaxEntries \in Nat BY BrowserAssumption
<1>3. NewestOnes(ids, S, MaxEntries) BY <1>1, <1>2, NewestIs
<1>4. e = [i \in DOMAIN ids |-> [id |-> ids[i], selected |-> FALSE]] BY DEF load_history
<1> HIDE DEF ids
<1>5. ids \in Seq(S) BY <1>3 DEF NewestOnes
<1>6. Len(ids) \in Nat /\ DOMAIN ids = 1..Len(ids) BY <1>5
<1>7. \A i \in DOMAIN ids : ids[i] \in S BY <1>5
<1>8. e = [i \in 1..Len(ids) |-> [id |-> ids[i], selected |-> FALSE]] BY <1>4, <1>6
<1>9. e \in [1..Len(ids) -> ListEntry] BY <1>6, <1>7, <1>8 DEF ListEntry
<1>10. \A i \in 1..Len(ids) : e[i].id = ids[i] /\ e[i].selected = FALSE BY <1>8
<1>11. \A i, j \in 1..Len(ids) : i < j => ids[i] > ids[j] BY <1>3, <1>6 DEF NewestOnes
<1>12. \A i \in 1..Len(ids) : ids[i] \in Nat BY <1>1, <1>6, <1>7
<1>13. ASSUME NEW i \in 1..Len(ids), NEW j \in 1..Len(ids), e[i].id = e[j].id PROVE i = j
  <2>1. ids[i] = ids[j] BY <1>10, <1>13
  <2>2. ~(i < j) /\ ~(j < i) BY <1>11, <1>12, <2>1
  <2> QED BY <1>6, <2>2
<1>14. Listable(e) /\ DOMAIN e = 1..Len(ids) BY <1>6, <1>9, <1>13, IsList
<1> QED BY <1>10, <1>14 DEF Unselected

LEMMA KeptIs ==
  ASSUME NEW e, Listable(e), NEW query
  PROVE  Kept(e, query) \in Seq(DOMAIN e)
<1> DEFINE S == {i \in DOMAIN e : /\ ("meets" \in query => Row[e[i].id].meets)
                                  /\ ("score" \in query => Row[e[i].id].score > 0)}
           before(i, j) ==
             \/ ("score" \in query /\ Row[e[i].id].score > Row[e[j].id].score)
             \/ (("score" \in query => Row[e[i].id].score = Row[e[j].id].score) /\ i < j)
           R == {p \in S \X S : before(p[1], p[2])}
           f == Kept(e, query)
<1>1. DOMAIN e \in SUBSET Nat /\ IsFiniteSet(DOMAIN e) BY ListIs
<1>2. \A i \in DOMAIN e : Row[e[i].id].score \in Nat
  BY ListIs, SharedAssumption DEF RowType
<1>3. S \in SUBSET DOMAIN e OBVIOUS
<1>4. IsFiniteSet(S) BY <1>1, <1>3, FS_Subset
<1>5. f = [n \in 1..Cardinality(S) |->
             CHOOSE x \in S : Cardinality({y \in S : before(y, x)}) = n - 1]
  BY DEF Kept, InOrder
<1>6. \A x, y \in S : before(x, y) <=> <<x, y>> \in R OBVIOUS
<1>7. /\ \A x \in S : ~before(x, x)
      /\ \A x, y \in S : x # y => before(x, y) \/ before(y, x)
      /\ \A x, y, z \in S : before(x, y) /\ before(y, z) => before(x, z)
  <2>1. \A x \in S : x \in Nat /\ Row[e[x].id].score \in Nat BY <1>1, <1>2, <1>3
  <2> HIDE DEF S
  <2> QED BY <2>1
<1> HIDE DEF S
<1>8. \A x \in S : {y \in S : before(y, x)} = Preceding(R, S, x) BY <1>6 DEF Preceding
<1> HIDE DEF before, R, f
<1>9. Orders(R, S) BY <1>6, <1>7 DEF Orders
<1>10. ASSUME NEW n \in 1..Cardinality(S), NEW x \in S, Cardinality(Preceding(R, S, x)) = n - 1
       PROVE  f[n] \in S /\ Cardinality(Preceding(R, S, f[n])) = n - 1
  <2>1. Cardinality({y \in S : before(y, x)}) = n - 1 BY <1>8, <1>10
  <2>2. f[n] \in S /\ Cardinality({y \in S : before(y, f[n])}) = n - 1 BY <1>5, <2>1
  <2> QED BY <1>8, <2>2
<1>11. f = [n \in 1..Cardinality(S) |-> f[n]]
  <2> DEFINE D == 1..Cardinality(S)
             at(n) == CHOOSE x \in S : Cardinality({y \in S : before(y, x)}) = n - 1
  <2>1. f = [n \in D |-> at(n)] BY <1>5
  <2> HIDE DEF D, at
  <2>2. f = [n \in D |-> f[n]] BY <2>1
  <2> QED BY <2>2 DEF D
<1>12. Placed(f, R, S) BY <1>10, <1>11 DEF Placed
<1>13. Ordered(f, R, S) BY <1>4, <1>9, <1>12, Ranks
<1>14. f \in [1..Cardinality(S) -> S] BY <1>13 DEF Ordered
<1>15. f \in [1..Cardinality(S) -> DOMAIN e] BY <1>3, <1>14
<1>16. Cardinality(S) \in Nat BY <1>4, FS_CardinalityType
<1>17. f \in Seq(DOMAIN e) BY <1>15, <1>16, SeqDef
<1> QED BY <1>17 DEF f

LEMMA RemainingIs ==
  ASSUME Listable(bEntries), NEW e, e = Remaining
  PROVE  Listable(e) /\ Unselected(e)
<1> DEFINE S == DOMAIN bEntries \ Selected
           R == {p \in S \X S : p[1] < p[2]}
           kept == InOrder(S, <)
<1>1. /\ DOMAIN bEntries \in SUBSET Nat /\ IsFiniteSet(DOMAIN bEntries)
      /\ bEntries \in [DOMAIN bEntries -> ListEntry]
  BY ListIs
<1>2. S \in SUBSET DOMAIN bEntries /\ S \in SUBSET Nat BY <1>1
<1>3. IsFiniteSet(S) BY <1>1, <1>2, FS_Subset
<1>4. \A i \in S : ~bEntries[i].selected BY DEF Selected
<1>5. e = [n \in DOMAIN kept |-> bEntries[kept[n]]] BY DEF Remaining
<1>6. kept = [n \in 1..Cardinality(S) |->
                CHOOSE x \in S : Cardinality({y \in S : y < x}) = n - 1]
  BY DEF InOrder
<1> HIDE DEF S
<1>7. Orders(R, S) BY <1>2 DEF Orders
<1>8. \A x \in S : {y \in S : y < x} = Preceding(R, S, x) BY DEF Preceding
<1> HIDE DEF R, kept
<1>9. ASSUME NEW n \in 1..Cardinality(S), NEW x \in S, Cardinality(Preceding(R, S, x)) = n - 1
      PROVE  kept[n] \in S /\ Cardinality(Preceding(R, S, kept[n])) = n - 1
  <2>1. Cardinality({y \in S : y < x}) = n - 1 BY <1>8, <1>9
  <2>2. kept[n] \in S /\ Cardinality({y \in S : y < kept[n]}) = n - 1 BY <1>6, <2>1
  <2> QED BY <1>8, <2>2
<1>10. kept = [n \in 1..Cardinality(S) |-> kept[n]]
  <2> DEFINE D == 1..Cardinality(S)
  <2>1. kept = [n \in D |-> CHOOSE x \in S : Cardinality({y \in S : y < x}) = n - 1] BY <1>6
  <2> HIDE DEF D
  <2>2. kept = [n \in D |-> kept[n]] BY <2>1
  <2> QED BY <2>2 DEF D
<1>11. Placed(kept, R, S) BY <1>9, <1>10 DEF Placed
<1>12. Ordered(kept, R, S) BY <1>3, <1>7, <1>11, Ranks
<1> DEFINE N == Cardinality(S)
<1>13. N \in Nat BY <1>3, FS_CardinalityType
<1>14. kept \in [1..N -> S] /\ \A m, n \in 1..N : m < n => <<kept[m], kept[n]>> \in R
  BY <1>12 DEF Ordered
<1> HIDE DEF N
<1>15. e = [n \in 1..N |-> bEntries[kept[n]]] BY <1>5, <1>14
<1>16. e \in [1..N -> ListEntry] BY <1>1, <1>2, <1>14, <1>15
<1>17. ASSUME NEW i \in 1..N, NEW j \in 1..N, e[i].id = e[j].id PROVE i = j
  <2>1. bEntries[kept[i]].id = bEntries[kept[j]].id /\ kept[i] \in DOMAIN bEntries
        /\ kept[j] \in DOMAIN bEntries
    BY <1>2, <1>14, <1>15, <1>17
  <2>2. kept[i] = kept[j] BY <2>1 DEF Listable
  <2>3. ~(<<kept[i], kept[j]>> \in R) /\ ~(<<kept[j], kept[i]>> \in R)
    BY <1>7, <1>14, <2>2 DEF Orders
  <2>4. ~(i < j) /\ ~(j < i) BY <1>14, <2>3
  <2> QED BY <1>13, <2>4
<1>18. Listable(e) /\ DOMAIN e = 1..N BY <1>13, <1>16, <1>17, IsList
<1>19. \A i \in 1..N : ~e[i].selected BY <1>4, <1>14, <1>15
<1> QED BY <1>18, <1>19 DEF Unselected

-----------------------------------------------------------------------------
(* Selecting.                                                              *)

Picked(e) == {i \in DOMAIN e : e[i].selected}
IdsOf(e, S) == {e[i].id : i \in S}

LEMMA SelectIs ==
  ASSUME Listable(bEntries), NEW S, NEW on \in BOOLEAN, NEW e, e = Select(S, on)
  PROVE  /\ Listable(e) /\ DOMAIN e = DOMAIN bEntries
         /\ \A i \in DOMAIN e : e[i].id = bEntries[i].id
         /\ \A i \in DOMAIN e : e[i].selected = IF i \in S THEN on ELSE bEntries[i].selected
<1> DEFINE b == bEntries  N == Len(bEntries)
<1>1. N \in Nat /\ DOMAIN b = 1..N /\ \A i \in 1..N : b[i] \in ListEntry BY ListIs
<1>2. \A i, j \in 1..N : b[i].id = b[j].id => i = j BY <1>1 DEF Listable
<1>3. e = [i \in DOMAIN b |-> IF i \in S THEN [b[i] EXCEPT !.selected = on] ELSE b[i]]
  BY DEF Select
<1> HIDE DEF N, b
<1>4. e = [i \in 1..N |-> IF i \in S THEN [b[i] EXCEPT !.selected = on] ELSE b[i]] BY <1>1, <1>3
<1>5. ASSUME NEW i \in 1..N
      PROVE  /\ e[i] \in ListEntry /\ e[i].id = b[i].id
             /\ e[i].selected = IF i \in S THEN on ELSE b[i].selected
  <2>1. b[i] \in ListEntry BY <1>1
  <2>2. [b[i] EXCEPT !.selected = on] = [id |-> b[i].id, selected |-> on] BY <2>1 DEF ListEntry
  <2> QED BY <1>4, <2>1, <2>2 DEF ListEntry
<1>6. e \in [1..N -> ListEntry] BY <1>4, <1>5
<1>7. \A i, j \in 1..N : e[i].id = e[j].id => i = j BY <1>2, <1>5
<1>8. Listable(e) /\ DOMAIN e = 1..N BY <1>1, <1>6, <1>7, IsList
<1> QED BY <1>1, <1>5, <1>8 DEF b

LEMMA PickedIs ==
  ASSUME NEW e, Listable(e)
  PROVE  /\ Picked(e) \in SUBSET DOMAIN e /\ IsFiniteSet(Picked(e)) /\ Cardinality(Picked(e)) \in Nat
         /\ IdsOf(e, Picked(e)) \in SUBSET Ids
         /\ Cardinality(IdsOf(e, Picked(e))) = Cardinality(Picked(e))
<1> DEFINE S == Picked(e)  T == IdsOf(e, S)  f == [i \in S |-> e[i].id]
<1>1. IsFiniteSet(DOMAIN e) /\ \A i \in DOMAIN e : e[i].id \in Ids BY ListIs
<1>2. S \in SUBSET DOMAIN e BY DEF Picked
<1> HIDE DEF S
<1>3. IsFiniteSet(S) BY <1>1, <1>2, FS_Subset
<1>4. Cardinality(S) \in Nat BY <1>3, FS_CardinalityType
<1>5. T \in SUBSET Ids BY <1>1, <1>2 DEF IdsOf
<1>6. f \in Surjection(S, T) BY DEF Surjection, IdsOf
<1>7. f \in Injection(S, T)
  <2>1. \A i, j \in S : f[i] = f[j] => i = j BY <1>2 DEF Listable
  <2>2. f \in [S -> T] BY DEF IdsOf
  <2> QED BY <2>1, <2>2 DEF Injection, IsInjective
<1> HIDE DEF T, f
<1>8. Cardinality(T) = Cardinality(S) BY <1>3, <1>6, <1>7, FS_Surjection
<1> QED BY <1>2, <1>3, <1>4, <1>5, <1>8 DEF S, T

LEMMA NonePicked ==
  ASSUME NEW e, Unselected(e)
  PROVE  Picked(e) = {} /\ IdsOf(e, Picked(e)) = {} /\ Cardinality(Picked(e)) = 0
<1>1. Picked(e) = {} BY DEF Picked, Unselected
<1> QED BY <1>1, FS_EmptySet DEF IdsOf

LEMMA SelectionIs ==
  Selection <=> bCount = Cardinality(Picked(bEntries)) /\ bChosen = IdsOf(bEntries, Picked(bEntries))
BY DEF Selection, Picked, Selected, IdsOf

LEMMA NextSelectionIs ==
  Selection' <=> bCount' = Cardinality(Picked(bEntries')) /\ bChosen' = IdsOf(bEntries', Picked(bEntries'))
BY DEF Selection, Picked, Selected, IdsOf

\* The dialog's number
LEMMA Announced == BrowserInv => bCount = Cardinality(bChosen)
BY PickedIs, SelectionIs DEF BrowserInv

-----------------------------------------------------------------------------
(* Steps.                                                                  *)

\* Nothing is deleted, and the cursor stays on the screen.
LEMMA Harmless ==
  ASSUME BrowserInv, rows' = rows,
         Open /\ Open' /\ CursorDrawn /\ bHeight' = bHeight => CursorDrawn'
  PROVE  Tells
<1>1. Deleted = {} BY DEF Deleted
<1> QED BY <1>1, Announced DEF Tells

LEMMA SameScreen ==
  ASSUME UNCHANGED <<bCursor, bScroll>>, bHeight' = bHeight, CursorDrawn
  PROVE  CursorDrawn'
BY DEF CursorDrawn, Visible, Greater, Minus

LEMMA TopDrawn ==
  ASSUME BrowserInv, bCursor' = 0, bScroll' = 0, bHeight' = bHeight
  PROVE  CursorDrawn'
<1>1. Visible \in Nat \ {0} BY BrowserAssumption DEF BrowserInv, Terminal, Visible, Greater, Minus
<1>2. Visible' = Visible BY DEF Visible, Greater, Minus
<1> QED BY <1>1, <1>2 DEF CursorDrawn

LEMMA VisibleIs == BrowserInv => Visible \in Nat \ {0}
BY BrowserAssumption DEF BrowserInv, Terminal, Visible, Greater, Minus

LEMMA MovedIs ==
  ASSUME BrowserInv, NEW c \in Nat, NEW s \in Nat, Moved(c, s),
         c < Len(bFiltered) \/ c = 0,
         CursorDrawn => s <= c /\ c < s + Visible
  PROVE  BrowserInv' /\ Tells
<1>1. /\ UNCHANGED <<bEntries, bFiltered, bCount, bHeight, bChosen, rows, lastRow, deletes>>
      /\ bCursor' = c /\ bScroll' = s
  BY DEF Moved, storeVars
<1>2. Selection' BY <1>1, SelectionIs, NextSelectionIs DEF BrowserInv
<1>3. Listing' BY <1>1 DEF BrowserInv, Listing
<1>4. Terminal' BY <1>1 DEF BrowserInv, Terminal
<1>5. BrowserInv' BY <1>1, <1>2, <1>3, <1>4 DEF BrowserInv
<1>6. Visible' = Visible BY <1>1 DEF Visible, Greater, Minus
<1>7. CursorDrawn => CursorDrawn' BY <1>1, <1>6 DEF CursorDrawn
<1> QED BY <1>1, <1>5, <1>7, Harmless

LEMMA Moves ==
  ASSUME BrowserInv,
         CursorUp \/ CursorDown \/ PageUp \/ PageDown \/ ToTop \/ ToBottom
  PROVE  BrowserInv' /\ Tells
<1> DEFINE V == Visible  L == Len(bFiltered)
<1>1. V \in Nat \ {0} BY VisibleIs
<1>2. /\ bCursor \in Nat /\ bScroll \in Nat /\ L \in Nat /\ (bCursor < L \/ bCursor = 0)
      /\ (bFiltered # <<>> => L > 0)
  BY DEF BrowserInv, Listing
<1>3. CursorDrawn => bScroll <= bCursor /\ bCursor < bScroll + V BY DEF CursorDrawn
<1>4. CASE CursorUp
  <2> DEFINE c == bCursor - 1  s == Lesser(bScroll, c)
  <2>1. Moved(c, s) /\ bCursor > 0 BY <1>4 DEF CursorUp
  <2>2. c \in Nat /\ s \in Nat /\ (c < L \/ c = 0) /\ (CursorDrawn => s <= c /\ c < s + V)
    <3> HIDE DEF V, L
    <3> QED BY <1>1, <1>2, <1>3, <2>1 DEF Lesser
  <2> HIDE DEF c, s
  <2> QED BY <2>1, <2>2, MovedIs
<1>5. CASE CursorDown
  <2> DEFINE c == bCursor + 1  s == DownTo(c)
  <2>1. Moved(c, s) /\ bCursor + 1 < L BY <1>5 DEF CursorDown
  <2>2. c \in Nat /\ s \in Nat /\ (c < L \/ c = 0) /\ (CursorDrawn => s <= c /\ c < s + V)
    <3>1. s = IF c >= bScroll + V THEN c - V + 1 ELSE bScroll BY DEF DownTo
    <3> HIDE DEF V, L, s
    <3> QED BY <1>1, <1>2, <1>3, <2>1, <3>1
  <2> HIDE DEF c, s
  <2> QED BY <2>1, <2>2, MovedIs
<1>6. CASE PageUp
  <2> DEFINE c == Minus(bCursor, V)  s == Minus(bScroll, V)
  <2>1. Moved(c, s) /\ bFiltered # <<>> BY <1>6 DEF PageUp
  <2>2. c \in Nat /\ s \in Nat /\ (c < L \/ c = 0) /\ (CursorDrawn => s <= c /\ c < s + V)
    <3> HIDE DEF V, L
    <3> QED BY <1>1, <1>2, <1>3, <2>1 DEF Minus
  <2> HIDE DEF c, s
  <2> QED BY <2>1, <2>2, MovedIs
<1>7. CASE PageDown
  <2> DEFINE c == Lesser(bCursor + V, L - 1)  s == Lesser(bScroll + V, Minus(L, V))
  <2>1. Moved(c, s) /\ bFiltered # <<>> BY <1>7 DEF PageDown
  <2>2. c \in Nat /\ s \in Nat /\ (c < L \/ c = 0) /\ (CursorDrawn => s <= c /\ c < s + V)
    <3> HIDE DEF V, L
    <3> QED BY <1>1, <1>2, <1>3, <2>1 DEF Lesser, Minus
  <2> HIDE DEF c, s
  <2> QED BY <2>1, <2>2, MovedIs
<1>8. CASE ToTop
  <2>1. Moved(0, 0) BY <1>8 DEF ToTop
  <2> QED BY <1>1, <2>1, MovedIs
<1>9. CASE ToBottom
  <2> DEFINE c == L - 1  s == IF c >= V THEN c - V + 1 ELSE bScroll
  <2>1. Moved(c, s) /\ bFiltered # <<>> BY <1>9 DEF ToBottom
  <2>2. c \in Nat /\ s \in Nat /\ (c < L \/ c = 0) /\ (CursorDrawn => s <= c /\ c < s + V)
    <3> HIDE DEF V, L
    <3> QED BY <1>1, <1>2, <1>3, <2>1
  <2> HIDE DEF c, s
  <2> QED BY <2>1, <2>2, MovedIs
<1> QED BY <1>4, <1>5, <1>6, <1>7, <1>8, <1>9

\* The list stays what it is, and so does the cursor in it.
LEMMA ListStays ==
  ASSUME BrowserInv,
         UNCHANGED <<bEntries, bFiltered, bCursor, bScroll, bCount, bChosen, rows, lastRow, deletes>>,
         bHeight' \in Nat
  PROVE  BrowserInv' /\ Tells
<1>1. Selection' BY SelectionIs, NextSelectionIs DEF BrowserInv
<1>2. Listing' /\ Terminal' BY DEF BrowserInv, Listing, Terminal
<1>3. BrowserInv' BY <1>1, <1>2 DEF BrowserInv
<1> QED BY <1>3, Harmless, SameScreen

LEMMA Settings ==
  ASSUME BrowserInv,
         \/ Resize \/ EnterFilter \/ ConfirmFilter \/ AskDelete \/ CancelDelete \/ Leave
         \/ UNCHANGED <<browserVars, storeVars>>
  PROVE  BrowserInv' /\ Tells
<1>0. bHeight \in Nat BY DEF BrowserInv, Terminal
<1>1. CASE Resize
  <2>1. /\ UNCHANGED <<bEntries, bFiltered, bCursor, bScroll, bCount, bChosen, rows, lastRow, deletes>>
        /\ bHeight' \in Nat
    BY <1>1, BrowserAssumption DEF Resize, storeVars
  <2> QED BY <2>1, ListStays
<1>2. ASSUME NEW from, NEW to, SetMode(from, to) PROVE BrowserInv' /\ Tells
  <2>1. /\ UNCHANGED <<bEntries, bFiltered, bCursor, bScroll, bCount, bChosen, rows, lastRow, deletes>>
        /\ bHeight' \in Nat
    BY <1>0, <1>2 DEF SetMode, storeVars
  <2> QED BY <2>1, ListStays
<1>3. CASE EnterFilter \/ ConfirmFilter \/ AskDelete \/ CancelDelete
  BY <1>2, <1>3 DEF EnterFilter, ConfirmFilter, AskDelete, CancelDelete
<1>4. CASE Leave \/ UNCHANGED <<browserVars, storeVars>>
  <2>1. /\ UNCHANGED <<bEntries, bFiltered, bCursor, bScroll, bCount, bChosen, rows, lastRow, deletes>>
        /\ bHeight' \in Nat
    BY <1>0, <1>4 DEF Leave, storeVars, browserVars
  <2> QED BY <2>1, ListStays
<1> QED BY <1>1, <1>3, <1>4

LEMMA OthersRows ==
  ASSUME BrowserInv, OtherSession
  PROVE  BrowserInv' /\ Tells
<1>1. UNCHANGED <<bMode, bEntries, bFiltered, bCursor, bScroll, bCount, bHeight, bChosen>>
  BY DEF OtherSession, browserVars
<1>2. Selection' BY <1>1, SelectionIs, NextSelectionIs DEF BrowserInv
<1>3. Listing' BY <1>1 DEF BrowserInv, Listing
<1>4. MaxRows \in Nat BY SharedAssumption
<1>5. CASE OtherInserts
  <2>1. Terminal' BY <1>1, <1>4, <1>5 DEF OtherInserts, BrowserInv, Terminal, Ids
  <2>2. Deleted = {} BY <1>5 DEF OtherInserts, Deleted
  <2> QED BY <1>1, <1>2, <1>3, <2>1, <2>2, Announced, SameScreen DEF BrowserInv, Tells
<1>6. CASE OtherDeletes
  <2>1. PICK r \in rows : rows' = rows \ {r} BY <1>6 DEF OtherDeletes
  <2>2. deletes' = deletes + 1 /\ lastRow' = lastRow BY <1>6 DEF OtherDeletes
  <2>3. deletes' \in Nat /\ deletes' # deletes BY <2>2 DEF BrowserInv, Terminal
  <2>4. Terminal' BY <1>1, <2>1, <2>2, <2>3 DEF BrowserInv, Terminal
  <2> QED BY <1>1, <1>2, <1>3, <2>3, <2>4, Announced, SameScreen DEF BrowserInv, Tells
<1> QED BY <1>5, <1>6 DEF OtherSession

\* A list that is filtered anew begins at its top.
LEMMA FilteredIs ==
  ASSUME NEW query, NEW e, Listable(e), bEntries' = e, update_filter(e, query)
  PROVE  Listing' /\ bCursor' = 0 /\ bScroll' = 0
<1>1. bFiltered' \in Seq(DOMAIN bEntries') BY KeptIs DEF update_filter
<1> QED BY <1>1 DEF update_filter, Listing

LEMMA Filters ==
  ASSUME BrowserInv, EditFilter \/ ClearFilter
  PROVE  BrowserInv' /\ Tells
<1>1. UNCHANGED <<bEntries, bCount, bHeight, bChosen, rows, lastRow, deletes>>
  BY DEF EditFilter, ClearFilter, storeVars
<1>2. PICK query : update_filter(bEntries, query) BY DEF EditFilter, ClearFilter
<1>3. Listable(bEntries) BY DEF BrowserInv
<1>4. PICK e : e = bEntries OBVIOUS
<1>5. Listing' /\ bCursor' = 0 /\ bScroll' = 0
  <2>1. Listable(e) /\ bEntries' = e /\ update_filter(e, query) BY <1>1, <1>2, <1>3, <1>4
  <2> QED BY <2>1, FilteredIs
<1>6. Selection' BY <1>1, SelectionIs, NextSelectionIs DEF BrowserInv
<1>7. Terminal' BY <1>1 DEF BrowserInv, Terminal
<1>8. BrowserInv' BY <1>1, <1>3, <1>5, <1>6, <1>7 DEF BrowserInv
<1> QED BY <1>1, <1>5, <1>8, Harmless, TopDrawn

\* Other entries are selected: the list is as long as it was, and so is what it shows.
LEMMA Reselected ==
  ASSUME BrowserInv, UNCHANGED <<bFiltered, bHeight, rows, lastRow, deletes>>,
         NEW e, bEntries' = e, Listable(e), DOMAIN e = DOMAIN bEntries,
         bCount' = Cardinality(Picked(e)), bChosen' = IdsOf(e, Picked(e)),
         bCursor' \in Nat, bScroll' \in Nat, bCursor' < Len(bFiltered) \/ bCursor' = 0,
         CursorDrawn => bScroll' <= bCursor' /\ bCursor' < bScroll' + Visible
  PROVE  BrowserInv' /\ Tells
<1>1. Selection' BY NextSelectionIs
<1>2. Listing' BY DEF BrowserInv, Listing
<1>3. Terminal' BY DEF BrowserInv, Terminal
<1>4. BrowserInv' BY <1>1, <1>2, <1>3 DEF BrowserInv
<1>5. Visible' = Visible BY DEF Visible, Greater, Minus
<1>6. CursorDrawn => CursorDrawn' BY <1>5 DEF CursorDrawn
<1> QED BY <1>4, <1>6, Harmless

LEMMA ToggleStep ==
  ASSUME BrowserInv, NEW down, Toggle(down)
  PROVE  BrowserInv' /\ Tells
<1> DEFINE b == bEntries  i == AtCursor  P == Picked(b)
<1>1. Listable(b) /\ bFiltered \in Seq(DOMAIN b) /\ bFiltered # <<>>
  BY DEF BrowserInv, Listing, Toggle
<1>2. i \in DOMAIN b
  <2>1. bCursor + 1 \in 1..Len(bFiltered) BY <1>1 DEF BrowserInv, Listing
  <2> QED BY <1>1, <2>1 DEF AtCursor
<1>3. \A j \in DOMAIN b : b[j].id \in Ids /\ b[j].selected \in BOOLEAN BY <1>1, ListIs
<1>4. PICK on \in BOOLEAN : on = ~b[i].selected OBVIOUS
<1>5. PICK e : e = Select({i}, on) OBVIOUS
<1>6. /\ Listable(e) /\ DOMAIN e = DOMAIN b
      /\ \A j \in DOMAIN e : e[j].id = b[j].id
      /\ \A j \in DOMAIN e : e[j].selected = IF j \in {i} THEN on ELSE b[j].selected
  BY <1>1, <1>5, SelectIs
<1>7. /\ bEntries' = e /\ bCount' = (IF b[i].selected THEN Minus(bCount, 1) ELSE bCount + 1)
      /\ bChosen' = Chosen(b[i].id)
      /\ UNCHANGED <<bFiltered, bHeight, rows, lastRow, deletes>>
  BY <1>4, <1>5 DEF Toggle, toggle_selection, Displayed, storeVars
<1>8. P \in SUBSET DOMAIN b /\ IsFiniteSet(P) /\ Cardinality(P) \in Nat BY <1>1, PickedIs
<1>9. bCount = Cardinality(P) /\ bChosen = IdsOf(b, P) BY SelectionIs DEF BrowserInv
<1>10. i \in P <=> b[i].selected BY <1>2 DEF Picked
<1>11. \A j \in DOMAIN b : b[j].id = b[i].id => j = i BY <1>1, <1>2 DEF Listable
<1>12. Picked(e) = IF b[i].selected THEN P \ {i} ELSE P \cup {i}
  BY <1>2, <1>4, <1>6 DEF Picked
<1>13. \A S \in SUBSET DOMAIN b : IdsOf(e, S) = IdsOf(b, S) BY <1>6 DEF IdsOf
<1>14. Picked(e) \in SUBSET DOMAIN b BY <1>2, <1>8, <1>12
<1>15. b[i].id \in IdsOf(b, P) <=> i \in P BY <1>8, <1>11 DEF IdsOf
<1>16. bCursor \in Nat /\ bScroll \in Nat /\ Len(bFiltered) \in Nat
       /\ (bCursor < Len(bFiltered) \/ bCursor = 0)
  BY DEF BrowserInv, Listing
<1>17. Visible \in Nat \ {0} BY VisibleIs
<1>18. \/ bCursor' = bCursor /\ bScroll' = bScroll
       \/ /\ bCursor + 1 < Len(bFiltered) /\ bCursor' = bCursor + 1
          /\ bScroll' = (IF bCursor + 1 >= bScroll + Visible THEN bCursor + 1 - Visible + 1 ELSE bScroll)
  <2>1. IF down /\ bCursor + 1 < Len(bFiltered)
        THEN bCursor' = bCursor + 1 /\ bScroll' = DownTo(bCursor + 1)
        ELSE UNCHANGED <<bCursor, bScroll>>
    BY DEF Toggle
  <2>2. PICK c, d : c = bCursor + 1 /\ d = DownTo(c) OBVIOUS
  <2>3. d = IF c >= bScroll + Visible THEN c - Visible + 1 ELSE bScroll BY <2>2 DEF DownTo
  <2>4. \/ bCursor' = bCursor /\ bScroll' = bScroll
        \/ bCursor + 1 < Len(bFiltered) /\ bCursor' = c /\ bScroll' = d
    BY <2>1, <2>2
  <2>5. Visible \in Nat /\ bScroll \in Nat /\ bCursor \in Nat BY <1>16, <1>17
  <2> HIDE DEF i, b, P
  <2>6. CASE bCursor' = bCursor /\ bScroll' = bScroll BY <2>6
  <2>7. CASE bCursor + 1 < Len(bFiltered) /\ bCursor' = c /\ bScroll' = d
    BY <2>2, <2>3, <2>5, <2>7
  <2> QED BY <2>4, <2>6, <2>7
<1> HIDE DEF i, b, P
<1>19. bCount' = Cardinality(Picked(e))
  <2>1. CASE b[i].selected
    <3>1. Cardinality(P \ {i}) = Cardinality(P) - 1 /\ Cardinality(P) # 0
      BY <1>8, <1>10, <2>1, FS_RemoveElement, FS_EmptySet
    <3> QED BY <1>7, <1>8, <1>9, <1>12, <2>1, <3>1 DEF Minus
  <2>2. CASE ~b[i].selected
    <3>1. Cardinality(P \cup {i}) = Cardinality(P) + 1 BY <1>8, <1>10, <2>2, FS_AddElement
    <3> QED BY <1>7, <1>9, <1>12, <2>2, <3>1
  <2> QED BY <2>1, <2>2
<1>20. bChosen' = IdsOf(e, Picked(e))
  <2>1. IdsOf(e, Picked(e)) = IdsOf(b, Picked(e)) BY <1>13, <1>14
  <2>2. CASE b[i].selected
    <3>1. IdsOf(b, P \ {i}) = IdsOf(b, P) \ {b[i].id} BY <1>8, <1>11 DEF IdsOf
    <3> QED BY <1>7, <1>9, <1>10, <1>12, <1>15, <2>1, <2>2, <3>1 DEF Chosen
  <2>3. CASE ~b[i].selected
    <3>1. IdsOf(b, P \cup {i}) = IdsOf(b, P) \cup {b[i].id} BY DEF IdsOf
    <3> QED BY <1>7, <1>9, <1>10, <1>12, <1>15, <2>1, <2>3, <3>1 DEF Chosen
  <2> QED BY <2>2, <2>3
<1>21. /\ bCursor' \in Nat /\ bScroll' \in Nat /\ (bCursor' < Len(bFiltered) \/ bCursor' = 0)
       /\ (CursorDrawn => bScroll' <= bCursor' /\ bCursor' < bScroll' + Visible)
  <2>1. CursorDrawn <=> bScroll <= bCursor /\ bCursor < bScroll + Visible BY DEF CursorDrawn
  <2> QED BY <1>16, <1>17, <1>18, <2>1
<1>22. DOMAIN e = DOMAIN bEntries BY <1>6 DEF b
<1> QED BY <1>6, <1>7, <1>19, <1>20, <1>21, <1>22, Reselected

LEMMA SelectAllStep ==
  ASSUME BrowserInv, SelectAllVisible
  PROVE  BrowserInv' /\ Tells
<1> DEFINE b == bEntries  P == Picked(b)  D == Drawn  U == {i \in D : ~b[i].selected}
<1>1. Listable(b) /\ bFiltered \in Seq(DOMAIN b) BY DEF BrowserInv, Listing
<1>2. D \in SUBSET DOMAIN b BY <1>1 DEF Drawn
<1>3. IsFiniteSet(DOMAIN b) /\ \A j \in DOMAIN b : b[j].selected \in BOOLEAN BY <1>1, ListIs
<1>0. PICK on \in BOOLEAN : on = TRUE OBVIOUS
<1>4. PICK e : e = Select(D, on) OBVIOUS
<1>5. /\ Listable(e) /\ DOMAIN e = DOMAIN b
      /\ \A j \in DOMAIN e : e[j].id = b[j].id
      /\ \A j \in DOMAIN e : e[j].selected = IF j \in D THEN on ELSE b[j].selected
  <2>1. PICK S : S = D OBVIOUS
  <2> HIDE DEF D, U
  <2>2. e = Select(S, on) BY <1>4, <2>1
  <2> QED BY <1>1, <2>1, <2>2, SelectIs
<1>6. /\ bEntries' = e /\ bCount' = bCount + Cardinality(U)
      /\ bChosen' = bChosen \cup IdsOf(b, D)
      /\ UNCHANGED <<bFiltered, bHeight, rows, lastRow, deletes, bCursor, bScroll>>
  BY <1>0, <1>4 DEF SelectAllVisible, storeVars, IdsOf
<1>7. P \in SUBSET DOMAIN b /\ IsFiniteSet(P) /\ Cardinality(P) \in Nat BY <1>1, PickedIs
<1>8. bCount = Cardinality(P) /\ bChosen = IdsOf(b, P) BY SelectionIs DEF BrowserInv
<1>9. U \in SUBSET DOMAIN b /\ U \cap P = {} BY <1>2 DEF Picked
<1>10. IsFiniteSet(U)
  <2> HIDE DEF U
  <2> QED BY <1>3, <1>9, FS_Subset
<1>11. Picked(e) = P \cup U BY <1>0, <1>2, <1>3, <1>5 DEF Picked
<1>12. P \cup U = P \cup D BY <1>2, <1>3 DEF Picked
<1>13. IdsOf(e, P \cup D) = IdsOf(b, P) \cup IdsOf(b, D) BY <1>2, <1>5, <1>7 DEF IdsOf
<1> HIDE DEF U, P, D, b
<1>14. Cardinality(P \cup U) = Cardinality(P) + Cardinality(U)
  <2>1. P \cap U = {} BY <1>9
  <2>2. Cardinality(U) \in Nat BY <1>10, FS_CardinalityType
  <2>3. Cardinality(P \cup U) = Cardinality(P) + Cardinality(U) - Cardinality(P \cap U)
    BY <1>7, <1>10, FS_Union
  <2>4. Cardinality(P \cap U) = 0 BY <2>1, FS_EmptySet
  <2> QED BY <1>7, <2>2, <2>3, <2>4
<1>15. bCount' = Cardinality(Picked(e)) /\ bChosen' = IdsOf(e, Picked(e))
  BY <1>6, <1>8, <1>11, <1>12, <1>13, <1>14
<1>16. DOMAIN e = DOMAIN bEntries BY <1>5 DEF b
<1>17. /\ bCursor' \in Nat /\ bScroll' \in Nat /\ (bCursor' < Len(bFiltered) \/ bCursor' = 0)
       /\ (CursorDrawn => bScroll' <= bCursor' /\ bCursor' < bScroll' + Visible)
  BY <1>6 DEF BrowserInv, Listing, CursorDrawn
<1> QED BY <1>5, <1>6, <1>15, <1>16, <1>17, Reselected

LEMMA UnselectAllStep ==
  ASSUME BrowserInv, UnselectAll
  PROVE  BrowserInv' /\ Tells
<1> DEFINE b == bEntries
<1>1. Listable(b) BY DEF BrowserInv
<1>0. PICK on \in BOOLEAN : on = FALSE OBVIOUS
<1>2. PICK e : e = Select(DOMAIN b, on) OBVIOUS
<1>3. /\ Listable(e) /\ DOMAIN e = DOMAIN b
      /\ \A j \in DOMAIN e : e[j].selected = IF j \in DOMAIN b THEN on ELSE b[j].selected
  BY <1>1, <1>2, SelectIs
<1>4. /\ bEntries' = e /\ bCount' = 0 /\ bChosen' = {}
      /\ UNCHANGED <<bFiltered, bHeight, rows, lastRow, deletes, bCursor, bScroll>>
  BY <1>0, <1>2 DEF UnselectAll, storeVars
<1>5. Unselected(e) BY <1>0, <1>3 DEF Unselected
<1>6. bCount' = Cardinality(Picked(e)) /\ bChosen' = IdsOf(e, Picked(e)) BY <1>4, <1>5, NonePicked
<1>7. /\ bCursor' \in Nat /\ bScroll' \in Nat /\ (bCursor' < Len(bFiltered) \/ bCursor' = 0)
       /\ (CursorDrawn => bScroll' <= bCursor' /\ bCursor' < bScroll' + Visible)
  BY <1>4 DEF BrowserInv, Listing, CursorDrawn
<1>8. DOMAIN e = DOMAIN bEntries BY <1>3
<1> QED BY <1>3, <1>4, <1>6, <1>7, <1>8, Reselected

\* A list of which nothing is selected, shown from its top
LEMMA FreshList ==
  ASSUME BrowserInv, NEW e, Listable(e), Unselected(e), bEntries' = e,
         bCount' = 0, bChosen' = {}, NEW query, update_filter(e, query),
         rows' \subseteq rows, UNCHANGED <<bHeight, lastRow, deletes>>
  PROVE  BrowserInv' /\ CursorDrawn'
<1>1. bCount' = Cardinality(Picked(e)) /\ bChosen' = IdsOf(e, Picked(e)) BY NonePicked
<1>2. Selection' BY <1>1, NextSelectionIs
<1>3. Listing' /\ bCursor' = 0 /\ bScroll' = 0 BY FilteredIs
<1>4. Terminal' BY DEF BrowserInv, Terminal
<1>5. BrowserInv' BY <1>2, <1>3, <1>4 DEF BrowserInv
<1> QED BY <1>3, <1>5, TopDrawn

LEMMA ConfirmDeleteStep ==
  ASSUME BrowserInv, ConfirmDelete
  PROVE  BrowserInv' /\ Tells
<1>1. PICK e : e = Remaining OBVIOUS
<1>2. Listable(e) /\ Unselected(e) BY <1>1, RemainingIs DEF BrowserInv
<1>3. /\ bEntries' = e /\ bCount' = 0 /\ bChosen' = {} /\ update_filter(e, bQuery)
      /\ rows' = rows \ {bEntries[i].id : i \in Selected}
      /\ UNCHANGED <<bHeight, lastRow, deletes>> /\ bMode = "dialog"
      /\ \A i \in Selected : bEntries[i].id \in rows
  BY <1>1 DEF ConfirmDelete
<1>4. BrowserInv' /\ CursorDrawn' BY <1>2, <1>3, FreshList
<1>5. bChosen = {bEntries[i].id : i \in Selected} BY DEF BrowserInv, Selection
<1>6. Deleted = bChosen BY <1>3, <1>5 DEF Deleted
<1> QED BY <1>3, <1>4, <1>6, Announced DEF Tells

LEMMA DeleteFailsStep ==
  ASSUME BrowserInv, DeleteFails
  PROVE  BrowserInv' /\ Tells
<1>1. PICK k \in Selected : rows' = rows \ {bEntries[i].id : i \in {j \in Selected : j < k}}
  BY DEF DeleteFails
<1>2. rows' \subseteq rows /\ rows' \in SUBSET Ids BY <1>1 DEF BrowserInv, Terminal
<1>3. PICK e : e = load_history(rows') OBVIOUS
<1>4. Listable(e) /\ Unselected(e)
  <2>1. PICK S \in SUBSET Ids : S = rows' BY <1>2
  <2>2. e = load_history(S) BY <1>3, <2>1
  <2> QED BY <2>2, LoadIs
<1>5. /\ bEntries' = e /\ bCount' = 0 /\ bChosen' = {} /\ update_filter(e, bQuery)
      /\ UNCHANGED <<bHeight, lastRow, deletes>> /\ bMode = "dialog" /\ bMode' = "gone"
  BY <1>3 DEF DeleteFails
<1>6. BrowserInv' BY <1>2, <1>4, <1>5, FreshList
<1>7. bChosen = {bEntries[i].id : i \in Selected} BY DEF BrowserInv, Selection
<1>8. Deleted \subseteq bChosen BY <1>1, <1>7 DEF Deleted
<1> QED BY <1>5, <1>6, <1>8, Announced DEF Tells, Open

LEMMA BrowserStarts == SharedInit /\ BrowserInit => BrowserInv
<1> SUFFICES ASSUME SharedInit, BrowserInit PROVE BrowserInv OBVIOUS
<1>1. MaxRows \in Nat BY SharedAssumption
<1>2. Terminal BY <1>1, BrowserAssumption DEF SharedInit, BrowserInit, Terminal, Ids
<1>3. Listable(bEntries) /\ Unselected(bEntries)
  <2>1. PICK S \in SUBSET Ids : S = rows BY DEF SharedInit
  <2>2. PICK e : e = bEntries OBVIOUS
  <2>3. e = load_history(S) BY <2>1, <2>2 DEF BrowserInit
  <2> QED BY <2>2, <2>3, LoadIs
<1>4. Selection BY <1>3, NonePicked, SelectionIs DEF BrowserInit
<1>5. Listing BY <1>3, KeptIs DEF BrowserInit, Listing
<1> QED BY <1>2, <1>3, <1>4, <1>5 DEF BrowserInv

LEMMA BrowserSteps ==
  BrowserInv /\ [BrowserNext]_<<browserVars, storeVars>> => BrowserInv' /\ Tells
BY Moves, Settings, OthersRows, Filters, ToggleStep, SelectAllStep, UnselectAllStep,
   ConfirmDeleteStep, DeleteFailsStep DEF BrowserNext

\* For any history, filters, scores and heights of the terminal, and whatever other sessions
\* delete: the dialog announces what was chosen, deletes that and nothing else, and the row
\* the keys act on stays on the screen (delete_selected, update_filter, toggle_selection and
\* the moves of history_browser.rs).
THEOREM BrowserTellsTruth == BrowserSpec => ScreenTellsTruth
<1>1. BrowserInv /\ [BrowserNext]_<<browserVars, storeVars>>
        => BrowserInv' /\ [Tells]_<<browserVars, storeVars>>
  BY BrowserSteps
<1>2. SharedInit /\ BrowserInit /\ [][BrowserNext]_<<browserVars, storeVars>>
        => [][Tells]_<<browserVars, storeVars>>
  BY <1>1, BrowserStarts, PTL
<1> QED BY <1>2, PTL DEF BrowserSpec, ScreenTellsTruth, Tells
=============================================================================
