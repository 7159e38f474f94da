------------------------------ MODULE TaskImport -------------------------------
(***************************************************************************)
(* Importing task completions from a file (SmartMigrationService,          *)
(* runTaskUpdates).  Rows are collected and written in batches: one call   *)
(* for the logs, one for the statuses; when either fails, the batch is     *)
(* written again row by row.  An import may die, and the file be imported  *)
(* again.  What a row holds besides its task is left out; a row of Invalid *)
(* is one that a check of the loop turns down, Blank one whose mapped      *)
(* cells are all empty.  The recalculation that follows is that of         *)
(* TaskWorkflow.                                                           *)
(***************************************************************************)
EXTENDS Naturals, FiniteSets, Sequences

CONSTANTS
    Tasks,          \* an asset and a task: the id of a status
    Invalid, Blank,
    Files,          \* the files: sequences of Tasks, Invalid and Blank
    FlushEvery,     \* TASK_FLUSH_EVERY
    MaxImports,     \* bound on the imports
    MaxWriteErrors, \* bound on the calls that fail
    NoImportLog

ASSUME TaskImportAssumption ==
    /\ Invalid \notin Tasks /\ Blank \notin Tasks \cup {Invalid}
    /\ Files \subseteq Seq(Tasks \cup {Invalid, Blank})
    /\ FlushEvery \in Nat \ {0} /\ MaxImports \in Nat /\ MaxWriteErrors \in Nat
    /\ NoImportLog \notin Nat \X Nat

VARIABLES
    file,
    importLogs,     \* task_logs: their ids, with the task
    statuses,       \* asset_task_statuses: log_id of each Done task, or NoImportLog
    import,         \* the import under way
    imports,        \* how many there were
    writeErrors     \* how many calls failed

importVars == << file, importLogs, statuses, import, imports, writeErrors >>

\* A log is named by its task, the import and the row that made it; 0 was there
\* before.
ImportLogIds == (0..MaxImports) \X Nat
ImportRow == [row : Nat, task : Tasks, log : ImportLogIds]

\* statusById: what the import takes the statuses to be.  pending: rows collected,
\* batch: those being written, failedCall: whether a call for the batch failed, on:
\* the place of the row in the batch.  saved, failed: the rows counted as such.
Import == [at : {"none", "rows", "logs", "statuses", "rowLog", "rowStatus", "done"},
           row : Nat, statusById : [Tasks -> ImportLogIds \cup {NoImportLog}],
           pending : Seq(ImportRow), batch : Seq(ImportRow), logFailed : BOOLEAN, on : Nat,
           saved : SUBSET Nat, failed : SUBSET Nat]

ImportTypeOK ==
    /\ file \in Files
    /\ importLogs \subseteq [id : ImportLogIds, task : Tasks]
    /\ statuses \in [Tasks -> ImportLogIds \cup {NoImportLog}]
    /\ import \in Import
    /\ imports \in 0..MaxImports
    /\ writeErrors \in 0..MaxWriteErrors

ImportInit ==
    /\ file \in Files
    /\ \E done \in SUBSET Tasks :
          /\ importLogs = {[id |-> << 0, 0 >>, task |-> t] : t \in done}
          /\ statuses = [t \in Tasks |-> IF t \in done THEN << 0, 0 >> ELSE NoImportLog]
    /\ import = [at |-> "none", row |-> 0, statusById |-> statuses, pending |-> << >>,
                 batch |-> << >>, logFailed |-> FALSE, on |-> 0, saved |-> {},
                 failed |-> {}]
    /\ imports = 0
    /\ writeErrors = 0

-------------------------------------------------------------------------------
\* runTaskUpdates up to its loop: the statuses of the file's assets are read once.
StartImport ==
    /\ import.at = "none"
    /\ imports < MaxImports
    /\ imports' = imports + 1
    /\ import' = [import EXCEPT !.at = "rows", !.row = 1, !.statusById = statuses]
    /\ UNCHANGED << file, importLogs, statuses, writeErrors >>

\* How many of the rows collected flushBatch writes now.
Due == IF Len(import.pending) >= FlushEvery THEN FlushEvery
       ELSE IF import.row > Len(file) THEN Len(import.pending) ELSE 0

\* A row without data is counted nowhere.
SkipRow ==
    /\ import.at = "rows" /\ Due = 0 /\ import.row <= Len(file)
    /\ file[import.row] = Blank
    /\ import' = [import EXCEPT !.row = @ + 1]
    /\ UNCHANGED << file, importLogs, statuses, imports, writeErrors >>

RejectRow ==
    /\ import.at = "rows" /\ Due = 0 /\ import.row <= Len(file)
    /\ file[import.row] = Invalid
    /\ import' = [import EXCEPT !.row = @ + 1, !.failed = @ \cup {import.row}]
    /\ UNCHANGED << file, importLogs, statuses, imports, writeErrors >>

\* Mutant: only what was read at the start is looked at.
LogOfRead(t) == IF statuses[t] # NoImportLog THEN statuses[t] ELSE << imports, import.row >>

\* The log that the task already has, be it from a row before, or a new one.
LogOf(t) == IF import.statusById[t] # NoImportLog THEN import.statusById[t]
            ELSE << imports, import.row >>

CollectRow ==
    /\ import.at = "rows" /\ Due = 0 /\ import.row <= Len(file)
    /\ LET t == file[import.row] IN
       /\ t \notin {Invalid, Blank}
       /\ import' = [import EXCEPT !.row = @ + 1, !.statusById[t] = LogOf(t),
                        !.pending = Append(@, [row |-> import.row, task |-> t,
                                               log |-> LogOf(t)])]
    /\ UNCHANGED << file, importLogs, statuses, imports, writeErrors >>

FlushBatch ==
    /\ import.at = "rows" /\ Due > 0
    /\ import' = [import EXCEPT !.at = "logs",
                     !.batch = SubSeq(import.pending, 1, Due),
                     !.pending = SubSeq(import.pending, Due + 1, Len(import.pending))]
    /\ UNCHANGED << file, importLogs, statuses, imports, writeErrors >>

\* One statement upserts a row only once: with two of the same id it fails.
LogsDistinct == \A i, j \in DOMAIN import.batch :
                   import.batch[i].task = import.batch[j].task
                   /\ import.batch[i].log = import.batch[j].log => i = j
TasksDistinct == \A i, j \in DOMAIN import.batch :
                   import.batch[i].task = import.batch[j].task => i = j

WithLogs(entries) == importLogs \cup {[id |-> e.log, task |-> e.task] : e \in entries}
WithStatuses(entries) ==
    [t \in Tasks |-> IF \E e \in entries : e.task = t
                     THEN (CHOOSE e \in entries : e.task = t).log ELSE statuses[t]]

BatchEntries == {import.batch[i] : i \in DOMAIN import.batch}
Fails == writeErrors < MaxWriteErrors /\ writeErrors' = writeErrors + 1

\* The logs of the batch.  Whether that worked is only looked at later.
UpsertLogs ==
    /\ import.at = "logs"
    /\ \/ /\ LogsDistinct
          /\ importLogs' = WithLogs(BatchEntries)
          /\ import' = [import EXCEPT !.at = "statuses", !.logFailed = FALSE]
          /\ UNCHANGED writeErrors
       \/ /\ IF LogsDistinct THEN Fails ELSE UNCHANGED writeErrors
          /\ import' = [import EXCEPT !.at = "statuses", !.logFailed = TRUE]
          /\ UNCHANGED importLogs
    /\ UNCHANGED << file, statuses, imports >>

RowsOf(entries) == {e.row : e \in entries}
Saves(rows) == [import EXCEPT !.at = "rows", !.batch = << >>, !.on = 0, !.logFailed = FALSE,
                              !.saved = @ \cup rows]

\* Mutant: an error of the logs is forgotten when the statuses are saved.
UpsertStatusesOnly ==
    /\ import.at = "statuses"
    /\ TasksDistinct
    /\ statuses' = WithStatuses(BatchEntries)
    /\ import' = Saves(RowsOf(BatchEntries))
    /\ UNCHANGED << file, importLogs, imports, writeErrors >>

\* The statuses of the batch, which is saved if both calls worked.
UpsertStatuses ==
    /\ import.at = "statuses"
    /\ TasksDistinct
    /\ statuses' = WithStatuses(BatchEntries)
    /\ import' = IF import.logFailed
                 THEN [import EXCEPT !.at = "rowLog", !.on = 1, !.logFailed = FALSE]
                 ELSE Saves(RowsOf(BatchEntries))
    /\ UNCHANGED << file, importLogs, imports, writeErrors >>

StatusesFail ==
    /\ import.at = "statuses"
    /\ IF TasksDistinct THEN Fails ELSE UNCHANGED writeErrors
    /\ import' = [import EXCEPT !.at = "rowLog", !.on = 1, !.logFailed = FALSE]
    /\ UNCHANGED << file, importLogs, statuses, imports >>

\* Row by row, the log first; the status is written even if the log was not.
UpsertRowLog ==
    /\ import.at = "rowLog"
    /\ \/ /\ importLogs' = WithLogs({import.batch[import.on]})
          /\ import' = [import EXCEPT !.at = "rowStatus"]
          /\ UNCHANGED writeErrors
       \/ /\ Fails
          /\ import' = [import EXCEPT !.at = "rowStatus", !.logFailed = TRUE]
          /\ UNCHANGED importLogs
    /\ UNCHANGED << file, statuses, imports >>

NextRow(i) ==
    IF i.on = Len(i.batch)
    THEN [i EXCEPT !.at = "rows", !.batch = << >>, !.on = 0, !.logFailed = FALSE]
    ELSE [i EXCEPT !.at = "rowLog", !.on = @ + 1, !.logFailed = FALSE]

UpsertRowStatus ==
    LET row == import.batch[import.on].row IN
    /\ import.at = "rowStatus"
    /\ \/ /\ statuses' = WithStatuses({import.batch[import.on]})
          /\ import' = IF import.logFailed
                       THEN NextRow([import EXCEPT !.failed = @ \cup {row}])
                       ELSE NextRow([import EXCEPT !.saved = @ \cup {row}])
          /\ UNCHANGED writeErrors
       \/ /\ Fails
          /\ import' = NextRow([import EXCEPT !.failed = @ \cup {row}])
          /\ UNCHANGED statuses
    /\ UNCHANGED << file, importLogs, imports >>

FinishImport ==
    /\ import.at = "rows" /\ Due = 0 /\ import.row > Len(file)
    /\ import' = [import EXCEPT !.at = "done"]
    /\ UNCHANGED << file, importLogs, statuses, imports, writeErrors >>

\* The result is looked at, or the process ends.
EndImport ==
    /\ import.at # "none"
    /\ import' = [import EXCEPT !.at = "none", !.pending = << >>, !.batch = << >>,
                     !.on = 0, !.logFailed = FALSE, !.row = 0, !.saved = {}, !.failed = {}]
    /\ UNCHANGED << file, importLogs, statuses, imports, writeErrors >>

ImportNext ==
    \/ StartImport \/ SkipRow \/ RejectRow \/ CollectRow \/ FlushBatch
    \/ UpsertLogs \/ UpsertStatuses \/ StatusesFail
    \/ UpsertRowLog \/ UpsertRowStatus
    \/ FinishImport \/ EndImport

ImportSpec == ImportInit /\ [][ImportNext]_importVars

-------------------------------------------------------------------------------
(* Properties *)

\* The result accounts for every row of the file that has data, once: as saved or as
\* failed; what is blank it passes over in silence.  A row counted as saved has its
\* status and the log that it points to, written in the batch or row by row, with rows of
\* one task sharing a log; and whatever fails, an import makes at most one log for a task,
\* and none for one that had.
SavedHasItsLog ==
    /\ import.at = "done" => /\ import.saved \cup import.failed =
                                    {r \in DOMAIN file : file[r] # Blank}
                             /\ import.saved \cap import.failed = {}
    /\ \A r \in import.saved :
          [id |-> statuses[file[r]], task |-> file[r]] \in importLogs
    /\ \A k, l \in importLogs : k.task = l.task /\ k.id[1] \in {0, l.id[1]} => k = l

===============================================================================
