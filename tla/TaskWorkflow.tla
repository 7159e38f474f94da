----------------------------- MODULE TaskWorkflow -----------------------------
(***************************************************************************)
(* The task state of one asset: its asset_task_statuses rows, its          *)
(* task_logs, and the requests of TaskActionsService that change them.     *)
(*                                                                         *)
(* A request is a chain of awaited PostgREST calls, each a transaction of  *)
(* its own, so every await is a place where another request runs.  A       *)
(* request slot of Requests runs one request at a time; one slot is a      *)
(* client that waits for each answer, several are concurrent clients.      *)
(*                                                                         *)
(* Abstracted: timestamps, remarks, names, the reschedule columns and the  *)
(* start/target dates (nothing modelled reads them); the asset (handlers   *)
(* never touch two); roles, which CanComplete condenses.                   *)
(***************************************************************************)
EXTENDS Naturals

CONSTANTS
    Tasks,          \* task ids of the asset's status rows
    Steps,          \* those that are steps of the asset's workflow set
    Order,          \* workflow_steps.step_order of a step
    Triggers,       \* triggeringTaskIds of a step, possibly {}
    EventTasks,     \* system-triggered steps that the trigger event completes
    Users,
    SuperAdmins,    \* isSuperAdminRole
    CanComplete,    \* << user, task >> pairs that the role checks let through
    SlaOverrides,   \* values of sla_to_complete_override
    Requests,       \* slots for requests in flight
    MaxLogs,        \* bound on the log rows ever inserted
    Faults,         \* "abort": a request may die; "read": a select may answer
                    \* an error that its handler does not look at
    NoUser, NoSla, Absent

ASSUME WorkflowAssumption ==
    /\ Tasks # {}
    /\ Steps \subseteq Tasks
    /\ Order \in [Steps -> Nat]
    /\ \A s, t \in Steps : Order[s] = Order[t] => s = t
    /\ Triggers \in [Steps -> SUBSET Tasks]
    /\ EventTasks \subseteq Steps

ASSUME ActorAssumption ==
    /\ Users # {}
    /\ SuperAdmins \subseteq Users
    /\ CanComplete \subseteq Users \X Tasks
    /\ MaxLogs \in Nat
    /\ Faults \subseteq {"abort", "read"}
    /\ NoUser \notin Users
    /\ NoSla \notin SlaOverrides

VARIABLES
    rows,       \* asset_task_statuses, by task
    logs,       \* task_logs, by insertion number
    nextLog,    \* number of the next log row
    pc,         \* what each request does when its pending await returns
    req,        \* the local variables of each request
    snap        \* the rows its recalculation has read

vars == << rows, logs, nextLog, pc, req, snap >>

-------------------------------------------------------------------------------
NoLog == 0
LogIds == 1..MaxLogs
Statuses == {"None", "Locked", "Open", "Done"}

LogRow == [task : Tasks, by : Users, system : BOOLEAN]
StatusRow == [status : Statuses, log : LogIds \cup {NoLog},
              reporter : Users \cup {NoUser}, sla : SlaOverrides \cup {NoSla}]

ASSUME AbsentAssumption == Absent \notin LogRow

NoRow == [status |-> "None", log |-> NoLog, reporter |-> NoUser, sla |-> NoSla]

\* "idle": no request in flight, the last one answered 2xx.
\* "failed": no request in flight, the last one threw or the process died.
Resting == {"idle", "failed"}
Working == {"log", "mark", "unmark", "unlog", "report", "withdraw", "sla",
            "next", "snap", "write"}

\* task, user and log of the request; todo is what a loop has left to do.
Request == [task : Tasks, user : Users, log : LogIds \cup {NoLog},
            sla : SlaOverrides \cup {NoSla}, system : BOOLEAN, todo : SUBSET Tasks]

TypeOK ==
    /\ rows \in [Tasks -> StatusRow]
    /\ logs \in [LogIds -> LogRow \cup {Absent}]
    /\ nextLog \in 1..(MaxLogs + 1)
    /\ pc \in [Requests -> Resting \cup Working]
    /\ req \in [Requests -> Request]
    /\ snap \in [Requests -> [Tasks -> StatusRow]]

NewRequest(t, u) ==
    [task |-> t, user |-> u, log |-> NoLog, sla |-> NoSla, system |-> FALSE,
     todo |-> {}]

\* A loop takes t out of what it has left to do.
Taken(q, t) == [q EXCEPT !.task = t, !.todo = q.todo \ {t}]

BlankRequest == NewRequest(CHOOSE t \in Tasks : TRUE, CHOOSE u \in Users : TRUE)
BlankRows == [t \in Tasks |-> NoRow]

Init ==
    /\ rows = BlankRows
    /\ logs = [i \in LogIds |-> Absent]
    /\ nextLog = 1
    /\ pc = [r \in Requests |-> "idle"]
    /\ req = [r \in Requests |-> BlankRequest]
    /\ snap = [r \in Requests |-> BlankRows]

-------------------------------------------------------------------------------
\* The bookkeeping of a request: it starts, moves to its next await, or rests.
Start(r, next, q) ==
    /\ pc[r] \in Resting
    /\ pc' = [pc EXCEPT ![r] = next]
    /\ req' = [req EXCEPT ![r] = q]
    /\ UNCHANGED snap

Goto(r, from, to) ==
    /\ pc[r] = from
    /\ pc' = [pc EXCEPT ![r] = to]

Rest(r, outcome) ==
    /\ pc' = [pc EXCEPT ![r] = outcome]
    /\ req' = [req EXCEPT ![r] = BlankRequest]
    /\ snap' = [snap EXCEPT ![r] = BlankRows]

IsDone(row) == row.status = "Done"

\* The column lists of the writes; what a list leaves out stays as it is.
CompletedRow(row, l) == [row EXCEPT !.status = "Done", !.log = l]
ReopenedRow(row) == [row EXCEPT !.status = "Open", !.log = NoLog, !.reporter = NoUser]
ReportedRow(row, u) == [row EXCEPT !.reporter = u]
OverriddenRow(row, d) == [row EXCEPT !.sla = d]
RecalculatedRow(row, read, s) ==
    [row EXCEPT !.status = s, !.log = read.log, !.sla = read.sla]

Write(t, row) == rows' = [rows EXCEPT ![t] = row]

-------------------------------------------------------------------------------
(* completeWorkflow *)

\* The last read before the first write: the role may complete the task and
\* its row is not Done.  A refused request changes nothing and is no step.
CompleteRead(r, u, t) ==
    /\ << u, t >> \in CanComplete
    /\ ~IsDone(rows[t])
    /\ Start(r, "log", NewRequest(t, u))
    /\ UNCHANGED << rows, logs, nextLog >>

\* The insert of the log row, of completeWorkflow or triggerSystemTask.  Ids
\* carry the clock; two in one millisecond collide and the insert aborts.
InsertLog(r) ==
    /\ Goto(r, "log", "mark")
    /\ nextLog \in LogIds
    /\ logs' = [logs EXCEPT ![nextLog] =
                  [task |-> req[r].task, by |-> req[r].user, system |-> req[r].system]]
    /\ nextLog' = nextLog + 1
    /\ req' = [req EXCEPT ![r] = [@ EXCEPT !.log = nextLog]]
    /\ UNCHANGED << rows, snap >>

\* Mutated: the row takes the number that the next log will get.
MarkDoneNextLog(r) ==
    /\ Goto(r, "mark", IF req[r].system THEN "next" ELSE "snap")
    /\ Write(req[r].task, CompletedRow(rows[req[r].task], nextLog))
    /\ UNCHANGED << logs, nextLog, req, snap >>

\* The upsert of the status row; reported_not_yet_* and the override stay.
MarkDone(r) ==
    /\ Goto(r, "mark", IF req[r].system THEN "next" ELSE "snap")
    /\ Write(req[r].task, CompletedRow(rows[req[r].task], req[r].log))
    /\ UNCHANGED << logs, nextLog, req, snap >>

-------------------------------------------------------------------------------
(* revertToOpen *)

MayUndo(u, l) == ~l.system /\ (l.by = u \/ u \in SuperAdmins)

\* Mutated: also what a system event completed may be reverted.
RevertReadSystemToo(r, u, t) ==
    /\ IsDone(rows[t])
    /\ rows[t].log \in LogIds
    /\ logs[rows[t].log] # Absent
    /\ logs[rows[t].log].by = u \/ u \in SuperAdmins
    /\ Start(r, "unmark", NewRequest(t, u))
    /\ UNCHANGED << rows, logs, nextLog >>

\* Mutated: goes on to delete the log without having reopened the row.
RevertReadKeepsRow(r, u, t) ==
    /\ IsDone(rows[t])
    /\ rows[t].log \in LogIds
    /\ logs[rows[t].log] # Absent
    /\ MayUndo(u, logs[rows[t].log])
    /\ Start(r, "unlog", NewRequest(t, u))
    /\ UNCHANGED << rows, logs, nextLog >>

RevertRead(r, u, t) ==
    /\ IsDone(rows[t])
    /\ rows[t].log \in LogIds
    /\ logs[rows[t].log] # Absent
    /\ MayUndo(u, logs[rows[t].log])
    /\ Start(r, "unmark", NewRequest(t, u))
    /\ UNCHANGED << rows, logs, nextLog >>

\* Mutated: reopens the row and leaves its log_id.
RevertMarkKeepsLog(r) ==
    /\ Goto(r, "unmark", "unlog")
    /\ LET row == rows[req[r].task] IN
         Write(req[r].task, [ReopenedRow(row) EXCEPT !.log = row.log])
    /\ UNCHANGED << logs, nextLog, req, snap >>

RevertMark(r) ==
    /\ Goto(r, "unmark", "unlog")
    /\ Write(req[r].task, ReopenedRow(rows[req[r].task]))
    /\ UNCHANGED << logs, nextLog, req, snap >>

\* Deletes every log of the task, not only the one that was read.
RevertUnlog(r) ==
    /\ Goto(r, "unlog", "snap")
    /\ logs' = [i \in LogIds |->
                  IF logs[i] # Absent /\ logs[i].task = req[r].task
                  THEN Absent ELSE logs[i]]
    /\ UNCHANGED << rows, nextLog, req, snap >>

-------------------------------------------------------------------------------
(* reportNotYetDone, withdrawReport *)

CompletedBySelf(u, row) ==
    /\ row.log \in LogIds
    /\ logs[row.log] # Absent
    /\ logs[row.log].by = u

ReportRead(r, u, t) ==
    /\ IsDone(rows[t])
    /\ ~CompletedBySelf(u, rows[t])
    /\ rows[t].reporter = NoUser
    /\ Start(r, "report", NewRequest(t, u))
    /\ UNCHANGED << rows, logs, nextLog >>

ReportWrite(r) ==
    /\ pc[r] = "report"
    /\ Write(req[r].task, ReportedRow(rows[req[r].task], req[r].user))
    /\ Rest(r, "idle")
    /\ UNCHANGED << logs, nextLog >>

\* Unlike the other handlers it does not ask whether the row is still Done.
WithdrawRead(r, u, t) ==
    /\ rows[t].reporter # NoUser
    /\ rows[t].reporter = u \/ u \in SuperAdmins
    /\ Start(r, "withdraw", NewRequest(t, u))
    /\ UNCHANGED << rows, logs, nextLog >>

WithdrawWrite(r) ==
    /\ pc[r] = "withdraw"
    /\ Write(req[r].task, ReportedRow(rows[req[r].task], NoUser))
    /\ Rest(r, "idle")
    /\ UNCHANGED << logs, nextLog >>

-------------------------------------------------------------------------------
(* rescheduleTask, updateSlaOverride, recalculateAsset *)

HasOpenEndedRow(t) == rows[t].status \in {"Locked", "Open"}

\* Its write touches the reschedule columns only, so what is left of the
\* request is its read and the recalculation.
RescheduleRead(r, u, t) ==
    /\ HasOpenEndedRow(t)
    /\ Start(r, "snap", NewRequest(t, u))
    /\ UNCHANGED << rows, logs, nextLog >>

SlaRead(r, u, t, d) ==
    /\ HasOpenEndedRow(t)
    /\ Start(r, "sla", [NewRequest(t, u) EXCEPT !.sla = d])
    /\ UNCHANGED << rows, logs, nextLog >>

SlaWrite(r) ==
    /\ Goto(r, "sla", "snap")
    /\ Write(req[r].task, OverriddenRow(rows[req[r].task], req[r].sla))
    /\ UNCHANGED << logs, nextLog, req, snap >>

RecalculateAsset(r) ==
    /\ Start(r, "snap", BlankRequest)
    /\ UNCHANGED << rows, logs, nextLog >>

-------------------------------------------------------------------------------
(* triggerSystemTask *)

TriggerStart(r, u) ==
    /\ EventTasks # {}
    /\ \E t \in EventTasks :
         Start(r, "next", [NewRequest(t, u) EXCEPT !.system = TRUE, !.todo = EventTasks])
    /\ UNCHANGED << rows, logs, nextLog >>

\* One turn of the loop over the event's tasks, whose order is the database's.
\* The select's error is not looked at: without a row the task is not Done.
TriggerNext(r, t, failed) ==
    /\ pc[r] = "next"
    /\ t \in req[r].todo
    /\ failed => "read" \in Faults
    /\ pc' = [pc EXCEPT ![r] = IF IsDone(rows[t]) /\ ~failed THEN "next" ELSE "log"]
    /\ req' = [req EXCEPT ![r] = Taken(@, t)]
    /\ UNCHANGED << rows, logs, nextLog, snap >>

TriggerEnd(r) ==
    /\ req[r].todo = {}
    /\ Goto(r, "next", "snap")
    /\ UNCHANGED << rows, logs, nextLog, req, snap >>

-------------------------------------------------------------------------------
(* recalculateAssetTaskStatuses, the tail of every handler above but two *)

DoneTasks(table) == {t \in Tasks : IsDone(table[t])}

\* A step without triggers follows the step one place before it, if any.
EffectiveTriggers(t) ==
    IF Triggers[t] # {} THEN Triggers[t]
                        ELSE {s \in Steps : Order[s] + 1 = Order[t]}

Derived(table, t) ==
    IF EffectiveTriggers(t) \subseteq DoneTasks(table) THEN "Open" ELSE "Locked"

\* The steps whose row the recalculation rewrites: not Done, and changed.
Outdated(table) ==
    {t \in Steps : ~IsDone(table[t]) /\ table[t].status # Derived(table, t)}

IsFirstOf(t, todo) == t \in todo /\ \A s \in todo : Order[t] <= Order[s]

\* Mutated: opens steps whose triggers are met, never locks one again.
RecalcReadOpensOnly(r, failed) ==
    LET read == IF failed THEN BlankRows ELSE rows
        opening == {t \in Outdated(read) : Derived(read, t) = "Open"} IN
    /\ pc[r] = "snap"
    /\ failed => "read" \in Faults
    /\ IF opening = {}
       THEN Rest(r, "idle")
       ELSE /\ pc' = [pc EXCEPT ![r] = "write"]
            /\ snap' = [snap EXCEPT ![r] = read]
            /\ req' = [req EXCEPT ![r] = [BlankRequest EXCEPT !.todo = opening]]
    /\ UNCHANGED << rows, logs, nextLog >>

\* Reads all rows at once; everything after works on what was read here.  The
\* status select's error is not looked at and leaves an empty list of rows.
RecalcRead(r, failed) ==
    LET read == IF failed THEN BlankRows ELSE rows IN
    /\ pc[r] = "snap"
    /\ failed => "read" \in Faults
    /\ IF Outdated(read) = {}
       THEN Rest(r, "idle")
       ELSE /\ pc' = [pc EXCEPT ![r] = "write"]
            /\ snap' = [snap EXCEPT ![r] = read]
            /\ req' = [req EXCEPT ![r] = [BlankRequest EXCEPT !.todo = Outdated(read)]]
    /\ UNCHANGED << rows, logs, nextLog >>

\* A failed select of the asset ends the recalculation, and the request is
\* answered as if it had been done.
RecalcSkipped(r) ==
    /\ "read" \in Faults
    /\ pc[r] = "snap"
    /\ Rest(r, "idle")
    /\ UNCHANGED << rows, logs, nextLog >>

\* Mutated: the loop ends with its first write.
RecalcWriteOnce(r, t) ==
    /\ pc[r] = "write"
    /\ IsFirstOf(t, req[r].todo)
    /\ Write(t, RecalculatedRow(rows[t], snap[r][t], Derived(snap[r], t)))
    /\ Rest(r, "idle")
    /\ UNCHANGED << logs, nextLog >>

\* Mutated: the upsert leaves out the override that the row had.
RecalcWriteDropsSla(r, t) ==
    /\ pc[r] = "write"
    /\ IsFirstOf(t, req[r].todo)
    /\ Write(t, OverriddenRow(RecalculatedRow(rows[t], snap[r][t], Derived(snap[r], t)),
                             NoSla))
    /\ IF req[r].todo = {t}
       THEN Rest(r, "idle")
       ELSE /\ req' = [req EXCEPT ![r] = Taken(@, t)]
            /\ UNCHANGED << pc, snap >>
    /\ UNCHANGED << logs, nextLog >>

\* One upsert: the derived status, with log_id and the override as read.
RecalcWriteRow(r, t) ==
    /\ pc[r] = "write"
    /\ IsFirstOf(t, req[r].todo)
    /\ Write(t, RecalculatedRow(rows[t], snap[r][t], Derived(snap[r], t)))
    /\ IF req[r].todo = {t}
       THEN Rest(r, "idle")
       ELSE /\ req' = [req EXCEPT ![r] = Taken(@, t)]
            /\ UNCHANGED << pc, snap >>
    /\ UNCHANGED << logs, nextLog >>

RecalcWrite(r) == \E t \in Steps : RecalcWriteRow(r, t)

-------------------------------------------------------------------------------
\* A query throws or the process dies: what was written stays written.  A log
\* insert also fails once the bound MaxLogs is used up.
Abort(r) ==
    /\ pc[r] \in Working
    /\ "abort" \in Faults \/ (pc[r] = "log" /\ nextLog > MaxLogs)
    /\ Rest(r, "failed")
    /\ UNCHANGED << rows, logs, nextLog >>

\* The next await of a request in flight returns.
Progress(r) ==
    \/ InsertLog(r) \/ MarkDone(r)
    \/ RevertMark(r) \/ RevertUnlog(r)
    \/ ReportWrite(r) \/ WithdrawWrite(r)
    \/ SlaWrite(r)
    \/ \E t \in EventTasks, failed \in BOOLEAN : TriggerNext(r, t, failed)
    \/ TriggerEnd(r)
    \/ \E failed \in BOOLEAN : RecalcRead(r, failed)
    \/ RecalcSkipped(r)
    \/ RecalcWrite(r)

Arrive(r) ==
    \/ \E u \in Users, t \in Tasks :
         \/ CompleteRead(r, u, t) \/ RevertRead(r, u, t)
         \/ ReportRead(r, u, t) \/ WithdrawRead(r, u, t)
         \/ RescheduleRead(r, u, t)
         \/ \E d \in SlaOverrides \cup {NoSla} : SlaRead(r, u, t, d)
    \/ \E u \in Users : TriggerStart(r, u)
    \/ RecalculateAsset(r)

Next == \E r \in Requests : Arrive(r) \/ Progress(r) \/ Abort(r)

Spec == Init /\ [][Next]_vars

\* The event loop resumes every await that has returned.
FairSpec == Spec /\ \A r \in Requests : WF_vars(Progress(r))

-------------------------------------------------------------------------------
(* What holds however many requests run at once *)

\* A row points at a log row exactly while it is Done, and at no log row of
\* another task: completion, revert and the recalculation's upsert of a stale
\* log_id never leave a Done row without, or an open row with, a log_id.
LoggedRows ==
    \A t \in Tasks :
        /\ IsDone(rows[t]) <=> rows[t].log # NoLog
        /\ rows[t].log \in LogIds /\ logs[rows[t].log] # Absent
             => logs[rows[t].log].task = t

MayComplete(u, t, bySystem) ==
    IF bySystem THEN t \in EventTasks ELSE << u, t >> \in CanComplete

\* Whoever a Done row's log names passed the role checks of completeWorkflow,
\* or the step is one that a system event completes.
AuthorisedCompletion ==
    \A t \in Tasks :
        IsDone(rows[t]) /\ logs[rows[t].log] # Absent =>
            MayComplete(logs[rows[t].log].by, t, logs[rows[t].log].system)

\* The two invariants above as induction needs them: log numbers in use lie
\* below nextLog, so that no insert reuses one; a request about to mark its task
\* holds the number of that task's log; what a recalculation is about to write
\* had no log_id when it was read; and a request about to log was let through.
LogDiscipline ==
    /\ \A t \in Tasks :
          /\ IsDone(rows[t]) <=> rows[t].log # NoLog
          /\ rows[t].log < nextLog
          /\ rows[t].log # NoLog /\ logs[rows[t].log] # Absent
               => logs[rows[t].log].task = t
    /\ \A r \in Requests :
          /\ pc[r] = "mark" =>
               /\ req[r].log # NoLog
               /\ req[r].log < nextLog
               /\ logs[req[r].log] # Absent => logs[req[r].log].task = req[r].task
          /\ pc[r] = "write" => \A t \in req[r].todo : snap[r][t].log = NoLog

LogsAuthorised ==
    /\ \A i \in LogIds :
          logs[i] # Absent => MayComplete(logs[i].by, logs[i].task, logs[i].system)
    /\ \A r \in Requests :
          /\ pc[r] = "log" => MayComplete(req[r].user, req[r].task, req[r].system)
          /\ pc[r] = "next" => req[r].system

\* Whatever concurrent, aborted or misread requests did to the statuses,
\* recalculations alone repair: if from some time on only they run, keep being
\* asked for and have their selects answered, every step's status ends up
\* derived from the Done ones for good.
OnlyRecalculations == \A r \in Requests : pc[r] \in Resting \cup {"snap", "write"}
KeepsRecalculating == \E r \in Requests : pc[r] = "snap"
Troubled(r) == Abort(r) \/ RecalcSkipped(r) \/ RecalcRead(r, TRUE)
SelectsAnswered == [][\A r \in Requests : Troubled(r) => RecalcRead(r, FALSE)]_vars
Settled == Outdated(rows) = {}
RecalculationConverges ==
    <>[]OnlyRecalculations /\ []<>KeepsRecalculating /\ <>SelectsAnswered => <>[]Settled

-------------------------------------------------------------------------------
(* What holds when a client waits for each answer and no select fails unseen *)

\* A Done row's log exists, so it can be attributed and reverted; a crash
\* between the two writes of completing or reverting does not break that.
DoneHasItsLog ==
    \A t \in Tasks : IsDone(rows[t]) => logs[rows[t].log] # Absent

\* A "not yet done" report stands only on a Done task, and never against its
\* reporter's own completion.
ReportsStandOnDone ==
    \A t \in Tasks :
        rows[t].reporter # NoUser =>
            IsDone(rows[t]) /\ ~CompletedBySelf(rows[t].reporter, rows[t])

\* What a request relies on between its read and its write, when no other runs.
RequestAlone ==
    \A r \in Requests :
        LET t == req[r].task
            row == rows[t] IN
        /\ pc[r] \in {"log", "mark", "unlog"} => ~IsDone(row)
        /\ pc[r] = "mark" => logs[req[r].log] =
                [task |-> t, by |-> req[r].user, system |-> req[r].system]
        /\ pc[r] = "unmark" => IsDone(row) /\ MayUndo(req[r].user, logs[row.log])
        /\ pc[r] = "report" =>
                /\ IsDone(row)
                /\ logs[row.log].by # req[r].user
                /\ row.reporter = NoUser
        /\ pc[r] = "withdraw" =>
                /\ row.reporter # NoUser
                /\ row.reporter = req[r].user \/ req[r].user \in SuperAdmins
        /\ pc[r] = "write" =>
                /\ DoneTasks(snap[r]) = DoneTasks(rows)
                /\ req[r].todo = Outdated(rows)
                /\ \A s \in req[r].todo : snap[r][s].sla = rows[s].sla

\* A request that recalculates is answered with success only when every step
\* that is not Done has the status that its triggers call for, also when an
\* earlier request was cut short.
AnswerSettles ==
    [][\A r \in Requests :
         pc[r] \in {"snap", "write"} /\ pc'[r] = "idle" => Settled']_vars

\* No recalculation takes an SLA override back: only updateSlaOverride, for
\* the task it was asked for, changes one.
OverrideKept ==
    [][\A t \in Tasks :
         rows'[t].sla # rows[t].sla =>
             \E r \in Requests : pc[r] = "sla" /\ req[r].task = t]_vars

-------------------------------------------------------------------------------
(* What the handlers mean to guarantee, and concurrent requests break *)

\* A task stays Done until a request reverts that very task; in particular the
\* recalculation, which takes asset_task_statuses.status for the source of
\* truth and skips Done rows, never takes a completion back.
CompletionStands ==
    [][\A t \in Tasks :
         IsDone(rows[t]) /\ ~IsDone(rows'[t]) =>
             \E r \in Requests : pc[r] = "unmark" /\ req[r].task = t]_vars

-------------------------------------------------------------------------------
\* The rows and logs implement the ledger of who completed what: a completion is
\* the log row that a Done row points at, a report its reported_not_yet_by.
Completion == [t \in Tasks |-> IF IsDone(rows[t]) THEN logs[rows[t].log] ELSE Absent]
Reporter == [t \in Tasks |-> rows[t].reporter]

Ledger == INSTANCE TaskLedger WITH completion <- Completion, reporter <- Reporter
LedgerSpec == Ledger!Spec
===============================================================================
