-------------------------- MODULE TaskWorkflowProofs --------------------------
(***************************************************************************)
(* Theorems about TaskWorkflow, for every workflow set and every set of    *)
(* users.  Of any number of concurrent requests: which rows there are,     *)
(* that who completes a task may, and that recalculations repair and       *)
(* settle.  Of one request at a time, where no select fails unseen,        *)
(* aborted requests included: that the ledger of completions is            *)
(* implemented, and what follows from it.                                  *)
(***************************************************************************)
EXTENDS TaskWorkflow, TLAPS

LEMMA BlankIsRequest == BlankRequest \in Request
  <1>1. /\ (CHOOSE t \in Tasks : TRUE) \in Tasks
        /\ (CHOOSE u \in Users : TRUE) \in Users
    BY WorkflowAssumption, ActorAssumption
  <1>2. QED
    BY <1>1 DEF BlankRequest, NewRequest, Request

LEMMA NewIsRequest ==
  ASSUME NEW t \in Tasks, NEW u \in Users
  PROVE  NewRequest(t, u) \in Request
  BY DEF NewRequest, Request

LEMMA BlankIsTable == BlankRows \in [Tasks -> StatusRow]
  BY DEF BlankRows, NoRow, StatusRow, Statuses

LEMMA TakenFields ==
  ASSUME NEW q \in Request, NEW t \in Tasks
  PROVE  /\ Taken(q, t) \in Request
         /\ Taken(q, t).task = t
         /\ Taken(q, t).todo = q.todo \ {t}
         /\ Taken(q, t).user = q.user
         /\ Taken(q, t).system = q.system
         /\ Taken(q, t).log = q.log
  BY DEF Request, Taken

\* What each write leaves in a row, column by column.
LEMMA CompletedFields ==
  ASSUME NEW row \in StatusRow, NEW l \in LogIds \cup {NoLog}
  PROVE  /\ CompletedRow(row, l) \in StatusRow
         /\ CompletedRow(row, l).status = "Done"
         /\ CompletedRow(row, l).log = l
         /\ CompletedRow(row, l).reporter = row.reporter
         /\ CompletedRow(row, l).sla = row.sla
  BY DEF StatusRow, Statuses, CompletedRow

LEMMA ReopenedFields ==
  ASSUME NEW row \in StatusRow
  PROVE  /\ ReopenedRow(row) \in StatusRow
         /\ ReopenedRow(row).status = "Open"
         /\ ReopenedRow(row).log = NoLog
         /\ ReopenedRow(row).reporter = NoUser
         /\ ReopenedRow(row).sla = row.sla
  BY DEF StatusRow, Statuses, ReopenedRow

LEMMA ReportedFields ==
  ASSUME NEW row \in StatusRow, NEW u \in Users \cup {NoUser}
  PROVE  /\ ReportedRow(row, u) \in StatusRow
         /\ ReportedRow(row, u).status = row.status
         /\ ReportedRow(row, u).log = row.log
         /\ ReportedRow(row, u).reporter = u
         /\ ReportedRow(row, u).sla = row.sla
  BY DEF StatusRow, ReportedRow

LEMMA OverriddenFields ==
  ASSUME NEW row \in StatusRow, NEW d \in SlaOverrides \cup {NoSla}
  PROVE  /\ OverriddenRow(row, d) \in StatusRow
         /\ OverriddenRow(row, d).status = row.status
         /\ OverriddenRow(row, d).log = row.log
         /\ OverriddenRow(row, d).reporter = row.reporter
         /\ OverriddenRow(row, d).sla = d
  BY DEF StatusRow, OverriddenRow

LEMMA RecalculatedFields ==
  ASSUME NEW row \in StatusRow, NEW read \in StatusRow, NEW s \in Statuses
  PROVE  /\ RecalculatedRow(row, read, s) \in StatusRow
         /\ RecalculatedRow(row, read, s).status = s
         /\ RecalculatedRow(row, read, s).log = read.log
         /\ RecalculatedRow(row, read, s).reporter = row.reporter
         /\ RecalculatedRow(row, read, s).sla = read.sla
  BY DEF StatusRow, RecalculatedRow

LEMMA DerivedIsStatus ==
  ASSUME NEW table, NEW t
  PROVE  Derived(table, t) \in {"Open", "Locked"}
  BY DEF Derived

\* The two ways in which a request comes to rest or starts keep its own
\* variables well typed; every action below uses one of them or Goto.
LEMMA RestTypes ==
  ASSUME TypeOK, NEW r \in Requests, NEW outcome \in Resting, Rest(r, outcome)
  PROVE  /\ pc' \in [Requests -> Resting \cup Working]
         /\ req' \in [Requests -> Request]
         /\ snap' \in [Requests -> [Tasks -> StatusRow]]
  BY BlankIsRequest, BlankIsTable DEF TypeOK, Rest

LEMMA StartTypes ==
  ASSUME TypeOK, NEW r \in Requests, NEW next \in Working, NEW q \in Request,
         Start(r, next, q)
  PROVE  /\ pc' \in [Requests -> Resting \cup Working]
         /\ req' \in [Requests -> Request]
         /\ snap' \in [Requests -> [Tasks -> StatusRow]]
  BY DEF TypeOK, Start

LEMMA TypeInit == Init => TypeOK
  BY BlankIsRequest, BlankIsTable, ActorAssumption DEF Init, TypeOK, Resting, LogIds

LEMMA TypeArrive ==
  ASSUME TypeOK, NEW r \in Requests, Arrive(r)
  PROVE  TypeOK'
  <1> USE DEF TypeOK, Working
  <1>1. ASSUME NEW u \in Users, NEW t \in Tasks,
               \/ CompleteRead(r, u, t) \/ RevertRead(r, u, t)
               \/ ReportRead(r, u, t) \/ WithdrawRead(r, u, t)
               \/ RescheduleRead(r, u, t)
        PROVE  TypeOK'
    BY <1>1, NewIsRequest, StartTypes
       DEF CompleteRead, RevertRead, ReportRead, WithdrawRead, RescheduleRead
  <1>2. ASSUME NEW u \in Users, NEW t \in Tasks, NEW d \in SlaOverrides \cup {NoSla},
               SlaRead(r, u, t, d)
        PROVE  TypeOK'
    <2>1. [NewRequest(t, u) EXCEPT !.sla = d] \in Request
      BY DEF NewRequest, Request
    <2>2. QED
      BY <1>2, <2>1, StartTypes DEF SlaRead
  <1>3. ASSUME NEW u \in Users, TriggerStart(r, u)
        PROVE  TypeOK'
    <2>1. PICK t \in EventTasks :
            Start(r, "next", [NewRequest(t, u) EXCEPT !.system = TRUE, !.todo = EventTasks])
      BY <1>3 DEF TriggerStart
    <2>2. [NewRequest(t, u) EXCEPT !.system = TRUE, !.todo = EventTasks] \in Request
      BY WorkflowAssumption DEF NewRequest, Request
    <2>3. QED
      BY <1>3, <2>1, <2>2, StartTypes DEF TriggerStart
  <1>4. CASE RecalculateAsset(r)
    BY <1>4, BlankIsRequest, StartTypes DEF RecalculateAsset
  <1>5. QED
    BY <1>1, <1>2, <1>3, <1>4 DEF Arrive

LEMMA TypeProgress ==
  ASSUME TypeOK, NEW r \in Requests, Progress(r)
  PROVE  TypeOK'
  <1> USE DEF TypeOK, Working, Resting
  <1>1. CASE InsertLog(r)
    <2>1. [req[r] EXCEPT !.log = nextLog] \in Request
      BY <1>1, ZenonT(60) DEF InsertLog, Request
    <2>2. /\ logs' \in [LogIds -> LogRow \cup {Absent}]
          /\ nextLog' \in 1..(MaxLogs + 1)
      BY <1>1, ActorAssumption DEF InsertLog, Request, LogRow, LogIds
    <2>3. QED
      BY <1>1, <2>1, <2>2 DEF InsertLog, Goto
  <1>2. CASE MarkDone(r)
    <2>1. /\ req[r].task \in Tasks
          /\ CompletedRow(rows[req[r].task], req[r].log) \in StatusRow
      BY CompletedFields DEF Request
    <2>2. QED
      BY <1>2, <2>1 DEF MarkDone, Goto, Write
  <1>3. CASE RevertMark(r)
    <2>1. req[r].task \in Tasks /\ ReopenedRow(rows[req[r].task]) \in StatusRow
      BY ReopenedFields DEF Request
    <2>2. QED
      BY <1>3, <2>1 DEF RevertMark, Goto, Write
  <1>4. CASE RevertUnlog(r)
    BY <1>4 DEF RevertUnlog, Goto
  <1>5. CASE ReportWrite(r)
    <2>1. rows' \in [Tasks -> StatusRow]
      BY <1>5, ReportedFields DEF ReportWrite, Request, Write
    <2>2. QED
      BY <1>5, <2>1, RestTypes DEF ReportWrite
  <1>6. CASE WithdrawWrite(r)
    <2>1. rows' \in [Tasks -> StatusRow]
      BY <1>6, ReportedFields DEF WithdrawWrite, Request, Write
    <2>2. QED
      BY <1>6, <2>1, RestTypes DEF WithdrawWrite
  <1>7. CASE SlaWrite(r)
    BY <1>7, OverriddenFields DEF SlaWrite, Goto, Request, Write
  <1>8. ASSUME NEW t \in EventTasks, NEW failed \in BOOLEAN, TriggerNext(r, t, failed)
        PROVE  TypeOK'
    <2>1. Taken(req[r], t) \in Request
      BY TakenFields, WorkflowAssumption
    <2>2. QED
      BY <1>8, <2>1 DEF TriggerNext
  <1>9. CASE TriggerEnd(r)
    BY <1>9 DEF TriggerEnd, Goto
  <1>10. ASSUME NEW failed \in BOOLEAN, RecalcRead(r, failed)
         PROVE  TypeOK'
    <2> DEFINE read == IF failed THEN BlankRows ELSE rows
    <2>1. read \in [Tasks -> StatusRow]
      BY BlankIsTable
    <2>2. Outdated(read) \subseteq Tasks
      BY WorkflowAssumption DEF Outdated
    <2>3. CASE Outdated(read) = {}
      BY <1>10, <2>3, RestTypes DEF RecalcRead
    <2>4. CASE Outdated(read) # {}
      <3>1. [BlankRequest EXCEPT !.todo = Outdated(read)] \in Request
        BY <2>2, BlankIsRequest DEF Request
      <3>2. QED
        BY <1>10, <2>1, <2>4, <3>1 DEF RecalcRead
    <2>5. QED
      BY <2>3, <2>4
  <1>11. CASE RecalcSkipped(r)
    BY <1>11, RestTypes DEF RecalcSkipped
  <1>12. ASSUME NEW t \in Steps, RecalcWriteRow(r, t)
         PROVE  TypeOK'
    <2>1. rows' \in [Tasks -> StatusRow]
      <3>1. t \in Tasks /\ Derived(snap[r], t) \in Statuses
        BY DerivedIsStatus, WorkflowAssumption DEF Statuses
      <3>2. QED
        BY <1>12, <3>1, RecalculatedFields DEF RecalcWriteRow, Write
    <2>2. CASE req[r].todo = {t}
      BY <1>12, <2>1, <2>2, RestTypes DEF RecalcWriteRow
    <2>3. CASE req[r].todo # {t}
      <3>1. Taken(req[r], t) \in Request
        BY TakenFields, WorkflowAssumption
      <3>2. QED
        BY <1>12, <2>1, <2>3, <3>1 DEF RecalcWriteRow
    <2>4. QED
      BY <2>2, <2>3
  <1>13. QED
    BY <1>1, <1>2, <1>3, <1>4, <1>5, <1>6, <1>7, <1>8, <1>9, <1>10, <1>11, <1>12
       DEF Progress, RecalcWrite

LEMMA TypeStep == TypeOK /\ [Next]_vars => TypeOK'
  <1> SUFFICES ASSUME TypeOK, [Next]_vars
               PROVE  TypeOK'
    OBVIOUS
  <1>1. ASSUME NEW r \in Requests, Abort(r)
        PROVE  TypeOK'
    BY <1>1, RestTypes DEF Abort, TypeOK, Resting
  <1>2. CASE UNCHANGED vars
    BY <1>2 DEF vars, TypeOK
  <1>3. QED
    BY <1>1, <1>2, TypeArrive, TypeProgress DEF Next

\* Every variable keeps its type, whatever the workflow set, the users, the
\* faults and the number of requests in flight.
THEOREM TypeCorrect == Spec => []TypeOK
  BY TypeInit, TypeStep, PTL DEF Spec

-------------------------------------------------------------------------------
\* A step that writes no log_id and no status, and takes no request to the
\* awaits that the discipline speaks of, keeps it.
LEMMA QuietDiscipline ==
  ASSUME TypeOK, LogDiscipline, NEW r \in Requests,
         UNCHANGED << logs, nextLog >>,
         \A t \in Tasks : rows'[t].status = rows[t].status /\ rows'[t].log = rows[t].log,
         pc'[r] \notin {"mark", "write"},
         \A q \in Requests \ {r} : pc'[q] = pc[q] /\ req'[q] = req[q] /\ snap'[q] = snap[q]
  PROVE  LogDiscipline'
  BY DEF LogDiscipline, IsDone

LEMMA RestsQuietly ==
  ASSUME TypeOK, NEW r \in Requests, NEW outcome \in Resting, Rest(r, outcome)
  PROVE  /\ pc'[r] \notin {"mark", "write"}
         /\ \A q \in Requests \ {r} :
               pc'[q] = pc[q] /\ req'[q] = req[q] /\ snap'[q] = snap[q]
  BY DEF TypeOK, Rest, Resting

LEMMA DisciplineArrive ==
  ASSUME TypeOK, LogDiscipline, NEW r \in Requests, Arrive(r)
  PROVE  LogDiscipline'
  <1>1. PICK next \in {"log", "unmark", "report", "withdraw", "sla", "next", "snap"} :
          \E q : Start(r, next, q)
    BY DEF Arrive, CompleteRead, RevertRead, ReportRead, WithdrawRead, RescheduleRead,
           SlaRead, TriggerStart, RecalculateAsset
  <1>2. UNCHANGED << rows, logs, nextLog >>
    BY DEF Arrive, CompleteRead, RevertRead, ReportRead, WithdrawRead, RescheduleRead,
           SlaRead, TriggerStart, RecalculateAsset
  <1>3. /\ pc'[r] \notin {"mark", "write"}
        /\ \A s \in Requests \ {r} :
              pc'[s] = pc[s] /\ req'[s] = req[s] /\ snap'[s] = snap[s]
    BY <1>1 DEF TypeOK, Start
  <1>4. QED
    BY <1>2, <1>3, QuietDiscipline

LEMMA DisciplineProgress ==
  ASSUME TypeOK, LogDiscipline, NEW r \in Requests, Progress(r)
  PROVE  LogDiscipline'
  <1> USE DEF TypeOK
  <1>a. req[r] \in Request /\ req[r].task \in Tasks
    BY DEF Request
  <1>1. CASE InsertLog(r)
    <2>1. /\ req'[r].log = nextLog
          /\ req'[r].task = req[r].task
      BY <1>1, <1>a DEF InsertLog, Request
    <2>2. /\ logs'[nextLog].task = req[r].task
          /\ \A i \in LogIds : i < nextLog => logs'[i] = logs[i]
      BY <1>1 DEF InsertLog, LogIds
    <2>3. /\ rows' = rows /\ snap' = snap /\ nextLog' = nextLog + 1
          /\ nextLog \in LogIds
          /\ pc'[r] = "mark"
          /\ \A q \in Requests \ {r} : pc'[q] = pc[q] /\ req'[q] = req[q]
      BY <1>1 DEF InsertLog, Goto
    <2>4. ASSUME NEW t \in Tasks
          PROVE  /\ IsDone(rows'[t]) <=> rows'[t].log # NoLog
                 /\ rows'[t].log < nextLog'
                 /\ rows'[t].log # NoLog /\ logs'[rows'[t].log] # Absent
                      => logs'[rows'[t].log].task = t
      BY <2>2, <2>3 DEF LogDiscipline, StatusRow, LogIds, NoLog
    <2>5. ASSUME NEW q \in Requests
          PROVE  /\ pc'[q] = "mark" =>
                      /\ req'[q].log # NoLog
                      /\ req'[q].log < nextLog'
                      /\ logs'[req'[q].log] # Absent
                           => logs'[req'[q].log].task = req'[q].task
                 /\ pc'[q] = "write" => \A t \in req'[q].todo : snap'[q][t].log = NoLog
      <3>1. CASE q = r
        BY <2>1, <2>2, <2>3, <3>1 DEF LogIds, NoLog
      <3>2. CASE q # r
        BY <2>2, <2>3, <3>2 DEF LogDiscipline, Request, LogIds, NoLog
      <3>3. QED
        BY <3>1, <3>2
    <2>6. QED
      BY <2>4, <2>5 DEF LogDiscipline, IsDone
  <1>2. CASE MarkDone(r)
    <2>1. \A t \in Tasks : rows'[t] =
            IF t = req[r].task THEN CompletedRow(rows[t], req[r].log) ELSE rows[t]
      BY <1>2, <1>a DEF MarkDone, Write
    <2>2. /\ pc'[r] \notin {"mark", "write"}
          /\ \A q \in Requests \ {r} : pc'[q] = pc[q]
      BY <1>2 DEF MarkDone, Goto
    <2>3. /\ req[r].log # NoLog
          /\ req[r].log < nextLog
          /\ logs[req[r].log] # Absent => logs[req[r].log].task = req[r].task
      BY <1>2 DEF MarkDone, Goto, LogDiscipline
    <2>4. ASSUME NEW t \in Tasks
          PROVE  /\ IsDone(rows'[t]) <=> rows'[t].log # NoLog
                 /\ rows'[t].log < nextLog
                 /\ rows'[t].log # NoLog /\ logs[rows'[t].log] # Absent
                      => logs[rows'[t].log].task = t
      <3>1. CASE t = req[r].task
        <4>1. rows'[t].status = "Done" /\ rows'[t].log = req[r].log
          BY <2>1, <3>1, <1>a, CompletedFields DEF Request
        <4>2. QED
          BY <4>1, <2>3, <3>1 DEF IsDone
      <3>2. CASE t # req[r].task
        BY <2>1, <3>2 DEF LogDiscipline
      <3>3. QED
        BY <3>1, <3>2
    <2>5. UNCHANGED << logs, nextLog, req, snap >>
      BY <1>2 DEF MarkDone
    <2>6. QED
      BY <2>2, <2>4, <2>5 DEF LogDiscipline, IsDone
  <1>3. CASE RevertMark(r)
    <2>1. \A t \in Tasks : rows'[t] =
            IF t = req[r].task THEN ReopenedRow(rows[t]) ELSE rows[t]
      BY <1>3, <1>a DEF RevertMark, Write
    <2>2. /\ pc'[r] \notin {"mark", "write"}
          /\ \A q \in Requests \ {r} : pc'[q] = pc[q]
      BY <1>3 DEF RevertMark, Goto
    <2>3. \A t \in Tasks : \/ rows'[t] = rows[t]
                           \/ rows'[t].status = "Open" /\ rows'[t].log = NoLog
      BY <2>1, ReopenedFields
    <2>4. UNCHANGED << logs, nextLog, req, snap >> /\ NoLog < nextLog
      BY <1>3 DEF RevertMark, NoLog
    <2>5. QED
      BY <2>2, <2>3, <2>4 DEF LogDiscipline, IsDone
  <1>4. CASE RevertUnlog(r)
    <2>1. \A i \in LogIds : logs'[i] = Absent \/ logs'[i] = logs[i]
      BY <1>4 DEF RevertUnlog
    <2>2. /\ pc'[r] \notin {"mark", "write"}
          /\ \A q \in Requests \ {r} : pc'[q] = pc[q]
          /\ UNCHANGED << rows, nextLog, req, snap >>
      BY <1>4 DEF RevertUnlog, Goto
    <2>3. \A t \in Tasks : rows[t].log \in LogIds \cup {NoLog}
      BY DEF StatusRow
    <2>4. \A q \in Requests : req[q].log \in LogIds \cup {NoLog}
      BY DEF Request
    <2>5. QED
      BY <2>1, <2>2, <2>3, <2>4 DEF LogDiscipline, IsDone
  <1>5. CASE ReportWrite(r) \/ WithdrawWrite(r)
    <2>1. Rest(r, "idle") /\ UNCHANGED << logs, nextLog >>
      BY <1>5 DEF ReportWrite, WithdrawWrite
    <2>2. PICK u \in Users \cup {NoUser} :
            Write(req[r].task, ReportedRow(rows[req[r].task], u))
      BY <1>5, <1>a DEF ReportWrite, WithdrawWrite, Request
    <2>3. \A t \in Tasks : rows'[t].status = rows[t].status /\ rows'[t].log = rows[t].log
      BY <2>2, ReportedFields DEF Write
    <2>4. QED
      BY <2>1, <2>3, RestsQuietly, QuietDiscipline DEF Resting
  <1>6. CASE SlaWrite(r)
    <2>1. \A t \in Tasks : rows'[t].status = rows[t].status /\ rows'[t].log = rows[t].log
      BY <1>6, <1>a, OverriddenFields DEF SlaWrite, Write, Request
    <2>2. QED
      BY <1>6, <2>1, QuietDiscipline DEF SlaWrite, Goto
  <1>7. CASE (\E t \in EventTasks, failed \in BOOLEAN : TriggerNext(r, t, failed)) \/ TriggerEnd(r)
    BY <1>7, QuietDiscipline DEF TriggerNext, TriggerEnd, Goto
  <1>8. CASE RecalcSkipped(r)
    BY <1>8, RestsQuietly, QuietDiscipline DEF RecalcSkipped, Resting
  <1>9. ASSUME NEW failed \in BOOLEAN, RecalcRead(r, failed)
        PROVE  LogDiscipline'
    <2> DEFINE read == IF failed THEN BlankRows ELSE rows
    <2>1. CASE Outdated(read) = {}
      BY <1>9, <2>1, RestsQuietly, QuietDiscipline DEF RecalcRead, Resting
    <2>2. CASE Outdated(read) # {}
      <3>1. /\ pc'[r] = "write" /\ snap'[r] = read
            /\ req'[r] = [BlankRequest EXCEPT !.todo = Outdated(read)]
            /\ UNCHANGED << rows, logs, nextLog >>
            /\ \A q \in Requests \ {r} :
                  pc'[q] = pc[q] /\ req'[q] = req[q] /\ snap'[q] = snap[q]
        BY <1>9, <2>2 DEF RecalcRead
      <3>2. \A t \in Tasks : ~IsDone(read[t]) => read[t].log = NoLog
        BY DEF LogDiscipline, BlankRows, NoRow
      <3>3. req'[r].todo = Outdated(read)
        BY <3>1, BlankIsRequest DEF Request
      <3>4. \A t \in req'[r].todo : snap'[r][t].log = NoLog
        BY <3>1, <3>2, <3>3, WorkflowAssumption DEF Outdated
      <3>5. ASSUME NEW q \in Requests
            PROVE  /\ pc'[q] = "mark" => q # r
                   /\ pc'[q] = "write" =>
                        \A t \in req'[q].todo : snap'[q][t].log = NoLog
        <4>1. CASE q = r
          BY <3>1, <3>4, <4>1
        <4>2. CASE q # r
          BY <3>1, <4>2 DEF LogDiscipline
        <4>3. QED
          BY <4>1, <4>2
      <3>6. QED
        BY <3>1, <3>5 DEF LogDiscipline, IsDone
    <2>3. QED
      BY <2>1, <2>2
  <1>10. ASSUME NEW t \in Steps, RecalcWriteRow(r, t)
         PROVE  LogDiscipline'
    <2>1. /\ t \in Tasks /\ t \in req[r].todo
          /\ Derived(snap[r], t) \in Statuses
          /\ Derived(snap[r], t) # "Done"
          /\ snap[r][t].log = NoLog
      BY <1>10, DerivedIsStatus, WorkflowAssumption
         DEF RecalcWriteRow, IsFirstOf, LogDiscipline, Statuses
    <2>2. /\ rows'[t].log = NoLog /\ ~IsDone(rows'[t])
          /\ \A s \in Tasks \ {t} : rows'[s] = rows[s]
      <3>1. rows' = [rows EXCEPT ![t] =
                       RecalculatedRow(rows[t], snap[r][t], Derived(snap[r], t))]
        BY <1>10 DEF RecalcWriteRow, Write
      <3>2. rows[t] \in StatusRow /\ snap[r][t] \in StatusRow
        BY <2>1
      <3>3. /\ rows'[t] = RecalculatedRow(rows[t], snap[r][t], Derived(snap[r], t))
            /\ \A s \in Tasks \ {t} : rows'[s] = rows[s]
        BY <2>1, <3>1
      <3>4. LET new == RecalculatedRow(rows[t], snap[r][t], Derived(snap[r], t))
            IN  new.status = Derived(snap[r], t) /\ new.log = snap[r][t].log
        BY <2>1, <3>2, RecalculatedFields
      <3>5. QED
        BY <2>1, <3>3, <3>4 DEF IsDone
    <2>3. UNCHANGED << logs, nextLog >> /\ NoLog < nextLog
      BY <1>10 DEF RecalcWriteRow, NoLog
    <2>4. ASSUME NEW q \in Requests
          PROVE  \/ pc'[q] \in Resting
                 \/ /\ pc'[q] = pc[q] /\ snap'[q] = snap[q]
                    /\ req'[q] = req[q] \/ (pc[q] = "write" /\ req'[q].todo \subseteq req[q].todo)
      <3>1. CASE req[r].todo = {t}
        BY <1>10, <3>1 DEF RecalcWriteRow, Rest, Resting
      <3>2. CASE req[r].todo # {t}
        BY <1>10, <1>a, <2>1, <3>2, TakenFields DEF RecalcWriteRow
      <3>3. QED
        BY <3>1, <3>2
    <2>5. ASSUME NEW s \in Tasks
          PROVE  /\ IsDone(rows'[s]) <=> rows'[s].log # NoLog
                 /\ rows'[s].log < nextLog'
                 /\ rows'[s].log # NoLog /\ logs'[rows'[s].log] # Absent
                      => logs'[rows'[s].log].task = s
      BY <2>2, <2>3 DEF LogDiscipline
    <2>6. ASSUME NEW q \in Requests
          PROVE  /\ pc'[q] = "mark" =>
                      pc[q] = "mark" /\ req'[q] = req[q]
                 /\ pc'[q] = "write" =>
                      \A s \in req'[q].todo : snap'[q][s].log = NoLog
      BY <2>4 DEF LogDiscipline, Resting
    <2>7. QED
      BY <2>3, <2>5, <2>6 DEF LogDiscipline, IsDone
  <1>11. QED
    BY <1>1, <1>2, <1>3, <1>4, <1>5, <1>6, <1>7, <1>8, <1>9, <1>10
       DEF Progress, RecalcWrite

LEMMA DisciplineStep == TypeOK /\ LogDiscipline /\ [Next]_vars => LogDiscipline'
  <1> SUFFICES ASSUME TypeOK, LogDiscipline, [Next]_vars
               PROVE  LogDiscipline'
    OBVIOUS
  <1>1. ASSUME NEW r \in Requests, Abort(r)
        PROVE  LogDiscipline'
    BY <1>1, RestsQuietly, QuietDiscipline DEF Abort, Resting
  <1>2. CASE UNCHANGED vars
    BY <1>2 DEF vars, LogDiscipline, IsDone
  <1>3. QED
    BY <1>1, <1>2, DisciplineArrive, DisciplineProgress DEF Next

LEMMA DisciplineInit == Init => LogDiscipline
  BY DEF Init, LogDiscipline, BlankRows, NoRow, IsDone, NoLog

\* A row points at a log row exactly while it is Done, and at one of its own
\* task, under any interleaving of any number of requests, aborted requests
\* and unnoticed read errors included.
THEOREM RowsAreLogged == Spec => []LoggedRows
  <1>1. TypeOK /\ LogDiscipline => LoggedRows
    <2>1. \A i \in LogIds : i # NoLog
      BY DEF LogIds, NoLog
    <2>2. QED
      BY <2>1 DEF LogDiscipline, LoggedRows
  <1>2. QED
    BY <1>1, TypeCorrect, DisciplineInit, DisciplineStep, PTL DEF Spec

-------------------------------------------------------------------------------
LEMMA AuthorisedInit == Init => LogsAuthorised
  BY DEF Init, LogsAuthorised

LEMMA AuthorisedArrive ==
  ASSUME TypeOK, LogsAuthorised, NEW r \in Requests, Arrive(r)
  PROVE  LogsAuthorised'
  <1> USE DEF TypeOK
  <1>1. ASSUME NEW u \in Users, NEW t \in Tasks, CompleteRead(r, u, t)
        PROVE  LogsAuthorised'
    <2>1. MayComplete(u, t, FALSE)
      BY <1>1 DEF CompleteRead, MayComplete
    <2>2. /\ pc' = [pc EXCEPT ![r] = "log"]
          /\ req' = [req EXCEPT ![r] = NewRequest(t, u)]
          /\ logs' = logs
      BY <1>1 DEF CompleteRead, Start
    <2>3. /\ NewRequest(t, u).user = u
          /\ NewRequest(t, u).task = t
          /\ NewRequest(t, u).system = FALSE
      BY DEF NewRequest
    <2>4. QED
      BY <2>1, <2>2, <2>3 DEF LogsAuthorised
  <1>2. ASSUME NEW u \in Users, TriggerStart(r, u)
        PROVE  LogsAuthorised'
    <2>1. PICK t \in EventTasks :
            Start(r, "next", [NewRequest(t, u) EXCEPT !.system = TRUE, !.todo = EventTasks])
      BY <1>2 DEF TriggerStart
    <2>2. [NewRequest(t, u) EXCEPT !.system = TRUE, !.todo = EventTasks].system
      BY DEF NewRequest
    <2>3. QED
      BY <1>2, <2>1, <2>2 DEF TriggerStart, Start, LogsAuthorised
  <1>3. ASSUME NEW next \in {"unmark", "report", "withdraw", "sla", "snap"}, NEW q,
               Start(r, next, q), UNCHANGED logs
        PROVE  LogsAuthorised'
    BY <1>3 DEF Start, LogsAuthorised
  <1>4. QED
    BY <1>1, <1>2, <1>3
       DEF Arrive, RevertRead, ReportRead, WithdrawRead, RescheduleRead, SlaRead,
           RecalculateAsset

\* Steps that insert no log and take no request to an insert.
LEMMA QuietAuthorised ==
  ASSUME TypeOK, LogsAuthorised, NEW r \in Requests,
         \A i \in LogIds : logs'[i] = Absent \/ logs'[i] = logs[i],
         pc'[r] # "log",
         pc'[r] = "next" => req'[r].system,
         \A q \in Requests \ {r} : pc'[q] = pc[q] /\ req'[q] = req[q]
  PROVE  LogsAuthorised'
  BY DEF LogsAuthorised

LEMMA AuthorisedProgress ==
  ASSUME TypeOK, LogsAuthorised, NEW r \in Requests, Progress(r)
  PROVE  LogsAuthorised'
  <1> USE DEF TypeOK
  <1>a. req[r] \in Request
    OBVIOUS
  <1>1. CASE InsertLog(r)
    <2>1. MayComplete(req[r].user, req[r].task, req[r].system)
      BY <1>1 DEF InsertLog, Goto, LogsAuthorised
    <2>2. logs' = [logs EXCEPT ![nextLog] =
            [task |-> req[r].task, by |-> req[r].user, system |-> req[r].system]]
      BY <1>1 DEF InsertLog
    <2>3. /\ pc'[r] = "mark"
          /\ \A q \in Requests \ {r} : pc'[q] = pc[q] /\ req'[q] = req[q]
      BY <1>1 DEF InsertLog, Goto
    <2>4. ASSUME NEW i \in LogIds, logs'[i] # Absent
          PROVE  MayComplete(logs'[i].by, logs'[i].task, logs'[i].system)
      <3>1. CASE i = nextLog
        BY <2>1, <2>2, <3>1
      <3>2. CASE i # nextLog
        BY <2>2, <2>4, <3>2 DEF LogsAuthorised
      <3>3. QED
        BY <3>1, <3>2
    <2>5. QED
      BY <2>3, <2>4 DEF LogsAuthorised
  <1>2. ASSUME NEW t \in EventTasks, NEW failed \in BOOLEAN, TriggerNext(r, t, failed)
        PROVE  LogsAuthorised'
    <2>1. req[r].system /\ UNCHANGED logs
      BY <1>2 DEF TriggerNext, LogsAuthorised
    <2>2. req'[r] = Taken(req[r], t)
      BY <1>2 DEF TriggerNext
    <2>3. req'[r].task = t /\ req'[r].system = req[r].system
      BY <1>a, <2>2, TakenFields, WorkflowAssumption
    <2>4. \A q \in Requests \ {r} : pc'[q] = pc[q] /\ req'[q] = req[q]
      BY <1>2 DEF TriggerNext
    <2>5. MayComplete(req'[r].user, req'[r].task, req'[r].system)
      BY <2>1, <2>3 DEF MayComplete
    <2>6. QED
      BY <2>1, <2>3, <2>4, <2>5 DEF LogsAuthorised
  <1>3. CASE \/ MarkDone(r) \/ RevertMark(r) \/ RevertUnlog(r)
             \/ SlaWrite(r) \/ TriggerEnd(r)
    BY <1>3, QuietAuthorised
       DEF MarkDone, RevertMark, RevertUnlog, SlaWrite, TriggerEnd, Goto
  <1>4. CASE ReportWrite(r) \/ WithdrawWrite(r) \/ RecalcSkipped(r)
    BY <1>4, RestsQuietly, QuietAuthorised
       DEF ReportWrite, WithdrawWrite, RecalcSkipped, Rest, Resting
  <1>5. ASSUME NEW failed \in BOOLEAN, RecalcRead(r, failed)
        PROVE  LogsAuthorised'
    BY <1>5, QuietAuthorised DEF RecalcRead, Rest
  <1>6. ASSUME NEW t \in Steps, RecalcWriteRow(r, t)
        PROVE  LogsAuthorised'
    BY <1>6, QuietAuthorised DEF RecalcWriteRow, Rest
  <1>7. QED
    BY <1>1, <1>2, <1>3, <1>4, <1>5, <1>6 DEF Progress, RecalcWrite

LEMMA AuthorisedStep == TypeOK /\ LogsAuthorised /\ [Next]_vars => LogsAuthorised'
  <1> SUFFICES ASSUME TypeOK, LogsAuthorised, [Next]_vars
               PROVE  LogsAuthorised'
    OBVIOUS
  <1>1. ASSUME NEW r \in Requests, Abort(r)
        PROVE  LogsAuthorised'
    BY <1>1, QuietAuthorised DEF Abort, Rest, TypeOK
  <1>2. CASE UNCHANGED vars
    BY <1>2 DEF vars, LogsAuthorised
  <1>3. QED
    BY <1>1, <1>2, AuthorisedArrive, AuthorisedProgress DEF Next

\* Whoever the log of a Done row names was let through by the role checks, or
\* the row was completed by a system event that completes its task; again for
\* any number of concurrent requests.
THEOREM CompletionsAuthorised == Spec => []AuthorisedCompletion
  <1>1. TypeOK /\ LogDiscipline /\ LogsAuthorised => AuthorisedCompletion
    BY DEF TypeOK, LogDiscipline, LogsAuthorised, AuthorisedCompletion,
           StatusRow, NoLog, LogIds
  <1>2. QED
    BY <1>1, TypeCorrect, DisciplineInit, DisciplineStep, AuthorisedInit, AuthorisedStep,
       PTL DEF Spec
-------------------------------------------------------------------------------
(* What recalculations repair *)

\* What the loop of a recalculation has left are steps that were not Done when
\* it read them.
LoopsOpen ==
  \A r \in Requests :
    pc[r] = "write" => req[r].todo \subseteq Steps \ DoneTasks(snap[r])

\* No recalculation under way works on Done tasks that have changed since it read.
AllFresh == \A r \in Requests : pc[r] = "write" => DoneTasks(snap[r]) = DoneTasks(rows)

\* What the loop of r has left to write is all that there is to repair.
Covers(r) == pc[r] = "write" /\ Outdated(rows) \subseteq req[r].todo

\* The action of SelectsAnswered, and of a time when only recalculations run.
Answers == \A r \in Requests : Troubled(r) => RecalcRead(r, FALSE)
Repairing == OnlyRecalculations /\ OnlyRecalculations' /\ Answers

\* A request at rest, or about to read, has nothing in its loop.
LEMMA LoopsRest ==
  ASSUME TypeOK, LoopsOpen, NEW r \in Requests, pc'[r] # "write",
         \A q \in Requests \ {r} : pc'[q] = pc[q] /\ req'[q] = req[q] /\ snap'[q] = snap[q]
  PROVE  LoopsOpen'
  BY DEF LoopsOpen

LEMMA LoopsProgress ==
  ASSUME TypeOK, LoopsOpen, NEW r \in Requests, Progress(r)
  PROVE  LoopsOpen'
  <1> USE DEF TypeOK
  <1>1. ASSUME NEW failed \in BOOLEAN, RecalcRead(r, failed)
        PROVE  LoopsOpen'
    <2> DEFINE read == IF failed THEN BlankRows ELSE rows
    <2>1. CASE Outdated(read) = {}
      BY <1>1, <2>1, LoopsRest DEF RecalcRead, Rest
    <2>2. CASE Outdated(read) # {}
      <3>1. /\ snap' = [snap EXCEPT ![r] = read]
            /\ req' = [req EXCEPT ![r] = [BlankRequest EXCEPT !.todo = Outdated(read)]]
            /\ \A q \in Requests \ {r} : pc'[q] = pc[q]
        BY <1>1, <2>2 DEF RecalcRead
      <3>2. [BlankRequest EXCEPT !.todo = Outdated(read)].todo = Outdated(read)
        BY BlankIsRequest DEF Request
      <3>3. req'[r].todo = Outdated(read) /\ snap'[r] = read
        BY <3>1, <3>2
      <3>4. Outdated(read) \subseteq Steps \ DoneTasks(read)
        BY DEF Outdated, DoneTasks
      <3>5. ASSUME NEW q \in Requests, pc'[q] = "write"
            PROVE  req'[q].todo \subseteq Steps \ DoneTasks(snap'[q])
        <4>1. CASE q = r
          BY <3>3, <3>4, <4>1
        <4>2. CASE q # r
          BY <3>1, <3>5, <4>2 DEF LoopsOpen
        <4> QED  BY <4>1, <4>2
      <3> QED  BY <3>5 DEF LoopsOpen, DoneTasks
    <2> QED  BY <2>1, <2>2
  <1>2. ASSUME NEW t \in Steps, RecalcWriteRow(r, t)
        PROVE  LoopsOpen'
    <2>1. CASE req[r].todo = {t}
      BY <1>2, <2>1, LoopsRest DEF RecalcWriteRow, Rest
    <2>2. CASE req[r].todo # {t}
      <3>1. /\ req' = [req EXCEPT ![r] = Taken(req[r], t)]
            /\ UNCHANGED << pc, snap >>
        BY <1>2, <2>2 DEF RecalcWriteRow
      <3>2. req'[r].todo = req[r].todo \ {t}
        BY <3>1, TakenFields, WorkflowAssumption
      <3>3. \A q \in Requests : req'[q].todo \subseteq req[q].todo
        BY <3>1, <3>2
      <3> QED  BY <3>1, <3>3 DEF LoopsOpen, DoneTasks
    <2> QED  BY <2>1, <2>2
  <1>3. CASE RecalcSkipped(r)
    BY <1>3, LoopsRest DEF RecalcSkipped, Rest
  <1>4. CASE ReportWrite(r) \/ WithdrawWrite(r)
    BY <1>4, LoopsRest DEF ReportWrite, WithdrawWrite, Rest
  <1>5. CASE \/ InsertLog(r) \/ MarkDone(r) \/ RevertMark(r) \/ RevertUnlog(r)
             \/ SlaWrite(r) \/ TriggerEnd(r)
    BY <1>5, LoopsRest
       DEF InsertLog, MarkDone, RevertMark, RevertUnlog, SlaWrite, TriggerEnd, Goto
  <1>6. ASSUME NEW t \in EventTasks, NEW failed \in BOOLEAN, TriggerNext(r, t, failed)
        PROVE  LoopsOpen'
    BY <1>6, LoopsRest DEF TriggerNext
  <1> QED  BY <1>1, <1>2, <1>3, <1>4, <1>5, <1>6 DEF Progress, RecalcWrite

LEMMA LoopsStep == TypeOK /\ LoopsOpen /\ [Next]_vars => LoopsOpen'
  <1> SUFFICES ASSUME TypeOK, LoopsOpen, [Next]_vars
               PROVE  LoopsOpen'
    OBVIOUS
  <1>1. ASSUME NEW r \in Requests, Arrive(r)
        PROVE  LoopsOpen'
    <2>1. PICK next \in {"log", "unmark", "report", "withdraw", "sla", "next", "snap"} :
            \E q : Start(r, next, q)
      BY <1>1 DEF Arrive, CompleteRead, RevertRead, ReportRead, WithdrawRead,
                  RescheduleRead, SlaRead, TriggerStart, RecalculateAsset
    <2> QED  BY <2>1, LoopsRest DEF TypeOK, Start
  <1>2. ASSUME NEW r \in Requests, Abort(r)
        PROVE  LoopsOpen'
    BY <1>2, LoopsRest DEF TypeOK, Abort, Rest
  <1>3. CASE UNCHANGED vars
    BY <1>3 DEF vars, LoopsOpen, DoneTasks
  <1> QED  BY <1>1, <1>2, <1>3, LoopsProgress DEF Next

\* While only recalculations run and none is in trouble, a step is one of them
\* starting, reading or writing a row.
LEMMA RepairSteps ==
  ASSUME TypeOK, Repairing, [Next]_vars
  PROVE  \/ /\ UNCHANGED rows
            /\ \E r \in Requests :
                 /\ pc[r] \in Resting /\ pc'[r] = "snap"
                 /\ \A q \in Requests \ {r} :
                       pc'[q] = pc[q] /\ req'[q] = req[q] /\ snap'[q] = snap[q]
         \/ \E r \in Requests : RecalcRead(r, FALSE)
         \/ \E r \in Requests, t \in Steps : RecalcWriteRow(r, t)
         \/ UNCHANGED vars
  <1> DEFINE Goal == \/ /\ UNCHANGED rows
                        /\ \E r \in Requests :
                             /\ pc[r] \in Resting /\ pc'[r] = "snap"
                             /\ \A q \in Requests \ {r} :
                                   pc'[q] = pc[q] /\ req'[q] = req[q] /\ snap'[q] = snap[q]
                     \/ \E r \in Requests : RecalcRead(r, FALSE)
                     \/ \E r \in Requests, t \in Steps : RecalcWriteRow(r, t)
                     \/ UNCHANGED vars
  <1>1. ASSUME NEW r \in Requests, Arrive(r)
        PROVE  Goal
    <2>1. PICK next \in {"log", "unmark", "report", "withdraw", "sla", "next", "snap"} :
            \E q : Start(r, next, q)
      BY <1>1 DEF Arrive, CompleteRead, RevertRead, ReportRead, WithdrawRead,
                  RescheduleRead, SlaRead, TriggerStart, RecalculateAsset
    <2>2. /\ pc[r] \in Resting /\ pc'[r] = next
          /\ \A q \in Requests \ {r} :
                pc'[q] = pc[q] /\ req'[q] = req[q] /\ snap'[q] = snap[q]
      BY <2>1 DEF TypeOK, Start
    <2>3. next = "snap"
      BY <2>2 DEF Repairing, OnlyRecalculations, Resting
    <2>4. UNCHANGED rows
      BY <1>1 DEF Arrive, CompleteRead, RevertRead, ReportRead, WithdrawRead,
                  RescheduleRead, SlaRead, TriggerStart, RecalculateAsset
    <2> QED  BY <2>2, <2>3, <2>4
  <1>2. ASSUME NEW r \in Requests, Progress(r)
        PROVE  Goal
    <2>1. pc[r] \in Resting \cup {"snap", "write"}
      BY DEF Repairing, OnlyRecalculations
    <2>2. \/ \E failed \in BOOLEAN : RecalcRead(r, failed)
          \/ RecalcSkipped(r)
          \/ RecalcWrite(r)
      BY <1>2, <2>1
         DEF Progress, Resting, Goto, InsertLog, MarkDone, RevertMark, RevertUnlog,
             ReportWrite, WithdrawWrite, SlaWrite, TriggerNext, TriggerEnd
    <2>3. RecalcSkipped(r) \/ RecalcRead(r, TRUE) => RecalcRead(r, FALSE)
      BY DEF Repairing, Answers, Troubled
    <2> QED  BY <2>2, <2>3 DEF RecalcWrite
  <1>3. ASSUME NEW r \in Requests, Abort(r)
        PROVE  Goal
    BY <1>3 DEF Repairing, Answers, Troubled
  <1> QED  BY <1>1, <1>2, <1>3 DEF Next

\* What a row ought to be depends on the Done tasks alone.
LEMMA DerivedOfDone ==
  ASSUME NEW table, NEW read, NEW t, DoneTasks(table) = DoneTasks(read)
  PROVE  Derived(table, t) = Derived(read, t)
  BY DEF Derived

\* A recalculation's write, on whatever it read, completes no task.
LEMMA RepairWrites ==
  ASSUME TypeOK, NEW r \in Requests, NEW t \in Steps, RecalcWriteRow(r, t)
  PROVE  /\ t \in Tasks /\ pc[r] = "write" /\ t \in req[r].todo
         /\ rows'[t].status = Derived(snap[r], t) /\ ~IsDone(rows'[t])
         /\ \A s \in Tasks \ {t} : rows'[s] = rows[s]
         /\ DoneTasks(rows') = DoneTasks(rows) \ {t}
         /\ \A q \in Requests \ {r} : pc'[q] = pc[q] /\ req'[q] = req[q] /\ snap'[q] = snap[q]
         /\ \/ req[r].todo = {t} /\ pc'[r] = "idle"
            \/ /\ pc'[r] = "write" /\ snap'[r] = snap[r]
               /\ req'[r].todo = req[r].todo \ {t}
  <1>1. t \in Tasks /\ Derived(snap[r], t) \in Statuses \ {"Done"}
    BY DerivedIsStatus, WorkflowAssumption DEF Statuses
  <1>2. /\ pc[r] = "write" /\ t \in req[r].todo
        /\ rows' = [rows EXCEPT ![t] = RecalculatedRow(rows[t], snap[r][t], Derived(snap[r], t))]
    BY DEF RecalcWriteRow, IsFirstOf, Write
  <1>3. rows'[t].status = Derived(snap[r], t)
    <2>1. rows[t] \in StatusRow /\ snap[r][t] \in StatusRow
      BY <1>1 DEF TypeOK
    <2>2. rows'[t] = RecalculatedRow(rows[t], snap[r][t], Derived(snap[r], t))
      BY <1>1, <1>2 DEF TypeOK
    <2>3. Derived(snap[r], t) \in Statuses
      BY <1>1
    <2>4. RecalculatedRow(rows[t], snap[r][t], Derived(snap[r], t)).status = Derived(snap[r], t)
      BY <2>1, <2>3, RecalculatedFields
    <2> QED  BY <2>2, <2>4
  <1>4. ~IsDone(rows'[t]) /\ \A s \in Tasks \ {t} : rows'[s] = rows[s]
    BY <1>1, <1>2, <1>3 DEF IsDone, TypeOK
  <1>5. DoneTasks(rows') = DoneTasks(rows) \ {t}
    BY <1>1, <1>4 DEF DoneTasks
  <1>6. /\ \A q \in Requests \ {r} : pc'[q] = pc[q] /\ req'[q] = req[q] /\ snap'[q] = snap[q]
        /\ \/ req[r].todo = {t} /\ pc'[r] = "idle"
           \/ /\ pc'[r] = "write" /\ snap'[r] = snap[r]
              /\ req'[r].todo = req[r].todo \ {t}
    <2>1. CASE req[r].todo = {t}
      BY <2>1 DEF RecalcWriteRow, Rest, TypeOK
    <2>2. CASE req[r].todo # {t}
      BY <1>1, <2>2, TakenFields DEF RecalcWriteRow, TypeOK
    <2> QED  BY <2>1, <2>2
  <1> QED  BY <1>1, <1>2, <1>3, <1>4, <1>5, <1>6

\* The step of a recalculation, however stale what it read, completes no task; and
\* as soon as no stale one is under way, nothing that was right gets wrong, and who
\* has read then leaves nothing to repair behind.
Repaired ==
  /\ DoneTasks(rows') \subseteq DoneTasks(rows)
  /\ AllFresh =>
       /\ AllFresh'
       /\ DoneTasks(rows') = DoneTasks(rows)
       /\ Outdated(rows') \subseteq Outdated(rows)
       /\ \A r \in Requests :
            /\ pc[r] = "snap" => pc'[r] = "snap" \/ Covers(r)' \/ Settled'
            /\ Covers(r) => Covers(r)' \/ Settled'

\* As long as the rows stay, what follows from them does.
LEMMA RowsStay ==
  ASSUME UNCHANGED rows
  PROVE  DoneTasks(rows') = DoneTasks(rows) /\ Outdated(rows') = Outdated(rows)
  BY DEF DoneTasks, Outdated

LEMMA RepairedByRead ==
  ASSUME TypeOK, NEW r \in Requests, RecalcRead(r, FALSE)
  PROVE  Repaired
  <1>1. UNCHANGED rows /\ pc[r] = "snap"
    BY DEF RecalcRead
  <1>2. DoneTasks(rows') = DoneTasks(rows) /\ Outdated(rows') = Outdated(rows)
    BY <1>1, RowsStay
  <1>3. \A q \in Requests \ {r} : pc'[q] = pc[q] /\ req'[q] = req[q] /\ snap'[q] = snap[q]
    BY DEF RecalcRead, Rest, TypeOK
  <1>4. CASE Outdated(rows) = {}
    <2>1. pc'[r] = "idle" /\ Settled'
      BY <1>2, <1>4 DEF RecalcRead, Rest, TypeOK, Settled
    <2> QED  BY <1>1, <1>2, <1>3, <2>1 DEF Repaired, AllFresh
  <1>5. CASE Outdated(rows) # {}
    <2>1. /\ pc' = [pc EXCEPT ![r] = "write"]
          /\ snap' = [snap EXCEPT ![r] = rows]
          /\ req' = [req EXCEPT ![r] = [BlankRequest EXCEPT !.todo = Outdated(rows)]]
      BY <1>5 DEF RecalcRead
    <2>2. [BlankRequest EXCEPT !.todo = Outdated(rows)].todo = Outdated(rows)
      BY BlankIsRequest DEF Request
    <2>3. pc'[r] = "write" /\ snap'[r] = rows /\ req'[r].todo = Outdated(rows)
      BY <2>1, <2>2 DEF TypeOK
    <2>4. Covers(r)'
      BY <1>2, <2>3 DEF Covers
    <2>5. AllFresh => AllFresh'
      BY <1>2, <1>3, <2>3 DEF AllFresh
    <2>6. ASSUME NEW q \in Requests, Covers(q)
          PROVE  Covers(q)'
      BY <1>1, <1>2, <1>3, <2>6 DEF Covers
    <2> QED  BY <1>1, <1>2, <1>3, <2>4, <2>5, <2>6 DEF Repaired
  <1> QED  BY <1>4, <1>5

LEMMA RepairedByWrite ==
  ASSUME TypeOK, LoopsOpen, NEW r \in Requests, NEW t \in Steps, RecalcWriteRow(r, t)
  PROVE  Repaired
  <1>1. /\ t \in Tasks /\ pc[r] = "write" /\ t \in req[r].todo
        /\ rows'[t].status = Derived(snap[r], t) /\ ~IsDone(rows'[t])
        /\ \A s \in Tasks \ {t} : rows'[s] = rows[s]
        /\ DoneTasks(rows') = DoneTasks(rows) \ {t}
        /\ \A q \in Requests \ {r} : pc'[q] = pc[q] /\ req'[q] = req[q] /\ snap'[q] = snap[q]
        /\ \/ req[r].todo = {t} /\ pc'[r] = "idle"
           \/ /\ pc'[r] = "write" /\ snap'[r] = snap[r]
              /\ req'[r].todo = req[r].todo \ {t}
    BY RepairWrites
  <1>2. SUFFICES ASSUME AllFresh
                 PROVE  /\ AllFresh'
                        /\ DoneTasks(rows') = DoneTasks(rows)
                        /\ Outdated(rows') \subseteq Outdated(rows)
                        /\ \A q \in Requests :
                             /\ pc[q] = "snap" => pc'[q] = "snap" \/ Covers(q)' \/ Settled'
                             /\ Covers(q) => Covers(q)' \/ Settled'
    BY <1>1 DEF Repaired
  <1>3. DoneTasks(snap[r]) = DoneTasks(rows) /\ t \notin DoneTasks(rows)
    BY <1>1, <1>2 DEF AllFresh, LoopsOpen
  <1>4. DoneTasks(rows') = DoneTasks(rows)
    BY <1>1, <1>3
  <1>5. \A s \in Steps : Derived(rows', s) = Derived(rows, s)
    BY <1>4, DerivedOfDone
  <1>6. Derived(snap[r], t) = Derived(rows', t)
    BY <1>3, <1>4, DerivedOfDone
  <1>7. Outdated(rows') \subseteq Outdated(rows) \ {t}
    BY <1>1, <1>5, <1>6, WorkflowAssumption DEF Outdated
  <1>8. AllFresh'
    BY <1>1, <1>2, <1>4 DEF AllFresh
  <1>9. ASSUME NEW q \in Requests, Covers(q)
        PROVE  Covers(q)' \/ Settled'
    <2>1. CASE q # r
      BY <1>1, <1>7, <1>9, <2>1 DEF Covers
    <2>2. CASE q = r /\ req[r].todo = {t}
      BY <1>7, <1>9, <2>2 DEF Covers, Settled
    <2>3. CASE q = r /\ pc'[r] = "write" /\ req'[r].todo = req[r].todo \ {t}
      BY <1>7, <1>9, <2>3 DEF Covers
    <2> QED  BY <1>1, <2>1, <2>2, <2>3
  <1>10. \A q \in Requests : pc[q] = "snap" => pc'[q] = "snap"
    BY <1>1
  <1> QED  BY <1>4, <1>7, <1>8, <1>9, <1>10

LEMMA RepairStep ==
  ASSUME TypeOK, LoopsOpen, Repairing, [Next]_vars
  PROVE  Repaired
  <1>1. CASE /\ UNCHANGED rows
             /\ \E r \in Requests :
                  /\ pc[r] \in Resting /\ pc'[r] = "snap"
                  /\ \A q \in Requests \ {r} :
                        pc'[q] = pc[q] /\ req'[q] = req[q] /\ snap'[q] = snap[q]
    <2>1. DoneTasks(rows') = DoneTasks(rows) /\ Outdated(rows') = Outdated(rows)
      BY <1>1, RowsStay
    <2>2. PICK r \in Requests :
                  /\ pc[r] \in Resting /\ pc'[r] = "snap"
                  /\ \A q \in Requests \ {r} :
                        pc'[q] = pc[q] /\ req'[q] = req[q] /\ snap'[q] = snap[q]
      BY <1>1
    <2>3. AllFresh => AllFresh'
      BY <2>1, <2>2 DEF AllFresh
    <2>4. \A q \in Requests : Covers(q) => Covers(q)'
      BY <2>1, <2>2 DEF Covers, Resting
    <2>5. \A q \in Requests : pc[q] = "snap" => pc'[q] = "snap"
      BY <2>2
    <2> QED  BY <2>1, <2>3, <2>4, <2>5 DEF Repaired
  <1>2. CASE UNCHANGED vars
    <2>1. DoneTasks(rows') = DoneTasks(rows) /\ Outdated(rows') = Outdated(rows)
      BY <1>2, RowsStay DEF vars
    <2> QED  BY <1>2, <2>1 DEF vars, Repaired, AllFresh, Covers
  <1> QED  BY <1>1, <1>2, RepairSteps, RepairedByRead, RepairedByWrite

\* While only recalculations run and their selects are answered, none completes a
\* task, and once none is under way that read other Done tasks, every step leaves
\* right what was right, and each request that then reads and ends has repaired all.
\* (recalculateAssetTaskStatuses)
THEOREM RecalculationsRepair == Spec => [][Repairing => Repaired]_vars
  <1>1. Init => LoopsOpen
    BY DEF Init, LoopsOpen
  <1>2. TypeOK /\ LoopsOpen /\ [Next]_vars => [Repairing => Repaired]_vars
    BY RepairStep
  <1> QED  BY <1>1, <1>2, TypeInit, TypeStep, LoopsStep, PTL DEF Spec

\* RecalculationConverges but for the fairness: if from some time on only
\* recalculations run, with their selects answered, and at some time none works on
\* Done tasks that have changed since, then any one request that keeps recalculating
\* and being answered settles all statuses for good.
THEOREM RecalculationsSettle ==
  ASSUME NEW r \in Requests
  PROVE  Spec /\ <>[]OnlyRecalculations /\ <>SelectsAnswered /\ []<>AllFresh
         /\ []<>(pc[r] = "snap") /\ []<>(pc[r] \in Resting) => <>[]Settled
  <1> DEFINE Snaps == pc[r] = "snap"
             Rests == pc[r] \in Resting
             Cover == Covers(r)
  <1>1. Init => LoopsOpen
    BY DEF Init, LoopsOpen
  <1>2. TypeOK /\ LoopsOpen /\ OnlyRecalculations /\ OnlyRecalculations' /\ [Next]_vars /\ [Answers]_vars
        => [Repaired]_vars
    BY RepairStep DEF Repairing
  <1>3. AllFresh /\ [Repaired]_vars => AllFresh'
    BY DEF Repaired, AllFresh, vars, DoneTasks
  <1>4. AllFresh /\ Settled /\ [Repaired]_vars => Settled'
    BY DEF Repaired, vars, Settled, Outdated, DoneTasks, Derived
  <1>5. AllFresh /\ Snaps /\ [Repaired]_vars => Snaps' \/ Cover' \/ Settled'
    BY DEF Repaired, vars
  <1>6. AllFresh /\ Cover /\ [Repaired]_vars => Cover' \/ Settled'
    BY DEF Repaired, vars, Covers, Outdated, DoneTasks, Derived
  <1>7. ~(Snaps /\ Rests) /\ ~(Cover /\ Rests)
    BY DEF Resting, Covers
  <1>8. SelectsAnswered <=> [][Answers]_vars
    BY DEF SelectsAnswered, Answers
  <1> HIDE DEF Snaps, Rests, Cover
  <1>9. Spec /\ <>[]OnlyRecalculations /\ <>[][Answers]_vars /\ []<>AllFresh
        /\ []<>Snaps /\ []<>Rests => <>[]Settled
    BY <1>1, <1>2, <1>3, <1>4, <1>5, <1>6, <1>7, TypeInit, TypeStep, LoopsStep, PTL DEF Spec
  <1> QED  BY <1>8, <1>9, PTL DEF Snaps, Rests

-------------------------------------------------------------------------------
(* One request at a time *)

\* One slot: the client waits for each answer before it sends the next request.
Serial ==
    /\ \A r, s \in Requests : r = s
    /\ "read" \notin Faults

SerialInv ==
    /\ TypeOK
    /\ LogDiscipline
    /\ DoneHasItsLog
    /\ ReportsStandOnDone
    /\ RequestAlone

LEMMA SerialInit == Init => SerialInv
  <1>1. Init => DoneHasItsLog /\ ReportsStandOnDone /\ RequestAlone
    BY DEF Init, DoneHasItsLog, ReportsStandOnDone, RequestAlone, BlankRows, NoRow, IsDone
  <1>2. QED
    BY <1>1, TypeInit, DisciplineInit DEF SerialInv

\* A Done row's log in full, as every step below needs it.
LEMMA DoneRowLog ==
  ASSUME SerialInv, NEW t \in Tasks, IsDone(rows[t])
  PROVE  /\ rows[t].log \in LogIds
         /\ logs[rows[t].log] \in LogRow
         /\ logs[rows[t].log].task = t
  <1>1. rows[t].log \in LogIds
    BY DEF SerialInv, TypeOK, LogDiscipline, StatusRow
  <1>2. logs[rows[t].log] # Absent /\ rows[t].log # NoLog
    BY DEF SerialInv, DoneHasItsLog, LogDiscipline
  <1>3. logs[rows[t].log].task = t
    BY <1>2 DEF SerialInv, LogDiscipline
  <1>4. QED
    BY <1>1, <1>2, <1>3 DEF SerialInv, TypeOK

\* The part of SerialInv that is not about requests in flight.
Standing == DoneHasItsLog /\ ReportsStandOnDone

LEMMA StandingUnchanged ==
  ASSUME SerialInv, UNCHANGED << rows, logs >>
  PROVE  Standing'
  BY DEF SerialInv, Standing, DoneHasItsLog, ReportsStandOnDone, CompletedBySelf, IsDone

LEMMA AloneAtRest ==
  ASSUME Serial, TypeOK, NEW r \in Requests, NEW outcome \in Resting, Rest(r, outcome)
  PROVE  RequestAlone'
  <1>1. \A q \in Requests : pc'[q] \in Resting
    BY DEF Serial, Rest, TypeOK
  <1>2. QED
    BY <1>1 DEF RequestAlone, Resting

LEMMA AloneArrive ==
  ASSUME Serial, SerialInv, NEW r \in Requests, Arrive(r)
  PROVE  RequestAlone'
  <1> USE DEF SerialInv, TypeOK
  <1>a. ASSUME NEW q \in Requests
        PROVE  q = r
    BY DEF Serial
  <1>1. ASSUME NEW u \in Users, NEW t \in Tasks,
               \/ CompleteRead(r, u, t) \/ RevertRead(r, u, t)
               \/ ReportRead(r, u, t) \/ WithdrawRead(r, u, t)
        PROVE  RequestAlone'
    <2>1. NewRequest(t, u).task = t /\ NewRequest(t, u).user = u
      BY DEF NewRequest
    <2>2. req'[r] = NewRequest(t, u) /\ UNCHANGED << rows, logs >>
      BY <1>1 DEF CompleteRead, RevertRead, ReportRead, WithdrawRead, Start
    <2>3. CASE CompleteRead(r, u, t)
      BY <1>a, <2>1, <2>2, <2>3 DEF CompleteRead, Start, RequestAlone
    <2>4. CASE RevertRead(r, u, t)
      BY <1>a, <2>1, <2>2, <2>4 DEF RevertRead, Start, RequestAlone
    <2>5. CASE ReportRead(r, u, t)
      <3>1. logs[rows[t].log].by # u
        BY <2>5, DoneRowLog, AbsentAssumption DEF ReportRead, CompletedBySelf
      <3>2. QED
        BY <1>a, <2>1, <2>2, <2>5, <3>1 DEF ReportRead, Start, RequestAlone
    <2>6. CASE WithdrawRead(r, u, t)
      BY <1>a, <2>1, <2>2, <2>6 DEF WithdrawRead, Start, RequestAlone
    <2>7. QED
      BY <1>1, <2>3, <2>4, <2>5, <2>6
  <1>2. ASSUME NEW next \in {"sla", "next", "snap"}, NEW q, Start(r, next, q)
        PROVE  RequestAlone'
    BY <1>2, <1>a DEF Start, RequestAlone
  <1>3. QED
    BY <1>1, <1>2
       DEF Arrive, RescheduleRead, SlaRead, TriggerStart, RecalculateAsset

LEMMA ArriveKeeps ==
  ASSUME NEW r \in Requests, Arrive(r)
  PROVE  UNCHANGED << rows, logs, nextLog >>
  BY DEF Arrive, CompleteRead, RevertRead, ReportRead, WithdrawRead, RescheduleRead,
         SlaRead, TriggerStart, RecalculateAsset

\* A recalculation that reads no failed select writes back what its snapshot
\* says of a step that is still not Done, and leaves the Done ones alone.
LEMMA RecalcWriteFacts ==
  ASSUME SerialInv, NEW r \in Requests, NEW t \in Steps, RecalcWriteRow(r, t)
  PROVE  /\ t \in Tasks /\ t \in req[r].todo
         /\ ~IsDone(rows[t])
         /\ rows'[t].status = Derived(rows, t)
         /\ rows'[t].log = NoLog
         /\ rows'[t].reporter = rows[t].reporter
         /\ rows'[t].sla = rows[t].sla
         /\ \A s \in Tasks \ {t} : rows'[s] = rows[s]
         /\ DoneTasks(rows') = DoneTasks(rows)
         /\ req[r].todo = Outdated(rows)
         /\ DoneTasks(snap[r]) = DoneTasks(rows)
  <1> USE DEF SerialInv, TypeOK
  <1>1. /\ t \in Tasks /\ t \in req[r].todo
        /\ pc[r] = "write"
        /\ rows' = [rows EXCEPT ![t] =
                      RecalculatedRow(rows[t], snap[r][t], Derived(snap[r], t))]
    BY WorkflowAssumption DEF RecalcWriteRow, IsFirstOf, Write
  <1>2. /\ DoneTasks(snap[r]) = DoneTasks(rows)
        /\ req[r].todo = Outdated(rows)
        /\ snap[r][t].sla = rows[t].sla
    BY <1>1 DEF RequestAlone
  <1>3. snap[r][t].log = NoLog
    BY <1>1 DEF LogDiscipline
  <1>4. Derived(snap[r], t) = Derived(rows, t) /\ Derived(rows, t) \in {"Open", "Locked"}
    BY <1>2 DEF Derived
  <1>5. rows[t] \in StatusRow /\ snap[r][t] \in StatusRow /\ Derived(snap[r], t) \in Statuses
    BY <1>1, <1>4 DEF Statuses
  <1>6. LET new == RecalculatedRow(rows[t], snap[r][t], Derived(snap[r], t)) IN
        /\ new.status = Derived(snap[r], t) /\ new.log = snap[r][t].log
        /\ new.reporter = rows[t].reporter /\ new.sla = snap[r][t].sla
    BY <1>5, RecalculatedFields
  <1>7. /\ rows'[t] = RecalculatedRow(rows[t], snap[r][t], Derived(snap[r], t))
        /\ \A s \in Tasks \ {t} : rows'[s] = rows[s]
    BY <1>1
  <1>8. ~IsDone(rows[t])
    BY <1>1, <1>2 DEF Outdated
  <1>9. /\ rows'[t].status = Derived(rows, t) /\ rows'[t].log = NoLog
        /\ rows'[t].reporter = rows[t].reporter /\ rows'[t].sla = rows[t].sla
    BY <1>2, <1>3, <1>4, <1>6, <1>7
  <1>10. DoneTasks(rows') = DoneTasks(rows)
    BY <1>4, <1>7, <1>8, <1>9 DEF DoneTasks, IsDone
  <1>11. QED
    BY <1>1, <1>2, <1>7, <1>8, <1>9, <1>10

\* One row fewer is out of date after each write.
LEMMA RecalcWriteSettles ==
  ASSUME SerialInv, NEW r \in Requests, NEW t \in Steps, RecalcWriteRow(r, t)
  PROVE  Outdated(rows') = Outdated(rows) \ {t}
  <1>1. \A s \in Steps : Derived(rows', s) = Derived(rows, s)
    BY RecalcWriteFacts DEF Derived
  <1>2. t \in Tasks /\ rows'[t].status = Derived(rows, t)
        /\ \A s \in Tasks \ {t} : rows'[s] = rows[s]
    BY RecalcWriteFacts
  <1>3. QED
    BY <1>1, <1>2, WorkflowAssumption DEF Outdated, IsDone

LEMMA SerialProgress ==
  ASSUME Serial, SerialInv, NEW r \in Requests, Progress(r)
  PROVE  Standing' /\ RequestAlone'
  <1> USE DEF SerialInv, TypeOK
  <1>a. ASSUME NEW q \in Requests
        PROVE  q = r
    BY DEF Serial
  <1>b. req[r] \in Request /\ req[r].task \in Tasks /\ req[r].user \in Users
    BY DEF Request
  <1>1. CASE InsertLog(r)
    <2> DEFINE new == [task |-> req[r].task, by |-> req[r].user, system |-> req[r].system]
    <2>1. /\ req'[r].log = nextLog
          /\ req'[r].task = req[r].task
          /\ req'[r].user = req[r].user
          /\ req'[r].system = req[r].system
      BY <1>1, <1>b DEF InsertLog, Request
    <2>2. /\ rows' = rows /\ pc[r] = "log" /\ pc'[r] = "mark"
          /\ nextLog \in LogIds
          /\ logs'[nextLog] = new
          /\ \A i \in LogIds : i # nextLog => logs'[i] = logs[i]
      BY <1>1 DEF InsertLog, Goto
    <2>3. \A t \in Tasks : rows[t].log # nextLog
      BY <2>2 DEF LogDiscipline, StatusRow, LogIds, NoLog
    <2>4. \A t \in Tasks : IsDone(rows[t]) =>
            rows[t].log \in LogIds /\ logs'[rows[t].log] = logs[rows[t].log]
      BY <2>2, <2>3, DoneRowLog
    <2>5. Standing'
      BY <2>2, <2>4 DEF Standing, DoneHasItsLog, ReportsStandOnDone, CompletedBySelf, IsDone
    <2>6. RequestAlone'
      BY <1>a, <1>b, <2>1, <2>2 DEF RequestAlone, IsDone
    <2>7. QED
      BY <2>5, <2>6
  <1>2. CASE MarkDone(r)
    <2> DEFINE k == req[r].task
    <2>1. /\ ~IsDone(rows[k])
          /\ logs[req[r].log] = [task |-> k, by |-> req[r].user, system |-> req[r].system]
          /\ req[r].log \in LogIds
      BY <1>2 DEF MarkDone, Goto, RequestAlone, LogDiscipline, Request
    <2>2. /\ rows'[k].status = "Done" /\ rows'[k].log = req[r].log
          /\ rows'[k].reporter = rows[k].reporter
          /\ \A t \in Tasks \ {k} : rows'[t] = rows[t]
          /\ UNCHANGED logs
      <3>1. rows' = [rows EXCEPT ![k] = CompletedRow(rows[k], req[r].log)]
        BY <1>2 DEF MarkDone, Write
      <3>2. rows[k] \in StatusRow /\ req[r].log \in LogIds \cup {NoLog}
        BY <1>b, <2>1
      <3>3. QED
        BY <1>2, <1>b, <3>1, <3>2, CompletedFields DEF MarkDone
    <2>3. rows[k].reporter = NoUser
      BY <1>b, <2>1 DEF ReportsStandOnDone
    <2>4. logs[req[r].log] # Absent
      BY <1>b, <2>1, AbsentAssumption DEF LogRow, Request
    <2>5. DoneHasItsLog'
      BY <2>2, <2>4 DEF DoneHasItsLog, IsDone
    <2>6. ReportsStandOnDone'
      BY <2>2, <2>3 DEF ReportsStandOnDone, IsDone, CompletedBySelf
    <2>7. pc'[r] \in {"next", "snap"}
      BY <1>2 DEF MarkDone, Goto
    <2>8. RequestAlone'
      BY <1>a, <2>7 DEF RequestAlone
    <2>9. QED
      BY <2>5, <2>6, <2>8 DEF Standing
  <1>3. CASE RevertMark(r)
    <2> DEFINE k == req[r].task
    <2>1. /\ rows'[k].status = "Open"
          /\ rows'[k].reporter = NoUser
          /\ \A t \in Tasks \ {k} : rows'[t] = rows[t]
          /\ UNCHANGED logs
      <3>1. rows' = [rows EXCEPT ![k] = ReopenedRow(rows[k])]
        BY <1>3 DEF RevertMark, Write
      <3>2. QED
        BY <1>3, <1>b, <3>1, ReopenedFields DEF RevertMark
    <2>2. Standing'
      BY <2>1 DEF Standing, DoneHasItsLog, ReportsStandOnDone, IsDone, CompletedBySelf
    <2>3. pc'[r] = "unlog" /\ req' = req
      BY <1>3 DEF RevertMark, Goto
    <2>4. RequestAlone'
      BY <1>a, <2>1, <2>3 DEF RequestAlone, IsDone
    <2>5. QED
      BY <2>2, <2>4
  <1>4. CASE RevertUnlog(r)
    <2>1. /\ UNCHANGED rows
          /\ \A i \in LogIds : logs[i] # Absent /\ logs[i].task # req[r].task
                                => logs'[i] = logs[i]
          /\ ~IsDone(rows[req[r].task])
      BY <1>4 DEF RevertUnlog, Goto, RequestAlone
    <2>2. \A t \in Tasks : IsDone(rows[t]) =>
            /\ rows[t].log \in LogIds
            /\ logs[rows[t].log] # Absent
            /\ logs'[rows[t].log] = logs[rows[t].log]
      BY <2>1, DoneRowLog DEF DoneHasItsLog
    <2>3. Standing'
      BY <2>1, <2>2 DEF Standing, DoneHasItsLog, ReportsStandOnDone, IsDone, CompletedBySelf
    <2>4. pc'[r] = "snap"
      BY <1>4 DEF RevertUnlog, Goto
    <2>5. QED
      BY <1>a, <2>3, <2>4 DEF RequestAlone
  <1>5. CASE ReportWrite(r)
    <2> DEFINE k == req[r].task
    <2>1. /\ rows'[k].status = rows[k].status /\ rows'[k].log = rows[k].log
          /\ rows'[k].reporter = req[r].user
          /\ \A t \in Tasks \ {k} : rows'[t] = rows[t]
          /\ UNCHANGED logs
      <3>1. rows' = [rows EXCEPT ![k] = ReportedRow(rows[k], req[r].user)]
        BY <1>5 DEF ReportWrite, Write
      <3>2. QED
        BY <1>5, <1>b, <3>1, ReportedFields DEF ReportWrite
    <2>2. IsDone(rows[k]) /\ logs[rows[k].log].by # req[r].user
      BY <1>5 DEF ReportWrite, RequestAlone
    <2>3. DoneHasItsLog'
      BY <2>1 DEF DoneHasItsLog, IsDone
    <2>4. ReportsStandOnDone'
      <3>1. ASSUME NEW t \in Tasks, rows'[t].reporter # NoUser
            PROVE  IsDone(rows'[t]) /\ ~(CompletedBySelf(rows[t].reporter, rows[t])')
        <4>1. CASE t = k
          BY <2>1, <2>2, <4>1 DEF IsDone, CompletedBySelf
        <4>2. CASE t # k
          BY <2>1, <3>1, <4>2 DEF ReportsStandOnDone, IsDone, CompletedBySelf
        <4>3. QED
          BY <4>1, <4>2
      <3>2. QED
        BY <3>1 DEF ReportsStandOnDone, IsDone, CompletedBySelf
    <2>5. QED
      BY <1>5, <2>3, <2>4, AloneAtRest DEF ReportWrite, Resting, Standing
  <1>6. CASE WithdrawWrite(r)
    <2> DEFINE k == req[r].task
    <2>1. /\ rows'[k].status = rows[k].status /\ rows'[k].log = rows[k].log
          /\ rows'[k].reporter = NoUser
          /\ \A t \in Tasks \ {k} : rows'[t] = rows[t]
          /\ UNCHANGED logs
      <3>1. rows' = [rows EXCEPT ![k] = ReportedRow(rows[k], NoUser)]
        BY <1>6 DEF WithdrawWrite, Write
      <3>2. QED
        BY <1>6, <1>b, <3>1, ReportedFields DEF WithdrawWrite
    <2>2. Standing'
      BY <2>1 DEF Standing, DoneHasItsLog, ReportsStandOnDone, IsDone, CompletedBySelf
    <2>3. QED
      BY <1>6, <2>2, AloneAtRest DEF WithdrawWrite, Resting
  <1>7. CASE SlaWrite(r)
    <2> DEFINE k == req[r].task
    <2>1. /\ rows'[k].status = rows[k].status /\ rows'[k].log = rows[k].log
          /\ rows'[k].reporter = rows[k].reporter
          /\ \A t \in Tasks \ {k} : rows'[t] = rows[t]
          /\ UNCHANGED logs
      <3>1. rows' = [rows EXCEPT ![k] = OverriddenRow(rows[k], req[r].sla)]
        BY <1>7 DEF SlaWrite, Write
      <3>2. QED
        BY <1>7, <1>b, <3>1, OverriddenFields DEF SlaWrite, Request
    <2>2. Standing'
      BY <2>1 DEF Standing, DoneHasItsLog, ReportsStandOnDone, IsDone, CompletedBySelf
    <2>3. pc'[r] = "snap"
      BY <1>7 DEF SlaWrite, Goto
    <2>4. QED
      BY <1>a, <2>2, <2>3 DEF RequestAlone
  <1>8. ASSUME NEW t \in EventTasks, NEW failed \in BOOLEAN, TriggerNext(r, t, failed)
        PROVE  Standing' /\ RequestAlone'
    <2>1. ~failed /\ UNCHANGED << rows, logs >>
      BY <1>8 DEF TriggerNext, Serial
    <2>2. req'[r].task = t
      BY <1>8, <1>b, TakenFields, WorkflowAssumption DEF TriggerNext
    <2>3. pc'[r] = "next" \/ (pc'[r] = "log" /\ ~IsDone(rows[t]))
      BY <1>8, <2>1 DEF TriggerNext
    <2>4. QED
      BY <1>a, <2>1, <2>2, <2>3, StandingUnchanged DEF RequestAlone, IsDone
  <1>9. CASE TriggerEnd(r)
    <2>1. pc'[r] = "snap" /\ UNCHANGED << rows, logs >>
      BY <1>9 DEF TriggerEnd, Goto
    <2>2. QED
      BY <1>a, <2>1, StandingUnchanged DEF RequestAlone
  <1>10. ASSUME NEW failed \in BOOLEAN, RecalcRead(r, failed)
         PROVE  Standing' /\ RequestAlone'
    <2>1. ~failed /\ UNCHANGED << rows, logs >>
      BY <1>10 DEF RecalcRead, Serial
    <2>2. CASE Outdated(rows) = {}
      BY <1>10, <2>1, <2>2, AloneAtRest, StandingUnchanged DEF RecalcRead, Resting
    <2>3. CASE Outdated(rows) # {}
      <3>1. /\ pc'[r] = "write" /\ snap'[r] = rows
            /\ req'[r] = [BlankRequest EXCEPT !.todo = Outdated(rows)]
        BY <1>10, <2>1, <2>3 DEF RecalcRead
      <3>2. req'[r].todo = Outdated(rows)
        BY <3>1, BlankIsRequest DEF Request
      <3>3. /\ Outdated(rows') = Outdated(rows)
            /\ DoneTasks(rows') = DoneTasks(rows)
        BY <2>1
      <3>4. RequestAlone'
        BY <1>a, <2>1, <3>1, <3>2, <3>3 DEF RequestAlone
      <3>5. QED
        BY <2>1, <3>4, StandingUnchanged
    <2>4. QED
      BY <2>2, <2>3
  <1>11. CASE RecalcSkipped(r)
    BY <1>11 DEF RecalcSkipped, Serial
  <1>12. ASSUME NEW t \in Steps, RecalcWriteRow(r, t)
         PROVE  Standing' /\ RequestAlone'
    <2>1. /\ UNCHANGED logs
          /\ ~IsDone(rows[t]) /\ ~IsDone(rows'[t])
          /\ rows'[t].reporter = rows[t].reporter
          /\ \A s \in Tasks \ {t} : rows'[s] = rows[s]
      <3>1. /\ ~IsDone(rows[t])
            /\ rows'[t].status = Derived(rows, t)
            /\ rows'[t].reporter = rows[t].reporter
            /\ \A s \in Tasks \ {t} : rows'[s] = rows[s]
        BY <1>12, RecalcWriteFacts
      <3>2. Derived(rows, t) # "Done"
        BY DerivedIsStatus
      <3>3. QED
        BY <1>12, <3>1, <3>2 DEF RecalcWriteRow, IsDone
    <2>2. Standing'
      BY <2>1 DEF Standing, DoneHasItsLog, ReportsStandOnDone, CompletedBySelf
    <2>3. CASE req[r].todo = {t}
      BY <1>12, <2>2, <2>3, AloneAtRest DEF RecalcWriteRow, Resting
    <2>4. CASE req[r].todo # {t}
      <3>1. /\ pc'[r] = "write" /\ snap' = snap
            /\ req'[r] = Taken(req[r], t)
        BY <1>12, <2>4 DEF RecalcWriteRow
      <3>2. req'[r].todo = req[r].todo \ {t}
        BY <1>12, <1>b, <3>1, TakenFields, WorkflowAssumption
      <3>3. /\ req'[r].todo = Outdated(rows')
            /\ DoneTasks(snap'[r]) = DoneTasks(rows')
        BY <1>12, <3>1, <3>2, RecalcWriteFacts, RecalcWriteSettles
      <3>4. \A s \in req'[r].todo : snap'[r][s].sla = rows'[s].sla
        <4>1. \A s \in req[r].todo : s \in Tasks /\ snap[r][s].sla = rows[s].sla
          BY <1>12, <1>b DEF RecalcWriteRow, RequestAlone, Request
        <4>2. QED
          BY <2>1, <3>1, <3>2, <4>1
      <3>5. RequestAlone'
        BY <1>a, <3>1, <3>3, <3>4 DEF RequestAlone
      <3>6. QED
        BY <2>2, <3>5
    <2>5. QED
      BY <2>3, <2>4
  <1>13. QED
    BY <1>1, <1>2, <1>3, <1>4, <1>5, <1>6, <1>7, <1>8, <1>9, <1>10, <1>11, <1>12
       DEF Progress, RecalcWrite

LEMMA SerialStep ==
  ASSUME Serial
  PROVE  SerialInv /\ [Next]_vars => SerialInv'
  <1> SUFFICES ASSUME SerialInv, [Next]_vars
               PROVE  Standing' /\ RequestAlone'
    BY TypeStep, DisciplineStep DEF SerialInv, Standing
  <1>1. ASSUME NEW r \in Requests, Arrive(r)
        PROVE  Standing' /\ RequestAlone'
    BY <1>1, AloneArrive, ArriveKeeps, StandingUnchanged
  <1>2. ASSUME NEW r \in Requests, Abort(r)
        PROVE  Standing' /\ RequestAlone'
    BY <1>2, AloneAtRest, StandingUnchanged DEF Abort, SerialInv, Resting
  <1>3. CASE UNCHANGED vars
    <2>1. RequestAlone'
      BY <1>3 DEF vars, SerialInv, RequestAlone, IsDone, DoneTasks, Outdated, Derived
    <2>2. QED
      BY <1>3, <2>1, StandingUnchanged DEF vars
  <1>4. QED
    BY <1>1, <1>2, <1>3, SerialProgress DEF Next

\* A Done row's log exists: however requests are aborted between their writes,
\* every completion can be attributed and reverted.
THEOREM CompletionsKeepTheirLog ==
  ASSUME Serial
  PROVE  Spec => []DoneHasItsLog
  BY SerialInit, SerialStep, PTL DEF Spec, SerialInv

\* A report stands only on a Done task, never against its reporter's completion.
THEOREM ReportsAreOnDone ==
  ASSUME Serial
  PROVE  Spec => []ReportsStandOnDone
  BY SerialInit, SerialStep, PTL DEF Spec, SerialInv

\* A request that recalculated is answered with success only when every status
\* is the one that the Done tasks call for.
THEOREM AnswersSettle ==
  ASSUME Serial
  PROVE  Spec => AnswerSettles
  <1>1. ASSUME SerialInv, [Next]_vars
        PROVE  [\A r \in Requests :
                  pc[r] \in {"snap", "write"} /\ pc'[r] = "idle" => Settled']_vars
    <2> USE DEF SerialInv, TypeOK
    <2>1. ASSUME NEW r \in Requests, NEW s \in Requests, Arrive(s),
                 pc[r] \in {"snap", "write"}
          PROVE  pc'[r] # "idle"
      <3>1. s = r
        BY Serial DEF Serial
      <3>2. pc[s] \in Resting
        BY <2>1 DEF Arrive, CompleteRead, RevertRead, ReportRead, WithdrawRead,
             RescheduleRead, SlaRead, TriggerStart, RecalculateAsset, Start
      <3>3. QED
        BY <2>1, <3>1, <3>2 DEF Resting
    <2>2. ASSUME NEW r \in Requests, NEW s \in Requests, Abort(s), pc'[r] = "idle"
          PROVE  FALSE
      <3>1. s = r
        BY Serial DEF Serial
      <3>2. QED
        BY <1>1, <2>2, <3>1 DEF Abort, Rest
    <2>3. ASSUME NEW r \in Requests, NEW s \in Requests, Progress(s),
                 pc[r] \in {"snap", "write"}, pc'[r] = "idle"
          PROVE  Settled'
      <3>1. s = r
        BY Serial DEF Serial
      <3>2. CASE \E failed \in BOOLEAN : RecalcRead(r, failed)
        <4>1. PICK failed \in BOOLEAN : RecalcRead(r, failed)
          BY <3>2
        <4>2. ~failed /\ rows' = rows
          BY <4>1 DEF RecalcRead, Serial
        <4>3. Outdated(rows) = {}
          BY <1>1, <2>3, <4>1, <4>2 DEF RecalcRead
        <4>4. QED
          BY <4>2, <4>3 DEF Settled
      <3>3. CASE RecalcWrite(r)
        <4>1. PICK t \in Steps : RecalcWriteRow(r, t)
          BY <3>3 DEF RecalcWrite
        <4>2. req[r].todo = {t}
          BY <1>1, <2>3, <4>1 DEF RecalcWriteRow
        <4>3. Outdated(rows') = {}
          BY <1>1, <4>1, <4>2, RecalcWriteFacts, RecalcWriteSettles
        <4>4. QED
          BY <4>3 DEF Settled
      <3>4. QED
        BY <2>3, <3>1, <3>2, <3>3
           DEF Progress, InsertLog, MarkDone, RevertMark, RevertUnlog, ReportWrite,
               WithdrawWrite, SlaWrite, TriggerNext, TriggerEnd, RecalcSkipped, Goto, Serial
    <2>4. QED
      BY <1>1, <2>1, <2>2, <2>3 DEF Next
  <1>2. QED
    BY <1>1, SerialInit, SerialStep, PTL DEF Spec, AnswerSettles

\* An SLA override changes only where a request was asked to change it: what a
\* recalculation read of one is what the row still says when it writes it back.
THEOREM OverridesStay ==
  ASSUME Serial
  PROVE  Spec => OverrideKept
  <1> DEFINE Asked == \A t \in Tasks : rows'[t].sla # rows[t].sla =>
                        \E r \in Requests : pc[r] = "sla" /\ req[r].task = t
  <1>1. ASSUME SerialInv, Next
        PROVE  Asked
    <2> SUFFICES ASSUME NEW r \in Requests, Progress(r),
                        NEW t \in Tasks, rows'[t].sla # rows[t].sla
                 PROVE  pc[r] = "sla" /\ req[r].task = t
      BY <1>1, ArriveKeeps DEF Next, Abort
    <2>1. /\ rows[t] \in StatusRow /\ req[r].task \in Tasks /\ req[r].user \in Users
          /\ req[r].log \in LogIds \cup {NoLog} /\ rows \in [Tasks -> StatusRow]
      BY <1>1 DEF SerialInv, TypeOK, Request
    <2>2. CASE MarkDone(r)
      BY <2>1, <2>2, CompletedFields DEF MarkDone, Write
    <2>3. CASE RevertMark(r)
      BY <2>1, <2>3, ReopenedFields DEF RevertMark, Write
    <2>4. CASE ReportWrite(r)
      BY <2>1, <2>4, ReportedFields DEF ReportWrite, Write
    <2>5. CASE WithdrawWrite(r)
      BY <2>1, <2>5, ReportedFields DEF WithdrawWrite, Write
    <2>6. CASE SlaWrite(r)
      BY <2>1, <2>6 DEF SlaWrite, Goto, Write
    <2>7. CASE RecalcWrite(r)
      BY <1>1, <2>7, RecalcWriteFacts DEF RecalcWrite
    <2>8. QED
      BY <2>2, <2>3, <2>4, <2>5, <2>6, <2>7
         DEF Progress, InsertLog, RevertUnlog, TriggerNext, TriggerEnd, RecalcRead, RecalcSkipped
  <1>2. SerialInv /\ [Next]_vars => [Asked]_vars
    BY <1>1
  <1>3. QED
    BY <1>2, SerialInit, SerialStep, PTL DEF Spec, OverrideKept

\* A task stays Done until a request reverts that very task: no other handler, and no
\* recalculation, takes a completion back.
THEOREM CompletionsStand ==
  ASSUME Serial
  PROVE  Spec => CompletionStands
  <1> DEFINE Reverted == \A t \in Tasks : IsDone(rows[t]) /\ ~IsDone(rows'[t]) =>
                           \E r \in Requests : pc[r] = "unmark" /\ req[r].task = t
  <1>1. ASSUME SerialInv, Next
        PROVE  Reverted
    <2> SUFFICES ASSUME NEW r \in Requests, Progress(r),
                        NEW t \in Tasks, IsDone(rows[t]), ~IsDone(rows'[t])
                 PROVE  pc[r] = "unmark" /\ req[r].task = t
      BY <1>1, ArriveKeeps DEF Next, Abort
    <2>1. /\ rows[t] \in StatusRow /\ req[r].task \in Tasks /\ req[r].user \in Users
          /\ req[r].log \in LogIds \cup {NoLog} /\ req[r].sla \in SlaOverrides \cup {NoSla}
          /\ rows \in [Tasks -> StatusRow]
      BY <1>1 DEF SerialInv, TypeOK, Request
    <2>2. CASE MarkDone(r)
      BY <2>1, <2>2, CompletedFields DEF MarkDone, Write, IsDone
    <2>3. CASE RevertMark(r)
      BY <2>1, <2>3 DEF RevertMark, Goto, Write
    <2>4. CASE ReportWrite(r) \/ WithdrawWrite(r)
      BY <2>1, <2>4, ReportedFields DEF ReportWrite, WithdrawWrite, Write, IsDone
    <2>5. CASE SlaWrite(r)
      BY <2>1, <2>5, OverriddenFields DEF SlaWrite, Write, IsDone
    <2>6. CASE RecalcWrite(r)
      BY <1>1, <2>6, RecalcWriteFacts DEF RecalcWrite
    <2>7. QED
      BY <2>2, <2>3, <2>4, <2>5, <2>6
         DEF Progress, InsertLog, RevertUnlog, TriggerNext, TriggerEnd, RecalcRead, RecalcSkipped
  <1>2. SerialInv /\ [Next]_vars => [Reverted]_vars
    BY <1>1
  <1>3. QED
    BY <1>2, SerialInit, SerialStep, PTL DEF Spec, CompletionStands

-------------------------------------------------------------------------------
(* The refinement of TaskLedger *)

\* A step that leaves the status and the log of every Done row, and every
\* report, as they were is a stutter of the ledger.
LEMMA LedgerStutter ==
  ASSUME \A t \in Tasks :
           /\ IsDone(rows'[t]) <=> IsDone(rows[t])
           /\ IsDone(rows[t]) => logs'[rows'[t].log] = logs[rows[t].log]
           /\ rows'[t].reporter = rows[t].reporter
  PROVE  UNCHANGED Ledger!ledger
  BY DEF Ledger!ledger, Completion, Reporter

LEMMA LedgerInit == Init => Ledger!Init
  BY DEF Init, Ledger!Init, Completion, Reporter, BlankRows, NoRow, IsDone

LEMMA MayCompleteOfLog ==
  ASSUME LogsAuthorised, NEW l \in LogIds, logs[l] # Absent,
         NEW t, NEW u, NEW bySystem,
         logs[l] = [task |-> t, by |-> u, system |-> bySystem]
  PROVE  MayComplete(u, t, bySystem)
  BY DEF LogsAuthorised, MayComplete

LEMMA LedgerProgress ==
  ASSUME Serial, SerialInv, LogsAuthorised, NEW r \in Requests, Progress(r)
  PROVE  [Ledger!Next]_(Ledger!ledger)
  <1> USE DEF SerialInv, TypeOK
  <1>a. req[r] \in Request
    OBVIOUS
  <1>b. PICK k \in Tasks, u \in Users, bySystem \in BOOLEAN :
           k = req[r].task /\ u = req[r].user /\ bySystem = req[r].system
    BY <1>a DEF Request
  <1> USE <1>b
  <1>1. CASE InsertLog(r)
    <2>1. /\ rows' = rows
          /\ \A i \in LogIds : i # nextLog => logs'[i] = logs[i]
          /\ \A t \in Tasks : rows[t].log # nextLog
      BY <1>1 DEF InsertLog, LogDiscipline, StatusRow, LogIds, NoLog
    <2>2. QED
      BY <2>1, DoneRowLog, LedgerStutter DEF IsDone
  <1>2. CASE MarkDone(r)
    <2>1. /\ pc[r] = "mark"
          /\ ~IsDone(rows[k])
          /\ logs[req[r].log] = [task |-> k, by |-> u, system |-> bySystem]
          /\ req[r].log \in LogIds
      BY <1>2 DEF MarkDone, Goto, RequestAlone, LogDiscipline, Request
    <2>2. MayComplete(u, k, bySystem)
      <3>1. logs[req[r].log] # Absent
        BY <1>a, <2>1, AbsentAssumption DEF LogRow
      <3>2. QED
        BY <2>1, <3>1, MayCompleteOfLog
    <2>3. /\ rows'[k].status = "Done" /\ rows'[k].log = req[r].log
          /\ rows'[k].reporter = rows[k].reporter
          /\ \A t \in Tasks \ {k} : rows'[t] = rows[t]
          /\ UNCHANGED logs
      <3>1. rows' = [rows EXCEPT ![k] = CompletedRow(rows[k], req[r].log)]
        BY <1>2 DEF MarkDone, Write
      <3>2. rows[k] \in StatusRow /\ req[r].log \in LogIds \cup {NoLog}
        BY <1>a, <2>1
      <3>3. QED
        BY <1>2, <1>a, <3>1, <3>2, CompletedFields DEF MarkDone
    <2>4. Completion' = [Completion EXCEPT ![k] = Ledger!Entry(k, u, bySystem)]
      <3>1. /\ IsDone(rows'[k])
            /\ logs'[rows'[k].log] = Ledger!Entry(k, u, bySystem)
        BY <2>1, <2>3 DEF IsDone, Ledger!Entry
      <3>2. \A t \in Tasks \ {k} : logs'[rows'[t].log] = logs[rows[t].log]
        BY <2>3
      <3>3. ASSUME NEW t \in Tasks
            PROVE  Completion'[t] = [Completion EXCEPT ![k] = Ledger!Entry(k, u, bySystem)][t]
        <4>1. CASE t = k
          BY <3>1, <4>1 DEF Completion
        <4>2. CASE t # k
          BY <2>3, <3>2, <4>2 DEF Completion
        <4>3. QED
          BY <4>1, <4>2
      <3>4. QED
        BY <3>3 DEF Completion
    <2>5. Reporter' = Reporter /\ Completion[k] = Absent
      BY <1>a, <2>1, <2>3 DEF Reporter, Completion
    <2>6. Ledger!Complete(k, u, bySystem)
      BY <2>2, <2>4, <2>5 DEF Ledger!Complete, MayComplete
    <2>7. QED
      BY <1>a, <2>6 DEF Ledger!Next
  <1>3. CASE RevertMark(r)
    <2>1. IsDone(rows[k]) /\ MayUndo(u, logs[rows[k].log]) /\ logs[rows[k].log] # Absent
      BY <1>3, <1>a DEF RevertMark, Goto, RequestAlone, DoneHasItsLog
    <2>2. /\ rows'[k].status = "Open" /\ rows'[k].reporter = NoUser
          /\ \A t \in Tasks \ {k} : rows'[t] = rows[t]
          /\ UNCHANGED logs
      <3>1. rows' = [rows EXCEPT ![k] = ReopenedRow(rows[k])]
        BY <1>3 DEF RevertMark, Write
      <3>2. QED
        BY <1>3, <1>a, <3>1, ReopenedFields DEF RevertMark
    <2>3. Completion' = [Completion EXCEPT ![k] = Absent]
      BY <1>a, <2>2 DEF Completion, IsDone
    <2>4. Reporter' = [Reporter EXCEPT ![k] = NoUser]
      BY <1>a, <2>2 DEF Reporter
    <2>5. Completion[k] = logs[rows[k].log]
      BY <1>a, <2>1 DEF Completion
    <2>6. Ledger!Revert(k, u)
      BY <2>1, <2>3, <2>4, <2>5 DEF Ledger!Revert, MayUndo
    <2>7. QED
      BY <1>a, <2>6 DEF Ledger!Next
  <1>4. CASE RevertUnlog(r)
    <2>1. /\ UNCHANGED rows
          /\ \A i \in LogIds : logs[i] # Absent /\ logs[i].task # k => logs'[i] = logs[i]
          /\ ~IsDone(rows[k])
      BY <1>4 DEF RevertUnlog, Goto, RequestAlone
    <2>2. \A t \in Tasks : IsDone(rows[t]) => logs'[rows[t].log] = logs[rows[t].log]
      BY <2>1, DoneRowLog DEF DoneHasItsLog
    <2>3. QED
      BY <2>1, <2>2, LedgerStutter DEF IsDone
  <1>5. CASE ReportWrite(r)
    <2>1. /\ IsDone(rows[k]) /\ logs[rows[k].log] # Absent
          /\ logs[rows[k].log].by # u /\ rows[k].reporter = NoUser
      BY <1>5, <1>a DEF ReportWrite, RequestAlone, DoneHasItsLog
    <2>2. /\ rows'[k].status = rows[k].status /\ rows'[k].log = rows[k].log
          /\ rows'[k].reporter = u
          /\ \A t \in Tasks \ {k} : rows'[t] = rows[t]
          /\ UNCHANGED logs
      <3>1. rows' = [rows EXCEPT ![k] = ReportedRow(rows[k], u)]
        BY <1>5 DEF ReportWrite, Write
      <3>2. QED
        BY <1>5, <1>a, <3>1, ReportedFields DEF ReportWrite
    <2>3. Completion' = Completion /\ Completion[k] = logs[rows[k].log]
      BY <1>a, <2>1, <2>2 DEF Completion, IsDone
    <2>4. Reporter' = [Reporter EXCEPT ![k] = u] /\ Reporter[k] = NoUser
      BY <1>a, <2>1, <2>2 DEF Reporter
    <2>5. Ledger!Report(k, u)
      BY <2>1, <2>3, <2>4 DEF Ledger!Report
    <2>6. QED
      BY <1>a, <2>5 DEF Ledger!Next
  <1>6. CASE WithdrawWrite(r)
    <2>1. rows[k].reporter # NoUser /\ (rows[k].reporter = u \/ u \in SuperAdmins)
      BY <1>6 DEF WithdrawWrite, RequestAlone
    <2>2. /\ rows'[k].status = rows[k].status /\ rows'[k].log = rows[k].log
          /\ rows'[k].reporter = NoUser
          /\ \A t \in Tasks \ {k} : rows'[t] = rows[t]
          /\ UNCHANGED logs
      <3>1. rows' = [rows EXCEPT ![k] = ReportedRow(rows[k], NoUser)]
        BY <1>6 DEF WithdrawWrite, Write
      <3>2. QED
        BY <1>6, <1>a, <3>1, ReportedFields DEF WithdrawWrite
    <2>3. Completion' = Completion
      BY <1>a, <2>2 DEF Completion, IsDone
    <2>4. Reporter' = [Reporter EXCEPT ![k] = NoUser] /\ Reporter[k] = rows[k].reporter
      BY <1>a, <2>2 DEF Reporter
    <2>5. Ledger!Withdraw(k, u)
      BY <2>1, <2>3, <2>4 DEF Ledger!Withdraw
    <2>6. QED
      BY <1>a, <2>5 DEF Ledger!Next
  <1>7. CASE SlaWrite(r)
    <2>1. /\ rows'[k].status = rows[k].status /\ rows'[k].log = rows[k].log
          /\ rows'[k].reporter = rows[k].reporter
          /\ \A t \in Tasks \ {k} : rows'[t] = rows[t]
          /\ UNCHANGED logs
      <3>1. rows' = [rows EXCEPT ![k] = OverriddenRow(rows[k], req[r].sla)]
        BY <1>7 DEF SlaWrite, Write
      <3>2. QED
        BY <1>7, <1>a, <3>1, OverriddenFields DEF SlaWrite, Request
    <2>2. QED
      BY <2>1, LedgerStutter DEF IsDone
  <1>8. ASSUME UNCHANGED << rows, logs >>
        PROVE  UNCHANGED Ledger!ledger
    BY <1>8, LedgerStutter
  <1>9. ASSUME NEW t \in Steps, RecalcWriteRow(r, t)
        PROVE  UNCHANGED Ledger!ledger
    <2>1. /\ t \in Tasks /\ ~IsDone(rows[t])
          /\ rows'[t].status = Derived(rows, t)
          /\ rows'[t].reporter = rows[t].reporter
          /\ \A s \in Tasks \ {t} : rows'[s] = rows[s]
      BY <1>9, RecalcWriteFacts
    <2>2. ~IsDone(rows'[t]) /\ UNCHANGED logs
      BY <1>9, <2>1, DerivedIsStatus DEF RecalcWriteRow, IsDone
    <2>3. QED
      BY <2>1, <2>2, LedgerStutter DEF IsDone
  <1>10. QED
    BY <1>1, <1>2, <1>3, <1>4, <1>5, <1>6, <1>7, <1>8, <1>9
       DEF Progress, TriggerNext, TriggerEnd, RecalcRead, RecalcSkipped, RecalcWrite

LEMMA LedgerStep ==
  ASSUME Serial, SerialInv, LogsAuthorised, [Next]_vars
  PROVE  [Ledger!Next]_(Ledger!ledger)
  <1>1. ASSUME UNCHANGED << rows, logs >>
        PROVE  UNCHANGED Ledger!ledger
    BY <1>1, LedgerStutter
  <1>2. CASE \E r \in Requests : Arrive(r)
    BY <1>1, <1>2, ArriveKeeps
  <1>3. CASE \E r \in Requests : Progress(r)
    BY <1>3, LedgerProgress
  <1>4. CASE \E r \in Requests : Abort(r)
    BY <1>1, <1>4 DEF Abort
  <1>5. CASE UNCHANGED vars
    BY <1>1, <1>5 DEF vars
  <1>6. QED
    BY <1>2, <1>3, <1>4, <1>5 DEF Next

\* The rows and logs implement the ledger: seen from outside, completing,
\* reverting, reporting and withdrawing happen at once, each under its handler's
\* rules, whatever aborts in between.
THEOREM ImplementsLedger ==
  ASSUME Serial
  PROVE  Spec => LedgerSpec
  <1>1. SerialInv /\ LogsAuthorised /\ [Next]_vars => [Ledger!Next]_(Ledger!ledger)
    BY LedgerStep
  <1>2. SerialInv => TypeOK
    BY DEF SerialInv
  <1>3. QED
    BY <1>1, <1>2, LedgerInit, SerialInit, SerialStep, AuthorisedInit, AuthorisedStep, PTL
       DEF Spec, LedgerSpec, Ledger!Spec
===============================================================================
