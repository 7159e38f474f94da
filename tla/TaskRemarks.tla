------------------------------ MODULE TaskRemarks ------------------------------
(***************************************************************************)
(* Edits of the remark of a completed task (updateRemark).  An edit reads  *)
(* the task's log, appends to the history it found there and writes remark *)
(* and history by the id of that log.  Meanwhile the task may be edited by *)
(* others, reverted, which deletes its log, and completed again, which     *)
(* makes a new one; TaskWorkflow has the steps of these.                   *)
(***************************************************************************)
EXTENDS Naturals, Sequences

CONSTANTS
    Editors,        \* slots for edits
    People,         \* users
    SuperAdmins,
    Remarks,
    MaxLogs,        \* bound on the completions
    MaxEdits,       \* bound on the edits
    System,         \* who completes a system task
    NoLog

ASSUME TaskRemarksAssumption ==
    /\ SuperAdmins \subseteq People
    /\ System \notin People
    /\ MaxLogs \in Nat /\ MaxEdits \in Nat
    /\ NoLog \notin Nat

VARIABLES
    taskLog,    \* the logs that were ever written, by number; NoLog when deleted
    linked,     \* log_id of the task's status: its log if it is Done, or NoLog
    editing,    \* the edits under way
    begun,      \* how many edits there were
    hasHistory  \* whether the column remark_edit_history exists

remarkVars == << taskLog, linked, editing, begun, hasHistory >>

LogIds == 1..MaxLogs
Change == [editedBy : People, previousRemark : Remarks, newRemark : Remarks]

\* original: the remark of the completion.
Log == [completedBy : People \cup {System}, original : Remarks, remark : Remarks,
        history : Seq(Change)]

Edit == [at : {"idle", "update", "updateRemarkOnly"}, by : People, log : LogIds,
         previous : Remarks, remark : Remarks, history : Seq(Change)]

IdleEdits == [at : {"idle"}]

ASSUME NoLogAssumption == NoLog \notin Log

RemarksTypeOK ==
    /\ taskLog \in [LogIds -> Log \cup {NoLog}]
    /\ linked \in LogIds \cup {NoLog}
    /\ editing \in [Editors -> Edit \cup IdleEdits]
    /\ begun \in 0..MaxEdits
    /\ hasHistory \in BOOLEAN

RemarksInit ==
    /\ taskLog = [n \in LogIds |-> NoLog]
    /\ linked = NoLog
    /\ editing = [e \in Editors |-> [at |-> "idle"]]
    /\ begun = 0
    /\ hasHistory \in BOOLEAN

-------------------------------------------------------------------------------
\* completeWorkflow and triggerSystemTask.  The id of a log is new: a number is used
\* again only when nobody holds it.
CompleteTask(u, w, n) ==
    /\ linked = NoLog
    /\ \A k \in LogIds : k >= n => taskLog[k] = NoLog
    /\ \A e \in Editors : editing[e].at # "idle" => editing[e].log < n
    /\ linked' = n
    /\ taskLog' = [taskLog EXCEPT ![n] = [completedBy |-> u, original |-> w,
                                          remark |-> w, history |-> << >>]]
    /\ UNCHANGED << editing, begun, hasHistory >>

\* revertToOpen.
RevertTask ==
    /\ linked # NoLog
    /\ taskLog' = [taskLog EXCEPT ![linked] = NoLog]
    /\ linked' = NoLog
    /\ UNCHANGED << editing, begun, hasHistory >>

MayEdit(u, log) == /\ log.completedBy # System
                   /\ u \in SuperAdmins \/ log.completedBy = u

\* updateRemark up to its write; with the remark it finds it is answered here.
ReadLog(e, u, w) ==
    /\ editing[e].at = "idle"
    /\ begun < MaxEdits
    /\ linked # NoLog
    /\ MayEdit(u, taskLog[linked])
    /\ taskLog[linked].remark # w
    /\ editing' = [editing EXCEPT ![e] =
                      [at |-> "update", by |-> u, log |-> linked, remark |-> w,
                       previous |-> taskLog[linked].remark,
                       history |-> taskLog[linked].history]]
    /\ begun' = begun + 1
    /\ UNCHANGED << taskLog, linked, hasHistory >>

NextHistory(e) == Append(editing[e].history,
                         [editedBy |-> editing[e].by,
                          previousRemark |-> editing[e].previous,
                          newRemark |-> editing[e].remark])

\* An update of a log that is gone changes nothing, and nobody is told.
Updated(n, remark, history) ==
    IF taskLog[n] = NoLog THEN taskLog
    ELSE [taskLog EXCEPT ![n].remark = remark, ![n].history = history]

EndEdit(e) == editing' = [editing EXCEPT ![e] = [at |-> "idle"]]

\* Mutant: the log is found again by its task.
UpdateRemarkLinked(e) ==
    /\ editing[e].at = "update"
    /\ hasHistory
    /\ taskLog' = IF linked = NoLog THEN taskLog
                  ELSE Updated(linked, editing[e].remark, NextHistory(e))
    /\ EndEdit(e)
    /\ UNCHANGED << linked, begun, hasHistory >>

\* Mutant: the history is appended to as it is now.
UpdateRemarkFresh(e) ==
    /\ editing[e].at = "update"
    /\ hasHistory
    /\ taskLog' = IF taskLog[editing[e].log] = NoLog THEN taskLog
                  ELSE Updated(editing[e].log, editing[e].remark,
                               Append(taskLog[editing[e].log].history,
                                      NextHistory(e)[Len(NextHistory(e))]))
    /\ EndEdit(e)
    /\ UNCHANGED << linked, begun, hasHistory >>

UpdateRemark(e) ==
    /\ editing[e].at = "update"
    /\ hasHistory
    /\ taskLog' = Updated(editing[e].log, editing[e].remark, NextHistory(e))
    /\ EndEdit(e)
    /\ UNCHANGED << linked, begun, hasHistory >>

\* The update is refused for want of the column: the remark alone is written next.
NoColumn(e) ==
    /\ editing[e].at = "update"
    /\ ~hasHistory
    /\ editing' = [editing EXCEPT ![e].at = "updateRemarkOnly"]
    /\ UNCHANGED << taskLog, linked, begun, hasHistory >>

UpdateRemarkOnly(e) ==
    /\ editing[e].at = "updateRemarkOnly"
    /\ taskLog' = Updated(editing[e].log, editing[e].remark, << >>)
    /\ EndEdit(e)
    /\ UNCHANGED << linked, begun, hasHistory >>

RemarksNext ==
    \/ \E u \in People \cup {System}, w \in Remarks, n \in LogIds : CompleteTask(u, w, n)
    \/ RevertTask
    \/ \E e \in Editors :
          \/ \E u \in People, w \in Remarks : ReadLog(e, u, w)
          \/ UpdateRemark(e) \/ NoColumn(e) \/ UpdateRemarkOnly(e)

RemarksSpec == RemarksInit /\ [][RemarksNext]_remarkVars

-------------------------------------------------------------------------------
(* Properties *)

RemarkAfter(original, history, i) ==
    IF i = 0 THEN original ELSE history[i].newRemark

LeadsTo(original, history, remark) ==
    /\ \A i \in DOMAIN history :
          history[i].previousRemark = RemarkAfter(original, history, i - 1)
    /\ remark = RemarkAfter(original, history, Len(history))

\* The history explains the remark: it leads from the remark of the completion,
\* change by change, to the present one.  Two edits of what both have read may lose
\* one of them, but never leave a remark that its history does not account for.
RemarkExplained ==
    hasHistory => \A n \in LogIds : taskLog[n] # NoLog =>
        LeadsTo(taskLog[n].original, taskLog[n].history, taskLog[n].remark)

\* A remark is only changed by who completed the task, or a super admin, and that
\* of the system by nobody, even if the task is reverted and completed by another
\* while an edit is under way.
RemarkByItsCompleter ==
    \A n \in LogIds : taskLog[n] # NoLog =>
        /\ taskLog[n].remark # taskLog[n].original => taskLog[n].completedBy # System
        /\ \A i \in DOMAIN taskLog[n].history :
              MayEdit(taskLog[n].history[i].editedBy, taskLog[n])

===============================================================================
