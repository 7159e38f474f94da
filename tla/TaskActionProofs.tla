---------------------------- MODULE TaskActionProofs ----------------------------
(***************************************************************************)
(* Theorems about what a user does with a task, for any number of users.   *)
(*                                                                         *)
(* TaskRemarks, with any number of edits at once, with or without the      *)
(* column of the history.  Its properties are not inductive: an edit       *)
(* writes by the number of a log that may be gone by then.  EditsHold says *)
(* what an edit read and still relies on, as long as its log is there.     *)
(*                                                                         *)
(* Studies, with any number of studies and requests.  That an answer is    *)
(* shown needs to know of every study who wrote it and when (Dated), and   *)
(* of every answer which study is at least as young (YoungStudy).          *)
(*                                                                         *)
(* TaskImport, for every set of files and size of a batch, and any number  *)
(* of imports and of calls that fail.  What an import goes by is what it   *)
(* takes the logs of the tasks to be: every row collected is of that log   *)
(* (EntriesHold), every row is counted, collected or in the batch          *)
(* (RowsCounted), and the logs of a task, those written and those about to *)
(* be, are one of each import (OneLogEach).                                *)
(***************************************************************************)
EXTENDS TaskRemarks, Studies, TaskImport, TLAPS

-------------------------------------------------------------------------------
(* TaskRemarks *)

\* A task that is Done has its log.
LinkHolds == linked # NoLog => taskLog[linked] # NoLog

\* What an edit is about to write was read from its log: its history leads to the
\* remark that it found, and its user may edit it.
EditHolds(e) ==
    LET log == taskLog[editing[e].log] IN
    log # NoLog =>
        /\ MayEdit(editing[e].by, log)
        /\ \A i \in DOMAIN editing[e].history : MayEdit(editing[e].history[i].editedBy, log)
        /\ hasHistory => LeadsTo(log.original, editing[e].history, editing[e].previous)

EditsHold ==
    \A e \in Editors :
        /\ editing[e].at # "idle" => EditHolds(e)
        /\ editing[e].at = "updateRemarkOnly" => ~hasHistory

RemarksInv == /\ RemarksTypeOK
              /\ LinkHolds
              /\ RemarkExplained
              /\ RemarkByItsCompleter
              /\ EditsHold

USE DEF LogIds

-------------------------------------------------------------------------------
(* The data. *)

\* An edit in progress has all its fields.
LEMMA EditTypes ==
    ASSUME RemarksTypeOK, NEW e \in Editors, editing[e].at # "idle"
    PROVE  /\ editing[e] \in Edit
           /\ editing[e].by \in People /\ editing[e].log \in LogIds
           /\ editing[e].previous \in Remarks /\ editing[e].remark \in Remarks
           /\ editing[e].history \in Seq(Change)
BY DEF RemarksTypeOK, Edit, IdleEdits

LEMMA LogTypes ==
    ASSUME RemarksTypeOK, NEW n \in LogIds, taskLog[n] # NoLog
    PROVE  /\ taskLog[n] \in Log
           /\ taskLog[n].completedBy \in People \cup {System}
           /\ taskLog[n].original \in Remarks /\ taskLog[n].remark \in Remarks
           /\ taskLog[n].history \in Seq(Change)
BY DEF RemarksTypeOK, Log

\* A history with one change more leads to what that change made of the remark.
LEMMA LeadsOn ==
    ASSUME NEW o \in Remarks, NEW h \in Seq(Change), NEW p \in Remarks,
           NEW r \in Remarks, NEW u \in People, LeadsTo(o, h, p)
    PROVE  LeadsTo(o, Append(h, [editedBy |-> u, previousRemark |-> p, newRemark |-> r]), r)
PROOF
<1> DEFINE c == [editedBy |-> u, previousRemark |-> p, newRemark |-> r]
           h2 == Append(h, c)
<1>1. c \in Change
  BY DEF Change
<1>2. /\ Len(h) \in Nat /\ Len(h2) = Len(h) + 1
      /\ DOMAIN h = 1..Len(h) /\ DOMAIN h2 = 1..Len(h) + 1
      /\ h2[Len(h) + 1] = c
      /\ \A i \in 1..Len(h) : h2[i] = h[i]
  BY <1>1
<1>3. r = RemarkAfter(o, h2, Len(h2))
  BY <1>2 DEF RemarkAfter
<1>4. ASSUME NEW i \in DOMAIN h2
      PROVE  h2[i].previousRemark = RemarkAfter(o, h2, i - 1)
  <2>1. RemarkAfter(o, h2, i - 1) = RemarkAfter(o, h, i - 1)
    <3>1. i - 1 \in 0..Len(h)
      BY <1>2
    <3>2. i - 1 # 0 => h2[i - 1] = h[i - 1]
      BY <1>2, <3>1
    <3> QED  BY <3>2 DEF RemarkAfter
  <2>2. CASE i \in DOMAIN h
    BY <2>1, <2>2, <1>2 DEF LeadsTo
  <2>3. CASE i = Len(h) + 1
    BY <2>1, <2>3, <1>2 DEF LeadsTo
  <2> QED  BY <2>2, <2>3, <1>2
<1> QED  BY <1>3, <1>4 DEF LeadsTo

-------------------------------------------------------------------------------
(* The steps. *)

LEMMA RemarksStart ==
    ASSUME RemarksInit
    PROVE  RemarksInv
BY TaskRemarksAssumption DEF RemarksInit, RemarksInv, RemarksTypeOK, LinkHolds,
   RemarkExplained, RemarkByItsCompleter, EditsHold, IdleEdits

\* No edit holds the number of a new log.
LEMMA CompleteKeeps ==
    ASSUME RemarksInv, NEW u \in People \cup {System}, NEW w \in Remarks, NEW n \in LogIds,
           CompleteTask(u, w, n)
    PROVE  RemarksInv'
PROOF
<1> DEFINE new == [completedBy |-> u, original |-> w, remark |-> w, history |-> << >>]
<1>1. /\ new \in Log /\ new # NoLog
      /\ taskLog[n] = NoLog
      /\ taskLog' = [taskLog EXCEPT ![n] = new]
      /\ linked' = n
      /\ UNCHANGED << editing, begun, hasHistory >>
      /\ \A e \in Editors : editing[e].at # "idle" => editing[e].log # n
  <2>1. new \in Log
    BY DEF Log
  <2>2. \A e \in Editors : editing[e].at # "idle" => editing[e].log < n
    BY DEF CompleteTask
  <2>3. \A e \in Editors : editing[e].at # "idle" => editing[e].log # n
    BY <2>2
  <2>4. taskLog[n] = NoLog
    BY DEF CompleteTask
  <2> QED  BY <2>1, <2>3, <2>4, NoLogAssumption DEF CompleteTask
<1>2. RemarksTypeOK'
  BY <1>1 DEF RemarksInv, RemarksTypeOK
<1>3. LinkHolds'
  BY <1>1 DEF RemarksInv, RemarksTypeOK, LinkHolds
<1>4. LeadsTo(new.original, new.history, new.remark)
  BY DEF LeadsTo, RemarkAfter
<1>5. RemarkExplained'
  BY <1>1, <1>4 DEF RemarksInv, RemarksTypeOK, RemarkExplained
<1>6. RemarkByItsCompleter'
  BY <1>1 DEF RemarksInv, RemarksTypeOK, RemarkByItsCompleter
<1>7. EditsHold'
  <2>1. \A e \in Editors : editing[e].at # "idle" =>
            taskLog'[editing[e].log] = taskLog[editing[e].log]
    BY <1>1, EditTypes DEF RemarksInv, RemarksTypeOK
  <2> QED  BY <1>1, <2>1 DEF RemarksInv, EditsHold, EditHolds
<1> QED  BY <1>2, <1>3, <1>5, <1>6, <1>7 DEF RemarksInv

LEMMA RevertKeeps ==
    ASSUME RemarksInv, RevertTask
    PROVE  RemarksInv'
PROOF
<1>1. /\ linked \in LogIds
      /\ taskLog' = [taskLog EXCEPT ![linked] = NoLog]
      /\ linked' = NoLog
      /\ UNCHANGED << editing, begun, hasHistory >>
  BY DEF RevertTask, RemarksInv, RemarksTypeOK
<1>2. RemarksTypeOK' /\ LinkHolds'
  BY <1>1 DEF RemarksInv, RemarksTypeOK, LinkHolds
<1>3. \A n \in LogIds : taskLog'[n] # NoLog => taskLog'[n] = taskLog[n]
  BY <1>1 DEF RemarksInv, RemarksTypeOK
<1>4. RemarkExplained' /\ RemarkByItsCompleter'
  BY <1>1, <1>3 DEF RemarksInv, RemarkExplained, RemarkByItsCompleter
<1>5. EditsHold'
  <2>1. \A e \in Editors : editing[e].at # "idle" =>
            (taskLog'[editing[e].log] # NoLog =>
                taskLog'[editing[e].log] = taskLog[editing[e].log])
    BY <1>3, EditTypes DEF RemarksInv
  <2> QED  BY <1>1, <2>1 DEF RemarksInv, EditsHold, EditHolds
<1> QED  BY <1>2, <1>4, <1>5 DEF RemarksInv

\* An edit relies on what it has just read.
LEMMA ReadKeeps ==
    ASSUME RemarksInv, NEW e \in Editors, NEW u \in People, NEW w \in Remarks,
           ReadLog(e, u, w)
    PROVE  RemarksInv'
PROOF
<1> DEFINE log == taskLog[linked]
           new == [at |-> "update", by |-> u, log |-> linked, remark |-> w,
                   previous |-> log.remark, history |-> log.history]
<1>1. /\ linked \in LogIds /\ log # NoLog
      /\ MayEdit(u, log)
      /\ editing' = [editing EXCEPT ![e] = new]
      /\ begun < MaxEdits /\ begun' = begun + 1
      /\ UNCHANGED << taskLog, linked, hasHistory >>
  BY DEF ReadLog, RemarksInv, RemarksTypeOK, LinkHolds
<1>2. log.remark \in Remarks /\ log.history \in Seq(Change)
  BY <1>1, LogTypes DEF RemarksInv
<1>3. new \in Edit
  BY <1>1, <1>2 DEF Edit
<1>4. RemarksTypeOK'
  BY <1>1, <1>3, TaskRemarksAssumption DEF RemarksInv, RemarksTypeOK
<1>5. LinkHolds' /\ RemarkExplained' /\ RemarkByItsCompleter'
  BY <1>1 DEF RemarksInv, LinkHolds, RemarkExplained, RemarkByItsCompleter
<1>6. EditsHold'
  <2>1. editing'[e] = new
    BY <1>1 DEF RemarksInv, RemarksTypeOK
  <2>2. EditHolds(e)'
    <3>1. \A i \in DOMAIN log.history : MayEdit(log.history[i].editedBy, log)
      BY <1>1 DEF RemarksInv, RemarkByItsCompleter
    <3>2. hasHistory => LeadsTo(log.original, log.history, log.remark)
      BY <1>1 DEF RemarksInv, RemarkExplained
    <3> QED  BY <1>1, <2>1, <3>1, <3>2 DEF EditHolds
  <2>3. \A f \in Editors \ {e} : editing'[f] = editing[f]
    BY <1>1 DEF RemarksInv, RemarksTypeOK
  <2>4. \A f \in Editors \ {e} : editing[f].at # "idle" => EditHolds(f)'
    BY <1>1, <2>3 DEF RemarksInv, EditsHold, EditHolds
  <2> QED  BY <1>1, <2>1, <2>2, <2>3, <2>4 DEF RemarksInv, EditsHold
<1> QED  BY <1>4, <1>5, <1>6 DEF RemarksInv

LEMMA NoColumnKeeps ==
    ASSUME RemarksInv, NEW e \in Editors, NoColumn(e)
    PROVE  RemarksInv'
PROOF
<1>1. /\ editing[e].at = "update" /\ ~hasHistory
      /\ editing[e] \in Edit
      /\ editing' = [editing EXCEPT ![e].at = "updateRemarkOnly"]
      /\ UNCHANGED << taskLog, linked, begun, hasHistory >>
  BY EditTypes DEF NoColumn, RemarksInv
<1>2. editing'[e] \in Edit
  BY <1>1 DEF RemarksInv, RemarksTypeOK, Edit
<1>3. RemarksTypeOK'
  BY <1>1, <1>2 DEF RemarksInv, RemarksTypeOK
<1>4. LinkHolds' /\ RemarkExplained' /\ RemarkByItsCompleter'
  BY <1>1 DEF RemarksInv, LinkHolds, RemarkExplained, RemarkByItsCompleter
<1>5. EditsHold'
  BY <1>1 DEF RemarksInv, RemarksTypeOK, EditsHold, EditHolds, Edit
<1> QED  BY <1>3, <1>4, <1>5 DEF RemarksInv

\* Both writes: a log that is still there takes a remark and a history that hold of
\* it, and nobody else's edit is touched.
LEMMA UpdateKeeps ==
    ASSUME RemarksInv, NEW e \in Editors, editing[e].at # "idle",
           NEW h \in Seq(Change),
           taskLog' = Updated(editing[e].log, editing[e].remark, h),
           EndEdit(e), UNCHANGED << linked, begun, hasHistory >>,
           taskLog[editing[e].log] # NoLog =>
               /\ \A i \in DOMAIN h : MayEdit(h[i].editedBy, taskLog[editing[e].log])
               /\ hasHistory => LeadsTo(taskLog[editing[e].log].original, h,
                                        editing[e].remark)
    PROVE  RemarksInv'
PROOF
<1> DEFINE n == editing[e].log
           new == [taskLog[n] EXCEPT !.remark = editing[e].remark, !.history = h]
<1>1. /\ n \in LogIds /\ editing[e].by \in People /\ editing[e].remark \in Remarks
      /\ taskLog[n] # NoLog => taskLog[n] \in Log
  BY EditTypes, LogTypes DEF RemarksInv
<1>2. editing' = [editing EXCEPT ![e] = [at |-> "idle"]]
  BY DEF EndEdit
<1>3. CASE taskLog[n] = NoLog
  <2>1. taskLog' = taskLog
    BY <1>3 DEF Updated
  <2> QED
    BY <1>2, <2>1 DEF RemarksInv, RemarksTypeOK, IdleEdits, LinkHolds, RemarkExplained,
       RemarkByItsCompleter, EditsHold, EditHolds
<1>4. CASE taskLog[n] # NoLog
  <2>1. /\ new \in Log /\ new # NoLog
        /\ new.completedBy = taskLog[n].completedBy
        /\ new.original = taskLog[n].original
        /\ new.remark = editing[e].remark /\ new.history = h
    BY <1>1, <1>4, NoLogAssumption DEF Log
  <2>2. taskLog' = [taskLog EXCEPT ![n] = new]
    BY <1>4 DEF Updated
  <2>3. /\ taskLog'[n] = new
        /\ \A k \in LogIds \ {n} : taskLog'[k] = taskLog[k]
        /\ \A k \in LogIds : taskLog'[k] = NoLog <=> taskLog[k] = NoLog
    BY <1>1, <1>4, <2>1, <2>2 DEF RemarksInv, RemarksTypeOK
  <2>4. RemarksTypeOK'
    BY <1>1, <1>2, <2>1, <2>2 DEF RemarksInv, RemarksTypeOK, IdleEdits
  <2>5. LinkHolds'
    BY <2>3 DEF RemarksInv, RemarksTypeOK, LinkHolds
  <2>6. RemarkExplained'
    <3>1. ASSUME hasHistory, NEW k \in LogIds, taskLog'[k] # NoLog
          PROVE  LeadsTo(taskLog'[k].original, taskLog'[k].history, taskLog'[k].remark)
      <4>1. CASE k = n
        BY <1>4, <2>1, <2>3, <3>1, <4>1
      <4>2. CASE k # n
        BY <2>3, <3>1, <4>2 DEF RemarksInv, RemarkExplained
      <4> QED  BY <4>1, <4>2
    <3> QED  BY <3>1 DEF RemarkExplained
  <2>7. \A u : MayEdit(u, new) <=> MayEdit(u, taskLog[n])
    BY <2>1 DEF MayEdit
  <2>8. RemarkByItsCompleter'
    <3>1. MayEdit(editing[e].by, taskLog[n])
      BY <1>4 DEF RemarksInv, EditsHold, EditHolds
    <3>2. new.completedBy # System
      BY <3>1, <2>1 DEF MayEdit
    <3>3. \A i \in DOMAIN new.history : MayEdit(new.history[i].editedBy, new)
      BY <1>4, <2>1, <2>7
    <3> DEFINE Fair(log) ==
                  /\ log.remark # log.original => log.completedBy # System
                  /\ \A i \in DOMAIN log.history : MayEdit(log.history[i].editedBy, log)
    <3>4. Fair(new)
      BY <3>2, <3>3
    <3>5. \A k \in LogIds : taskLog[k] # NoLog => Fair(taskLog[k])
      BY DEF RemarksInv, RemarkByItsCompleter
    <3> HIDE DEF Fair
    <3>6. \A k \in LogIds : taskLog'[k] # NoLog => Fair(taskLog'[k])
      BY <2>3, <3>4, <3>5
    <3> QED  BY <3>6 DEF Fair, RemarkByItsCompleter, MayEdit
  <2>9. EditsHold'
    <3>1. ASSUME NEW f \in Editors \ {e}, editing[f].at # "idle"
          PROVE  EditHolds(f)'
      <4>1. editing'[f] = editing[f] /\ editing[f].log \in LogIds
        BY <1>2, <3>1, EditTypes DEF RemarksInv, RemarksTypeOK
      <4>2. CASE editing[f].log = n
        <5>1. EditHolds(f)
          BY <3>1 DEF RemarksInv, EditsHold
        <5>2. /\ MayEdit(editing[f].by, new)
              /\ \A i \in DOMAIN editing[f].history :
                    MayEdit(editing[f].history[i].editedBy, new)
              /\ hasHistory => LeadsTo(new.original, editing[f].history,
                                        editing[f].previous)
          BY <1>4, <2>1, <2>7, <4>2, <5>1 DEF EditHolds
        <5>3. hasHistory' = hasHistory /\ (taskLog[editing[f].log])' = new
          BY <2>3, <4>1, <4>2
        <5> HIDE DEF new
        <5> QED  BY <4>1, <5>2, <5>3 DEF EditHolds, MayEdit
      <4>3. CASE editing[f].log # n
        BY <2>3, <3>1, <4>1, <4>3 DEF RemarksInv, EditsHold, EditHolds, MayEdit
      <4> QED  BY <4>2, <4>3
    <3>2. \A f \in Editors \ {e} : editing'[f] = editing[f]
      BY <1>2 DEF RemarksInv, RemarksTypeOK
    <3>3. editing'[e].at = "idle"
      BY <1>2 DEF RemarksInv, RemarksTypeOK
    <3> QED  BY <3>1, <3>2, <3>3 DEF RemarksInv, EditsHold
  <2> QED  BY <2>4, <2>5, <2>6, <2>8, <2>9 DEF RemarksInv
<1> QED  BY <1>3, <1>4

LEMMA UpdateRemarkKeeps ==
    ASSUME RemarksInv, NEW e \in Editors, UpdateRemark(e)
    PROVE  RemarksInv'
PROOF
<1> DEFINE log == taskLog[editing[e].log]
           c == [editedBy |-> editing[e].by, previousRemark |-> editing[e].previous,
                 newRemark |-> editing[e].remark]
<1>1. editing[e].at = "update" /\ hasHistory
  BY DEF UpdateRemark
<1>2. /\ editing[e].by \in People /\ editing[e].log \in LogIds
      /\ editing[e].previous \in Remarks /\ editing[e].remark \in Remarks
      /\ editing[e].history \in Seq(Change)
  BY <1>1, EditTypes DEF RemarksInv
<1>3. c \in Change
  BY <1>2 DEF Change
<1>4. NextHistory(e) = Append(editing[e].history, c) /\ NextHistory(e) \in Seq(Change)
  BY <1>2, <1>3 DEF NextHistory
<1>5. ASSUME log # NoLog
      PROVE  /\ \A i \in DOMAIN NextHistory(e) : MayEdit(NextHistory(e)[i].editedBy, log)
             /\ LeadsTo(log.original, NextHistory(e), editing[e].remark)
  <2>1. EditHolds(e)
    BY <1>1 DEF RemarksInv, EditsHold
  <2>2. /\ MayEdit(editing[e].by, log)
        /\ \A i \in DOMAIN editing[e].history : MayEdit(editing[e].history[i].editedBy, log)
        /\ LeadsTo(log.original, editing[e].history, editing[e].previous)
    BY <1>1, <1>5, <2>1 DEF EditHolds
  <2>3. log.original \in Remarks
    BY <1>2, <1>5, LogTypes DEF RemarksInv
  <2>4. LeadsTo(log.original, NextHistory(e), editing[e].remark)
    BY <1>2, <1>4, <2>2, <2>3, LeadsOn
  <2>5. \A i \in DOMAIN NextHistory(e) : MayEdit(NextHistory(e)[i].editedBy, log)
    <3> DEFINE h == editing[e].history
    <3> TAKE i \in DOMAIN NextHistory(e)
    <3>1. /\ Len(h) \in Nat /\ DOMAIN h = 1..Len(h) /\ i \in 1..Len(h) + 1
          /\ i \in 1..Len(h) => NextHistory(e)[i] = h[i]
          /\ i = Len(h) + 1 => NextHistory(e)[i] = c
      BY <1>2, <1>3, <1>4
    <3>2. CASE i \in 1..Len(h)
      BY <2>2, <3>1, <3>2
    <3>3. CASE i = Len(h) + 1
      BY <2>2, <3>1, <3>3
    <3> QED  BY <3>1, <3>2, <3>3
  <2> QED  BY <2>4, <2>5
<1> QED  BY <1>1, <1>4, <1>5, UpdateKeeps DEF UpdateRemark

LEMMA UpdateRemarkOnlyKeeps ==
    ASSUME RemarksInv, NEW e \in Editors, UpdateRemarkOnly(e)
    PROVE  RemarksInv'
PROOF
<1>1. editing[e].at = "updateRemarkOnly" /\ ~hasHistory
  BY DEF UpdateRemarkOnly, RemarksInv, EditsHold
<1>2. << >> \in Seq(Change) /\ DOMAIN << >> = {}
  OBVIOUS
<1> QED  BY <1>1, <1>2, UpdateKeeps DEF UpdateRemarkOnly

LEMMA RemarksKeep ==
    ASSUME RemarksInv, [RemarksNext]_remarkVars
    PROVE  RemarksInv'
PROOF
<1>1. CASE RemarksNext
  BY <1>1, CompleteKeeps, RevertKeeps, ReadKeeps, UpdateRemarkKeeps, NoColumnKeeps,
     UpdateRemarkOnlyKeeps DEF RemarksNext
<1>2. CASE UNCHANGED remarkVars
  BY <1>2 DEF remarkVars, RemarksInv, RemarksTypeOK, LinkHolds, RemarkExplained,
     RemarkByItsCompleter, EditsHold, EditHolds
<1> QED  BY <1>1, <1>2

-------------------------------------------------------------------------------
(* The theorems. *)

LEMMA RemarksInvariant == RemarksSpec => []RemarksInv
PROOF
<1>1. RemarksInit => RemarksInv
  BY RemarksStart
<1>2. RemarksInv /\ [RemarksNext]_remarkVars => RemarksInv'
  BY RemarksKeep
<1> QED  BY <1>1, <1>2, PTL DEF RemarksSpec

\* Logs, edits and links keep their types.
THEOREM RemarksTyped == RemarksSpec => []RemarksTypeOK
PROOF
<1>1. RemarksInv => RemarksTypeOK
  BY DEF RemarksInv
<1> QED  BY <1>1, RemarksInvariant, PTL

\* However many edits write back what they read, the history of a remark explains
\* it.
THEOREM RemarksAreExplained == RemarksSpec => []RemarkExplained
PROOF
<1>1. RemarksInv => RemarkExplained
  BY DEF RemarksInv
<1> QED  BY <1>1, RemarksInvariant, PTL

\* Nobody edits the remark of another's completion, though the task be reverted and
\* completed anew while an edit is under way.
THEOREM RemarksOfTheirCompleter == RemarksSpec => []RemarkByItsCompleter
PROOF
<1>1. RemarksInv => RemarkByItsCompleter
  BY DEF RemarksInv
<1> QED  BY <1>1, RemarksInvariant, PTL

-------------------------------------------------------------------------------
(* Studies *)

\* A request begins after those that it was answered behind, and writes the moment of
\* its beginning.
Sequenced ==
    \A a \in Authors : writing[a].at # "idle" =>
        /\ writing[a].now <= moment
        /\ \A b \in before[a] : writing[b].at = "answered" /\ writing[b].now < writing[a].now

\* A study bears the date of the request that wrote it last.
Dated ==
    \A s \in Written : LET b == studies[s].by IN
        writing[b].at = "answered" /\ studies[s].updatedAt = writing[b].now

\* What is under way besides a request that was alone began after it.
NoneFromBefore ==
    \A a, b \in Authors :
        /\ alone[a] /\ writing[a].at # "idle"
        /\ writing[b].at = "write"
        => writing[b].now >= writing[a].now

\* Some study is as young as an answered request that was alone, and some was not
\* written by what an answered request came after.
YoungStudy ==
    \A a \in Authors : writing[a].at = "answered" =>
        /\ alone[a] => \E s \in Written : studies[s].updatedAt >= writing[a].now
        /\ \E s \in Written : studies[s].by \notin before[a]

\* An answer was given a moment after its request began.
InThePast == \A a \in Authors : writing[a].at = "answered" => writing[a].now < moment

\* What a request inserts names its conclusion, what it updates is there.
NamesConclusion ==
    \A a \in Authors : IF writing[a].study = NoStudy THEN writing[a].concludes \in Conclusions
                       ELSE writing[a].study \in Written

StudiesInv == /\ StudiesTypeOK
              /\ NamesConclusion
              /\ Sequenced
              /\ InThePast
              /\ Dated
              /\ NoneFromBefore
              /\ YoungStudy

-------------------------------------------------------------------------------
LEMMA StudiesInitInv ==
    StudiesInit => StudiesInv
BY StudiesAssumption
   DEF StudiesInit, StudiesInv, StudiesTypeOK, NamesConclusion, Sequenced, InThePast, Dated,
       NoneFromBefore, YoungStudy, Written, Writing, Conclusions, Moments, Authors, StudyIds

LEMMA StudyBeginsInv ==
    ASSUME StudiesInv, NEW a \in Authors, NEW s \in StudyIds \cup {NoStudy},
           NEW c \in Conclusions \cup {"asIs"}, s = NoStudy => c \in Conclusions,
           s # NoStudy => s \in Written,
           Begins(a, s, c)
    PROVE  StudiesInv'
PROOF
<1> USE StudiesAssumption
<1> DEFINE new == [at |-> "write", study |-> s, concludes |-> c, now |-> moment]
<1>1. /\ StudiesTypeOK /\ moment \in Moments
      /\ writing[a].at = "idle"
      /\ writing' = [writing EXCEPT ![a] = new]
      /\ before' = [before EXCEPT ![a] = {b \in Authors : writing[b].at = "answered"}]
      /\ alone' = [alone EXCEPT ![a] = UnderWay = {}]
      /\ UNCHANGED << studies, moment >>
  BY DEF StudiesInv, StudiesTypeOK, Begins
<1>2. /\ new \in Writing
      /\ writing \in [Authors -> Writing]
      /\ before \in [Authors -> SUBSET Authors] /\ alone \in [Authors -> BOOLEAN]
  BY <1>1 DEF Writing, StudiesTypeOK
<1>3. StudiesTypeOK'
  BY <1>1, <1>2 DEF StudiesTypeOK
<1>4. /\ writing'[a] = new
      /\ \A b \in Authors \ {a} : /\ writing'[b] = writing[b] /\ before'[b] = before[b]
                                  /\ alone'[b] = alone[b]
      /\ before'[a] = {b \in Authors : writing[b].at = "answered"}
      /\ alone'[a] = (UnderWay = {})
  BY <1>1, <1>2
<1>5. \A b \in Authors : /\ writing[b].now \in Nat /\ writing'[b].now \in Nat
                         /\ moment \in Nat
                         /\ writing[b].now <= moment \/ writing[b].at = "idle"
  BY <1>1, <1>2, <1>4 DEF StudiesInv, Sequenced, Writing, Moments
<1>6. Sequenced'
  <2> SUFFICES ASSUME NEW b \in Authors, writing'[b].at # "idle"
               PROVE  /\ writing'[b].now <= moment
                      /\ \A d \in before'[b] : /\ writing'[d].at = "answered"
                                               /\ writing'[d].now < writing'[b].now
    BY <1>1 DEF Sequenced
  <2>1. CASE b = a
    <3>1. ASSUME NEW d \in before'[a]
          PROVE  writing'[d].at = "answered" /\ writing'[d].now < moment
      <4>1. d \in Authors /\ d # a /\ writing[d].at = "answered"
        BY <1>1, <1>4
      <4> QED BY <4>1, <1>4 DEF StudiesInv, InThePast
    <3> QED BY <2>1, <3>1, <1>4, <1>5
  <2>2. CASE b # a
    <3>1. \A d \in before[b] : d \in Authors /\ d # a
      BY <2>2, <1>1, <1>2, <1>4 DEF StudiesInv, Sequenced
    <3> QED BY <2>2, <3>1, <1>1, <1>4 DEF StudiesInv, Sequenced
  <2> QED BY <2>1, <2>2
<1>7. InThePast'
  BY <1>1, <1>4 DEF StudiesInv, InThePast
<1>8. Dated'
  <2>1. \A t \in Written : studies[t].by \in Authors /\ studies[t].by # a
    BY <1>1 DEF StudiesInv, Dated, StudiesTypeOK, Written, Study
  <2> QED BY <2>1, <1>1, <1>4 DEF StudiesInv, Dated, Written
<1>9. NoneFromBefore'
  <2> SUFFICES ASSUME NEW b \in Authors, NEW d \in Authors,
                      alone'[b], writing'[b].at # "idle", writing'[d].at = "write"
               PROVE  writing'[d].now >= writing'[b].now
    BY DEF NoneFromBefore
  <2>1. CASE d = a
    BY <2>1, <1>4, <1>5
  <2>2. CASE d # a /\ b # a
    BY <2>2, <1>4 DEF StudiesInv, NoneFromBefore
  <2>3. CASE d # a /\ b = a
    BY <2>3, <1>4 DEF UnderWay
  <2> QED BY <2>1, <2>2, <2>3
<1>10. YoungStudy'
  BY <1>1, <1>4 DEF StudiesInv, YoungStudy, Written
<1>11. NamesConclusion'
  BY <1>1, <1>4 DEF StudiesInv, NamesConclusion, Written
<1> QED BY <1>3, <1>6, <1>7, <1>8, <1>9, <1>10, <1>11 DEF StudiesInv

\* A request writes a study: the one it chose, or a new one.
LEMMA LandsInv ==
    ASSUME StudiesInv, NEW a \in Authors, NEW s \in StudyIds, NEW c \in Conclusions,
           writing[a].at = "write", writing[a].now < moment,
           studies' = [studies EXCEPT ![s] = [updatedAt |-> writing[a].now, by |-> a,
                                              conclusion |-> c]],
           Answers(a), UNCHANGED << before, alone, moment >>
    PROVE  StudiesInv'
PROOF
<1> USE StudiesAssumption
<1> DEFINE row == [updatedAt |-> writing[a].now, by |-> a, conclusion |-> c]
<1>1. /\ StudiesTypeOK
      /\ writing \in [Authors -> Writing] /\ studies \in [StudyIds -> Study \cup {NoStudy}]
      /\ before \in [Authors -> SUBSET Authors]
      /\ moment \in Nat
      /\ \A b \in Authors : writing[b].now \in Nat
  BY DEF StudiesInv, StudiesTypeOK, Writing, Moments
<1>2. /\ writing' \in [Authors -> Writing]
      /\ writing'[a].at = "answered" /\ writing'[a].now = writing[a].now
      /\ \A b \in Authors \ {a} : writing'[b] = writing[b]
      /\ \A b \in Authors : /\ writing'[b].now = writing[b].now
                             /\ writing'[b].study = writing[b].study
                             /\ writing'[b].concludes = writing[b].concludes
  BY <1>1 DEF Answers, Writing
<1>3. row \in Study /\ row # NoStudy /\ row.updatedAt = writing[a].now /\ row.by = a
  BY <1>1 DEF Study, Writing
<1>4. /\ studies' \in [StudyIds -> Study \cup {NoStudy}]
      /\ studies'[s] = row
      /\ \A t \in StudyIds \ {s} : studies'[t] = studies[t]
      /\ Written' = Written \cup {s}
  BY <1>1, <1>3 DEF Written
<1>5. StudiesTypeOK'
  BY <1>1, <1>2, <1>4 DEF StudiesTypeOK
<1>6. Sequenced'
  <2> SUFFICES ASSUME NEW b \in Authors, writing'[b].at # "idle"
               PROVE  /\ writing'[b].now <= moment
                      /\ \A e \in before[b] : /\ writing'[e].at = "answered"
                                              /\ writing'[e].now < writing'[b].now
    BY DEF Sequenced
  <2>1. writing[b].at # "idle"
    BY <1>2
  <2>2. \A e \in before[b] : e \in Authors
    BY <1>1
  <2> QED BY <1>2, <2>1, <2>2 DEF StudiesInv, Sequenced
<1>7. InThePast'
  BY <1>2 DEF StudiesInv, InThePast
<1>8. Dated'
  <2> SUFFICES ASSUME NEW t \in Written'
               PROVE  /\ writing'[studies'[t].by].at = "answered"
                      /\ studies'[t].updatedAt = writing'[studies'[t].by].now
    BY DEF Dated
  <2>1. CASE t = s
    BY <2>1, <1>2, <1>3, <1>4
  <2>2. CASE t # s
    <3>1. t \in Written /\ studies'[t] = studies[t] /\ studies[t].by \in Authors
      BY <2>2, <1>1, <1>4 DEF Written, Study
    <3> QED BY <3>1, <1>2 DEF StudiesInv, Dated
  <2> QED BY <2>1, <2>2
<1>9. NoneFromBefore'
  BY <1>2 DEF StudiesInv, NoneFromBefore
<1>10. YoungStudy'
  <2> SUFFICES ASSUME NEW b \in Authors, writing'[b].at = "answered"
               PROVE  /\ alone[b] => \E t \in Written' : studies'[t].updatedAt >= writing'[b].now
                      /\ \E t \in Written' : studies'[t].by \notin before[b]
    BY DEF YoungStudy
  <2>1. CASE b = a
    <3>1. a \notin before[a]
      BY <1>1 DEF StudiesInv, Sequenced
    <3> QED BY <2>1, <3>1, <1>1, <1>2, <1>3, <1>4
  <2>2. CASE b # a
    <3>1. writing[b].at = "answered" /\ a \notin before[b]
      BY <2>2, <1>2 DEF StudiesInv, Sequenced
    <3>2. alone[b] => writing[a].now >= writing[b].now
      BY <3>1 DEF StudiesInv, NoneFromBefore
    <3> QED BY <3>1, <3>2, <1>2, <1>3, <1>4
  <2> QED BY <2>1, <2>2
<1>11. NamesConclusion'
  BY <1>2, <1>4 DEF StudiesInv, NamesConclusion
<1> QED BY <1>5, <1>6, <1>7, <1>8, <1>9, <1>10, <1>11 DEF StudiesInv

LEMMA StudiesNextInv ==
    StudiesInv /\ [StudiesNext]_studyVars => StudiesInv'
PROOF
<1> SUFFICES ASSUME StudiesInv, [StudiesNext]_studyVars
             PROVE  StudiesInv'
  OBVIOUS
<1>1. ASSUME NEW a \in Authors, Approve(a) \/ EditStudy(a) \/ CreateStudy(a)
      PROVE  StudiesInv'
  BY <1>1, StudyBeginsInv, StudiesAssumption
     DEF Approve, EditStudy, CreateStudy, Latest, Written
<1>2. ASSUME NEW a \in Authors, UpdateRow(a)
      PROVE  StudiesInv'
  <2> DEFINE s == writing[a].study
             c == Concluded(a, studies[s])
  <2>1. s \in StudyIds /\ s \in Written
    BY <1>2 DEF UpdateRow, StudiesInv, NamesConclusion, Written
  <2>2. c \in Conclusions
    BY <2>1 DEF StudiesInv, StudiesTypeOK, Writing, Written, Study, Concluded
  <2>3. studies' = [studies EXCEPT ![s] = [updatedAt |-> writing[a].now, by |-> a,
                                           conclusion |-> c]]
    BY <1>2 DEF UpdateRow, StudyRow
  <2> HIDE DEF s, c
  <2> QED BY <1>2, <2>1, <2>2, <2>3, LandsInv DEF UpdateRow
<1>3. ASSUME NEW a \in Authors, InsertRow(a)
      PROVE  StudiesInv'
  <2>1. writing[a].study = NoStudy /\ writing[a] \in Writing
    BY <1>3 DEF InsertRow, StudiesInv, StudiesTypeOK
  <2>2. writing[a].concludes \in Conclusions
    BY <1>3, <2>1 DEF StudiesInv, NamesConclusion, InsertRow
  <2> QED BY <1>3, <2>2, LandsInv DEF InsertRow, Written
<1>4. CASE MomentPasses
  BY <1>4, StudiesAssumption
     DEF MomentPasses, StudiesInv, StudiesTypeOK, NamesConclusion, Sequenced, InThePast, Dated,
         NoneFromBefore, YoungStudy, Written, Moments, Writing
<1>5. CASE UNCHANGED studyVars
  BY <1>5 DEF studyVars, StudiesInv, StudiesTypeOK, NamesConclusion, Sequenced, InThePast,
              Dated, NoneFromBefore, YoungStudy, Written
<1> QED BY <1>1, <1>2, <1>3, <1>4, <1>5 DEF StudiesNext

LEMMA AnswerShownFollows ==
    StudiesInv => AnswerShown
PROOF
<1> SUFFICES ASSUME StudiesInv, NEW a \in Authors, writing[a].at = "answered",
                    alone[a] \/ \A s, t \in Written : s = t
             PROVE  /\ \A s \in Latest : studies[s].by \notin before[a]
                    /\ \A s \in OnPages : studies[s].by \in before[a]
                          => /\ s \in Approved
                             /\ \A t \in Approved : studies[t].updatedAt < writing[a].now
  BY DEF AnswerShown
<1>1. /\ \A t \in Written : studies[t].updatedAt \in Nat
      /\ writing[a].now \in Nat
  BY DEF Written, StudiesInv, StudiesTypeOK, Study, Writing, Moments
<1>2. \A s \in Written : studies[s].by \in before[a] => studies[s].updatedAt < writing[a].now
  BY <1>1 DEF StudiesInv, Sequenced, Dated
<1>3. CASE alone[a]
  <2>1. PICK t \in Written : studies[t].updatedAt >= writing[a].now
    BY <1>3 DEF StudiesInv, YoungStudy
  <2>2. ASSUME NEW s \in Latest  PROVE studies[s].by \notin before[a]
    BY <1>1, <1>2, <2>1 DEF Latest
  <2>3. ASSUME NEW s \in OnPages, studies[s].by \in before[a]
        PROVE  /\ s \in Approved
               /\ \A u \in Approved : studies[u].updatedAt < writing[a].now
    <3>1. s \in Written /\ Approved \subseteq Written
      BY DEF OnPages, Approved
    <3>2. studies[s].updatedAt < writing[a].now
      BY <1>2, <2>3, <3>1
    <3>3. CASE Approved = {}
      BY <1>1, <2>1, <3>1, <3>2, <3>3 DEF OnPages
    <3>4. CASE Approved # {}
      BY <1>1, <3>1, <3>2, <3>4 DEF OnPages
    <3> QED BY <3>3, <3>4
  <2> QED BY <2>2, <2>3
<1>4. CASE \A t, u \in Written : t = u
  <2>1. \A s \in Written : studies[s].by \notin before[a]
    BY <1>4 DEF StudiesInv, YoungStudy
  <2>2. Latest \subseteq Written /\ OnPages \subseteq Written
    BY DEF Latest, OnPages, Approved
  <2> QED BY <2>1, <2>2
<1> QED BY <1>3, <1>4

-------------------------------------------------------------------------------
\* Studies and requests keep their types.
THEOREM StudiesTypes ==
    StudiesSpec => []StudiesTypeOK
PROOF
<1>1. StudiesInv => StudiesTypeOK
  BY DEF StudiesInv
<1> QED BY <1>1, StudiesInitInv, StudiesNextInv, PTL DEF StudiesSpec

\* Whoever begins while nothing is under way, or in a project of one study, hides all
\* that was answered before, but for an approved study while none as young as the
\* request is approved.
THEOREM StudiesShow ==
    StudiesSpec => []AnswerShown
BY StudiesInitInv, StudiesNextInv, AnswerShownFollows, PTL DEF StudiesSpec

-------------------------------------------------------------------------------
(* TaskImport *)

Underway == import.at # "none"

\* The logs that a task has, or is to have.
LogsFor(t) ==
    {k.id : k \in {l \in importLogs : l.task = t}}
        \cup {x \in {statuses[t]} : x # NoImportLog}
        \cup {x \in {import.statusById[t]} : x # NoImportLog /\ Underway}

\* A row that was collected.
EntryHolds(e) ==
    /\ e.row \in DOMAIN file /\ e.row < import.row
    /\ e.task = file[e.row] /\ e.log = import.statusById[e.task]

RowsIn(s) == {s[i].row : i \in DOMAIN s}
LeftRows == {import.batch[i].row : i \in {j \in DOMAIN import.batch : j >= import.on}}
RowsDiffer(s) == \A i, j \in DOMAIN s : s[i].row = s[j].row => i = j
HasLog(e) == [id |-> e.log, task |-> e.task] \in importLogs

\* What goes with the place that the import has come to.
ImportPlaced ==
    /\ import.at \in {"none", "rows", "done"} =>
          import.batch = << >> /\ import.on = 0 /\ ~import.logFailed
    /\ import.at \in {"logs", "statuses"} => import.on = 0 /\ import.batch # << >>
    /\ import.at \in {"rowLog", "rowStatus"} => import.on \in DOMAIN import.batch
    /\ import.at = "rowLog" => ~import.logFailed
    /\ import.at = "none" =>
          import.saved = {} /\ import.failed = {} /\ import.pending = << >>
    /\ Underway => import.row \in 1..Len(file) + 1 /\ imports # 0
    /\ import.at = "done" => import.row = Len(file) + 1 /\ import.pending = << >>

\* Every row up to here that has data was saved, has failed, or is yet to be written.
Passed == {r \in 1..import.row - 1 : file[r] # Blank}
RowsCounted ==
    /\ Underway => Passed = import.saved \cup import.failed
                              \cup RowsIn(import.pending) \cup LeftRows
    /\ import.saved \cap import.failed = {}
    /\ (import.saved \cup import.failed) \cap (RowsIn(import.pending) \cup LeftRows) = {}
    /\ RowsIn(import.pending) \cap RowsIn(import.batch) = {}
    /\ RowsDiffer(import.pending) /\ RowsDiffer(import.batch)

EntriesHold ==
    /\ \A i \in DOMAIN import.pending : EntryHolds(import.pending[i])
    /\ \A i \in DOMAIN import.batch : EntryHolds(import.batch[i])
    /\ import.at = "statuses" /\ ~import.logFailed =>
          \A i \in DOMAIN import.batch : HasLog(import.batch[i])
    /\ import.at = "rowStatus" /\ ~import.logFailed => HasLog(import.batch[import.on])

SavedHold ==
    \A r \in import.saved :
        /\ r \in DOMAIN file /\ file[r] \in Tasks
        /\ statuses[file[r]] = import.statusById[file[r]]
        /\ [id |-> statuses[file[r]], task |-> file[r]] \in importLogs

\* Two logs of a task are of different imports, and of a task that had one there is no
\* other.
OneLogEach ==
    /\ \A t \in Tasks : \A x, y \in LogsFor(t) : x[1] \in {0, y[1]} => x = y
    /\ \A t \in Tasks : \A x \in LogsFor(t) : x[1] <= imports
    /\ \A t \in Tasks : \A x \in LogsFor(t) : x[1] = 0 => statuses[t] # NoImportLog
    /\ Underway => \A t \in Tasks : import.statusById[t] = NoImportLog
                                       => statuses[t] = NoImportLog
    /\ Underway => \A k \in importLogs : k.id[1] = imports
                                       => import.statusById[k.task] = k.id

ImportInv == /\ ImportTypeOK
             /\ ImportPlaced
             /\ RowsCounted
             /\ EntriesHold
             /\ SavedHold
             /\ OneLogEach

-------------------------------------------------------------------------------
LEMMA ImportTypes ==
    ASSUME ImportTypeOK
    PROVE  /\ file \in Seq(Tasks \cup {Invalid, Blank})
           /\ import.row \in Nat /\ import.on \in Nat
           /\ import.pending \in Seq(ImportRow) /\ import.batch \in Seq(ImportRow)
           /\ import.saved \in SUBSET Nat /\ import.failed \in SUBSET Nat
           /\ import.statusById \in [Tasks -> ImportLogIds \cup {NoImportLog}]
           /\ import.logFailed \in BOOLEAN
           /\ import.at \in {"none", "rows", "logs", "statuses", "rowLog", "rowStatus", "done"}
           /\ imports \in Nat /\ imports <= MaxImports
BY TaskImportAssumption DEF ImportTypeOK, Import

ImportPlaces == {"none", "rows", "logs", "statuses", "rowLog", "rowStatus", "done"}

\* What the steps make of the import, field by field.
LEMMA ImportRejects ==
    ASSUME NEW i \in Import, NEW row \in Nat, NEW failed \in SUBSET Nat,
           NEW j, j = [i EXCEPT !.row = row, !.failed = failed]
    PROVE  /\ j \in Import
           /\ j.at = i.at /\ j.row = row /\ j.statusById = i.statusById
           /\ j.pending = i.pending /\ j.batch = i.batch /\ j.logFailed = i.logFailed
           /\ j.on = i.on /\ j.saved = i.saved /\ j.failed = failed
BY DEF Import

LEMMA ImportCollected ==
    ASSUME NEW i \in Import, NEW row \in Nat,
           NEW logs \in [Tasks -> ImportLogIds \cup {NoImportLog}],
           NEW pending \in Seq(ImportRow)
    PROVE  [i EXCEPT !.row = row, !.statusById = logs, !.pending = pending] \in Import
BY DEF Import

LEMMA ImportFlushes ==
    ASSUME NEW i \in Import, NEW pending \in Seq(ImportRow), NEW batch \in Seq(ImportRow),
           NEW j, j = [i EXCEPT !.at = "logs", !.batch = batch, !.pending = pending]
    PROVE  /\ j \in Import
           /\ j.at = "logs" /\ j.row = i.row /\ j.statusById = i.statusById
           /\ j.pending = pending /\ j.batch = batch /\ j.logFailed = i.logFailed
           /\ j.on = i.on /\ j.saved = i.saved /\ j.failed = i.failed
BY DEF Import

Moved(i, at, logFailed) == [i EXCEPT !.at = at, !.logFailed = logFailed]

LEMMA ImportMoves ==
    ASSUME NEW i \in Import, NEW at \in ImportPlaces, NEW logFailed \in BOOLEAN, NEW j,
           j = Moved(i, at, logFailed)
    PROVE  /\ j \in Import
           /\ j.at = at /\ j.row = i.row /\ j.statusById = i.statusById
           /\ j.pending = i.pending /\ j.batch = i.batch /\ j.logFailed = logFailed
           /\ j.on = i.on /\ j.saved = i.saved /\ j.failed = i.failed
PROOF
<1>1. j \in Import
  BY DEF Import, ImportPlaces, Moved
<1>2. /\ j.at = at /\ j.row = i.row /\ j.statusById = i.statusById
      /\ j.pending = i.pending /\ j.batch = i.batch
      /\ j.on = i.on /\ j.saved = i.saved /\ j.failed = i.failed
  BY DEF Import, Moved
<1>3. j.logFailed = logFailed
  BY DEF Import, Moved
<1> QED BY <1>1, <1>2, <1>3

Saved(i, rows) ==
    [i EXCEPT !.at = "rows", !.batch = << >>, !.on = 0, !.logFailed = FALSE,
              !.saved = i.saved \cup rows]

LEMMA ImportSaves ==
    ASSUME NEW i \in Import, NEW rows \in SUBSET Nat, NEW j, j = Saved(i, rows)
    PROVE  /\ j \in Import
           /\ j.at = "rows" /\ j.row = i.row /\ j.statusById = i.statusById
           /\ j.pending = i.pending /\ j.batch = << >> /\ ~j.logFailed
           /\ j.on = 0 /\ j.saved = i.saved \cup rows /\ j.failed = i.failed
PROOF
<1>5. i.saved \in SUBSET Nat
  BY DEF Import
<1>1. << >> \in Seq(ImportRow) /\ i.saved \cup rows \in SUBSET Nat
  <2>1. << >> \in Seq(ImportRow)
    OBVIOUS
  <2>2. i.saved \cup rows \in SUBSET Nat
    BY <1>5
  <2> QED BY <2>1, <2>2
<1>2. /\ j.at = "rows" /\ j.row = i.row /\ j.statusById = i.statusById
      /\ j.pending = i.pending /\ j.batch = << >>
      /\ j.on = 0 /\ j.saved = i.saved \cup rows /\ j.failed = i.failed
  BY DEF Import, Saved
<1>3. j.logFailed = FALSE
  BY DEF Import, Saved
<1>4. j \in Import
  BY <1>1 DEF Import, Saved
<1> QED BY <1>2, <1>3, <1>4

RowLogs(i) == [i EXCEPT !.at = "rowLog", !.on = 1, !.logFailed = FALSE]

LEMMA ImportGoesByRow ==
    ASSUME NEW i \in Import, NEW j, j = RowLogs(i)
    PROVE  /\ j \in Import
           /\ j.at = "rowLog" /\ j.row = i.row /\ j.statusById = i.statusById
           /\ j.pending = i.pending /\ j.batch = i.batch /\ ~j.logFailed
           /\ j.on = 1 /\ j.saved = i.saved /\ j.failed = i.failed
PROOF
<1>2. /\ j.at = "rowLog" /\ j.row = i.row /\ j.statusById = i.statusById
      /\ j.pending = i.pending /\ j.batch = i.batch
      /\ j.on = 1 /\ j.saved = i.saved /\ j.failed = i.failed
  BY DEF Import, RowLogs
<1>3. j.logFailed = FALSE
  BY DEF Import, RowLogs
<1>4. j \in Import
  BY DEF Import, RowLogs
<1> QED BY <1>2, <1>3, <1>4

Ended(i) ==
    [i EXCEPT !.at = "none", !.pending = << >>, !.batch = << >>, !.on = 0,
              !.logFailed = FALSE, !.row = 0, !.saved = {}, !.failed = {}]

LEMMA ImportEnds ==
    ASSUME NEW i \in Import, NEW j, j = Ended(i)
    PROVE  /\ j \in Import
           /\ j.at = "none" /\ j.row = 0 /\ j.pending = << >> /\ j.batch = << >>
           /\ ~j.logFailed /\ j.on = 0 /\ j.saved = {} /\ j.failed = {}
PROOF
<1>1. << >> \in Seq(ImportRow) /\ {} \in SUBSET Nat
  OBVIOUS
<1>2. /\ j.at = "none" /\ j.row = 0 /\ j.pending = << >> /\ j.batch = << >>
      /\ j.on = 0 /\ j.saved = {} /\ j.failed = {}
  BY DEF Import, Ended
<1>3. j.logFailed = FALSE
  BY DEF Import, Ended
<1>4. j \in Import
  BY <1>1 DEF Import, Ended
<1> QED BY <1>2, <1>3, <1>4

LEMMA ImportClears ==
    ASSUME NEW i \in Import, NEW at \in ImportPlaces, NEW batch \in Seq(ImportRow), NEW on \in Nat,
           NEW logFailed \in BOOLEAN
    PROVE  [i EXCEPT !.at = at, !.batch = batch, !.on = on, !.logFailed = logFailed] \in Import
BY DEF Import, ImportPlaces

LEMMA ImportClearsFields ==
    ASSUME NEW k \in Import, NEW j,
           j = [k EXCEPT !.at = "rows", !.batch = << >>, !.on = 0, !.logFailed = FALSE]
    PROVE  /\ j \in Import
           /\ j.at = "rows" /\ j.row = k.row /\ j.statusById = k.statusById
           /\ j.pending = k.pending /\ j.batch = << >> /\ ~j.logFailed
           /\ j.on = 0 /\ j.saved = k.saved /\ j.failed = k.failed
PROOF
<1>1. << >> \in Seq(ImportRow) /\ "rows" \in ImportPlaces /\ FALSE \in BOOLEAN /\ 0 \in Nat
  BY DEF ImportPlaces
<1>2. /\ j.at = "rows" /\ j.row = k.row /\ j.statusById = k.statusById
      /\ j.pending = k.pending /\ j.batch = << >>
      /\ j.on = 0 /\ j.saved = k.saved /\ j.failed = k.failed
  BY DEF Import
<1>3. j.logFailed = FALSE
  BY DEF Import
<1>4. j \in Import
  BY <1>1, ImportClears
<1> QED BY <1>2, <1>3, <1>4

LEMMA ImportShifts ==
    ASSUME NEW i \in Import, NEW at \in ImportPlaces, NEW on \in Nat, NEW logFailed \in BOOLEAN
    PROVE  [i EXCEPT !.at = at, !.on = on, !.logFailed = logFailed] \in Import
BY DEF Import, ImportPlaces

LEMMA ImportShiftsFields ==
    ASSUME NEW k \in Import, k.on + 1 \in Nat, NEW j,
           j = [k EXCEPT !.at = "rowLog", !.on = k.on + 1, !.logFailed = FALSE]
    PROVE  /\ j \in Import
           /\ j.at = "rowLog" /\ j.row = k.row /\ j.statusById = k.statusById
           /\ j.pending = k.pending /\ j.batch = k.batch /\ ~j.logFailed
           /\ j.on = k.on + 1 /\ j.saved = k.saved /\ j.failed = k.failed
PROOF
<1>1. "rowLog" \in ImportPlaces /\ FALSE \in BOOLEAN
  BY DEF ImportPlaces
<1>2. /\ j.at = "rowLog" /\ j.row = k.row /\ j.statusById = k.statusById
      /\ j.pending = k.pending /\ j.batch = k.batch
      /\ j.on = k.on + 1 /\ j.saved = k.saved /\ j.failed = k.failed
  BY DEF Import
<1>3. j.logFailed = FALSE
  BY DEF Import
<1>4. j \in Import
  BY <1>1, ImportShifts
<1> QED BY <1>2, <1>3, <1>4

\* A row was written on its own, and was saved or has failed.
CountedOnce(i, k, saved, failed) ==
    \/ k = [i EXCEPT !.saved = saved] /\ failed = i.failed
    \/ k = [i EXCEPT !.failed = failed] /\ saved = i.saved

LEMMA ImportCounts ==
    ASSUME NEW i \in Import, NEW saved \in SUBSET Nat, NEW failed \in SUBSET Nat, NEW k,
           CountedOnce(i, k, saved, failed)
    PROVE  /\ k \in Import
           /\ k.row = i.row /\ k.statusById = i.statusById /\ k.pending = i.pending
           /\ k.batch = i.batch /\ k.on = i.on /\ k.saved = saved /\ k.failed = failed
PROOF
<1>1. CASE k = [i EXCEPT !.saved = saved] /\ failed = i.failed
  BY <1>1 DEF Import
<1>2. CASE k = [i EXCEPT !.failed = failed] /\ saved = i.saved
  BY <1>2 DEF Import
<1> QED BY <1>1, <1>2 DEF CountedOnce

LEMMA ImportGoesOn ==
    ASSUME NEW k \in Import, k.on + 1 \in Nat, NEW j, j = NextRow(k)
    PROVE  /\ j \in Import
           /\ j.row = k.row /\ j.statusById = k.statusById /\ j.pending = k.pending
           /\ ~j.logFailed /\ j.saved = k.saved /\ j.failed = k.failed
           /\ k.on = Len(k.batch) => j.at = "rows" /\ j.batch = << >> /\ j.on = 0
           /\ k.on # Len(k.batch) => j.at = "rowLog" /\ j.batch = k.batch /\ j.on = k.on + 1
PROOF
<1>1. CASE k.on = Len(k.batch)
  <2>1. j = [k EXCEPT !.at = "rows", !.batch = << >>, !.on = 0, !.logFailed = FALSE]
    BY <1>1 DEF NextRow
  <2>2. /\ j \in Import
        /\ j.at = "rows" /\ j.row = k.row /\ j.statusById = k.statusById
        /\ j.pending = k.pending /\ j.batch = << >> /\ ~j.logFailed
        /\ j.on = 0 /\ j.saved = k.saved /\ j.failed = k.failed
    BY <2>1, ImportClearsFields
  <2> QED BY <1>1, <2>2
<1>2. CASE k.on # Len(k.batch)
  <2>1. j = [k EXCEPT !.at = "rowLog", !.on = k.on + 1, !.logFailed = FALSE]
    BY <1>2 DEF NextRow
  <2>2. /\ j \in Import
        /\ j.at = "rowLog" /\ j.row = k.row /\ j.statusById = k.statusById
        /\ j.pending = k.pending /\ j.batch = k.batch /\ ~j.logFailed
        /\ j.on = k.on + 1 /\ j.saved = k.saved /\ j.failed = k.failed
    BY <2>1, ImportShiftsFields
  <2> QED BY <1>2, <2>2
<1> QED BY <1>1, <1>2

LEMMA ImportInitInv ==
    ImportInit => ImportInv
PROOF
<1> SUFFICES ASSUME ImportInit PROVE ImportInv
  OBVIOUS
<1> USE TaskImportAssumption
<1>1. PICK done \in SUBSET Tasks :
         /\ importLogs = {[id |-> << 0, 0 >>, task |-> t] : t \in done}
         /\ statuses = [t \in Tasks |-> IF t \in done THEN << 0, 0 >> ELSE NoImportLog]
  BY DEF ImportInit
<1>2. << 0, 0 >> \in ImportLogIds
  BY DEF ImportLogIds
<1>3. << 0, 0 >> # NoImportLog /\ << 0, 0 >>[1] = 0
  OBVIOUS
<1>4. statuses \in [Tasks -> ImportLogIds \cup {NoImportLog}]
  BY <1>1, <1>2
<1>5. import \in Import
  BY <1>4 DEF ImportInit, Import
<1>6. ImportTypeOK
  <2>1. importLogs \subseteq [id : ImportLogIds, task : Tasks]
    BY <1>1, <1>2
  <2>2. imports \in 0..MaxImports /\ writeErrors \in 0..MaxWriteErrors /\ file \in Files
    BY DEF ImportInit
  <2> QED BY <1>4, <1>5, <2>1, <2>2 DEF ImportTypeOK
<1>7. ImportPlaced /\ RowsCounted /\ EntriesHold /\ SavedHold
  BY DEF ImportInit, ImportPlaced, RowsCounted, EntriesHold, SavedHold, Underway, RowsIn,
         LeftRows, RowsDiffer
<1>8. ~Underway /\ imports = 0
  BY DEF ImportInit, Underway
<1>9. \A t \in Tasks : \A x \in LogsFor(t) : x = << 0, 0 >> /\ statuses[t] = x
  BY <1>1, <1>8 DEF LogsFor
<1>10. OneLogEach
  BY <1>1, <1>3, <1>8, <1>9 DEF OneLogEach
<1> QED BY <1>6, <1>7, <1>10 DEF ImportInv

-------------------------------------------------------------------------------
(* The collecting of rows. *)

\* What stays when only the place of the import changes.
LEMMA StartImportInv ==
    ASSUME ImportInv, StartImport
    PROVE  ImportInv'
PROOF
<1>1. /\ ImportTypeOK /\ ImportPlaced /\ OneLogEach
      /\ import.at = "none" /\ imports \in Nat /\ imports' = imports + 1
      /\ imports < MaxImports
      /\ UNCHANGED << file, importLogs, statuses, writeErrors >>
  BY ImportTypes DEF ImportInv, StartImport
<1>2. /\ import.saved = {} /\ import.failed = {} /\ import.pending = << >>
      /\ import.batch = << >> /\ import.on = 0 /\ ~import.logFailed
  BY <1>1 DEF ImportPlaced
<1>3. /\ import'.at = "rows" /\ import'.row = 1 /\ import'.statusById = statuses
      /\ import'.saved = {} /\ import'.failed = {} /\ import'.pending = << >>
      /\ import'.batch = << >> /\ import'.on = 0 /\ ~import'.logFailed
      /\ import' \in Import
  BY <1>1, <1>2, TaskImportAssumption DEF StartImport, ImportTypeOK, Import
<1>4. ImportTypeOK'
  BY <1>1, <1>3, TaskImportAssumption DEF ImportTypeOK
<1>5. ImportPlaced'
  BY <1>1, <1>3, ImportTypes DEF ImportPlaced, Underway
<1>6. RowsCounted' /\ EntriesHold' /\ SavedHold'
  BY <1>1, <1>3 DEF RowsCounted, Passed, EntriesHold, SavedHold, Underway, RowsIn, LeftRows,
                       RowsDiffer
<1>7. \A t \in Tasks : LogsFor(t)' = LogsFor(t)
  BY <1>1, <1>3 DEF LogsFor, Underway
<1>8. \A k \in importLogs : k.id \in LogsFor(k.task) /\ k.task \in Tasks
  BY <1>1 DEF LogsFor, ImportTypeOK
<1>9. \A t \in Tasks : \A x \in LogsFor(t) : x[1] \in Nat
  BY <1>1 DEF LogsFor, ImportTypeOK, ImportLogIds, Underway
<1>10. \A k \in importLogs : k.id[1] # imports'
  BY <1>1, <1>8, <1>9 DEF OneLogEach
<1>11. OneLogEach'
  BY <1>1, <1>3, <1>7, <1>9, <1>10 DEF OneLogEach, Underway
<1> QED BY <1>4, <1>5, <1>6, <1>11 DEF ImportInv

LEMMA SkipRowInv ==
    ASSUME ImportInv, SkipRow
    PROVE  ImportInv'
PROOF
<1>1. /\ ImportTypeOK /\ import.at = "rows" /\ import.row \in 1..Len(file)
      /\ file[import.row] = Blank /\ Len(file) \in Nat /\ imports # 0
      /\ import.batch = << >> /\ import.on = 0 /\ ~import.logFailed
      /\ UNCHANGED << file, importLogs, statuses, imports, writeErrors >>
  BY ImportTypes DEF ImportInv, ImportPlaced, Underway, SkipRow
<1>2. /\ import' \in Import /\ import'.at = "rows" /\ import'.row = import.row + 1
      /\ import'.failed = import.failed
      /\ import'.statusById = import.statusById /\ import'.saved = import.saved
      /\ import'.pending = import.pending /\ import'.batch = << >> /\ import'.on = 0
      /\ ~import'.logFailed
  <2>1. import \in Import /\ import.row + 1 \in Nat /\ import.failed \in SUBSET Nat
    BY <1>1, ImportTypes DEF ImportTypeOK
  <2>2. import' = [import EXCEPT !.row = import.row + 1, !.failed = import.failed]
    BY <2>1 DEF SkipRow, Import
  <2>3. import' \in Import
    BY <2>1, <2>2, ImportRejects
  <2>4. /\ import'.at = import.at /\ import'.row = import.row + 1
        /\ import'.statusById = import.statusById /\ import'.pending = import.pending
        /\ import'.batch = import.batch /\ import'.logFailed = import.logFailed
        /\ import'.on = import.on /\ import'.saved = import.saved
        /\ import'.failed = import.failed
    BY <2>1, <2>2 DEF Import
  <2> QED BY <1>1, <2>3, <2>4
<1>3. ImportTypeOK' /\ ImportPlaced'
  BY <1>1, <1>2, ImportTypes DEF ImportTypeOK, ImportPlaced, Underway
<1>4. RowsIn(import'.pending) = RowsIn(import.pending) /\ LeftRows = {} /\ LeftRows' = {}
      /\ RowsIn(import'.batch) = {}
  BY <1>1, <1>2 DEF RowsIn, LeftRows
<1>5. RowsCounted'
  <2>1. Passed' = Passed
    BY <1>1, <1>2 DEF Passed
  <2> QED BY <1>1, <1>2, <1>4, <2>1 DEF ImportInv, RowsCounted, Underway
<1>6. EntriesHold'
  BY <1>1, <1>2, ImportTypes DEF ImportInv, EntriesHold, EntryHolds
<1>7. SavedHold'
  BY <1>1, <1>2 DEF ImportInv, SavedHold
<1>8. \A t \in Tasks : LogsFor(t)' = LogsFor(t)
  BY <1>1, <1>2 DEF LogsFor, Underway
<1>9. OneLogEach'
  BY <1>1, <1>2, <1>8 DEF ImportInv, OneLogEach, Underway
<1> QED BY <1>3, <1>5, <1>6, <1>7, <1>9 DEF ImportInv

LEMMA RejectRowInv ==
    ASSUME ImportInv, RejectRow
    PROVE  ImportInv'
PROOF
<1>1. /\ ImportTypeOK /\ import.at = "rows" /\ import.row \in 1..Len(file)
      /\ file[import.row] = Invalid /\ Len(file) \in Nat /\ imports # 0
      /\ import.batch = << >> /\ import.on = 0 /\ ~import.logFailed
      /\ UNCHANGED << file, importLogs, statuses, imports, writeErrors >>
  BY ImportTypes DEF ImportInv, ImportPlaced, Underway, RejectRow
<1>2. /\ import' \in Import /\ import'.at = "rows" /\ import'.row = import.row + 1
      /\ import'.failed = import.failed \cup {import.row}
      /\ import'.statusById = import.statusById /\ import'.saved = import.saved
      /\ import'.pending = import.pending /\ import'.batch = << >> /\ import'.on = 0
      /\ ~import'.logFailed
  <2>1. /\ import \in Import /\ import.row + 1 \in Nat
        /\ import.failed \cup {import.row} \in SUBSET Nat
    BY <1>1, ImportTypes DEF ImportTypeOK
  <2>2. import' = [import EXCEPT !.row = import.row + 1,
                                !.failed = import.failed \cup {import.row}]
    BY DEF RejectRow
  <2>4. import \in Import
    BY <2>1
  <2>5. import' \in Import
    BY <2>1, <2>2, ImportRejects
  <2>3. /\ import'.at = import.at /\ import'.row = import.row + 1
        /\ import'.statusById = import.statusById /\ import'.pending = import.pending
        /\ import'.batch = import.batch /\ import'.logFailed = import.logFailed
        /\ import'.on = import.on /\ import'.saved = import.saved
        /\ import'.failed = import.failed \cup {import.row}
    BY <2>4, <2>2 DEF Import
  <2> QED BY <1>1, <2>3, <2>5
<1>3. ImportTypeOK' /\ ImportPlaced'
  BY <1>1, <1>2, ImportTypes DEF ImportTypeOK, ImportPlaced, Underway
<1>4. RowsIn(import'.pending) = RowsIn(import.pending) /\ LeftRows = {} /\ LeftRows' = {}
      /\ RowsIn(import'.batch) = {}
  BY <1>1, <1>2 DEF RowsIn, LeftRows
<1>5. RowsCounted'
  <2>1. Passed' = Passed \cup {import.row}
    BY <1>1, <1>2, TaskImportAssumption DEF Passed
  <2>2. import.row \notin Passed
    BY <1>1 DEF Passed
  <2> QED BY <1>1, <1>2, <1>4, <2>1, <2>2 DEF ImportInv, RowsCounted, Underway
<1>6. EntriesHold'
  BY <1>1, <1>2, ImportTypes DEF ImportInv, EntriesHold, EntryHolds
<1>7. SavedHold'
  BY <1>1, <1>2 DEF ImportInv, SavedHold
<1>8. \A t \in Tasks : LogsFor(t)' = LogsFor(t)
  BY <1>1, <1>2 DEF LogsFor, Underway
<1>9. OneLogEach'
  BY <1>1, <1>2, <1>8 DEF ImportInv, OneLogEach, Underway
<1> QED BY <1>3, <1>5, <1>6, <1>7, <1>9 DEF ImportInv

LEMMA CollectRowInv ==
    ASSUME ImportInv, CollectRow
    PROVE  ImportInv'
PROOF
<1>1. /\ ImportTypeOK /\ import.at = "rows" /\ import.row \in 1..Len(file)
      /\ file[import.row] \notin {Invalid, Blank} /\ Len(file) \in Nat /\ imports # 0
      /\ import.batch = << >> /\ import.on = 0 /\ ~import.logFailed
      /\ UNCHANGED << file, importLogs, statuses, imports, writeErrors >>
  BY ImportTypes DEF ImportInv, ImportPlaced, Underway, CollectRow
<1>01. PICK t : t = file[import.row]
  OBVIOUS
<1>2. /\ import \in Import /\ import.row + 1 \in Nat /\ import.row \in Nat
      /\ import.pending \in Seq(ImportRow)
      /\ import.statusById \in [Tasks -> ImportLogIds \cup {NoImportLog}]
      /\ imports \in 0..MaxImports
      /\ t \in Tasks
  <2>1. t \in Tasks \cup {Invalid, Blank}
    BY <1>1, <1>01, ImportTypes
  <2> QED BY <1>1, <1>01, <2>1, ImportTypes DEF ImportTypeOK
<1>02. PICK l : l = LogOf(t)
  OBVIOUS
<1>3. l \in ImportLogIds
  BY <1>2, <1>02 DEF LogOf, ImportLogIds
<1>03. PICK e : e = [row |-> import.row, task |-> t, log |-> l]
  OBVIOUS
<1>4. /\ e \in ImportRow /\ Append(import.pending, e) \in Seq(ImportRow)
      /\ e.row = import.row /\ e.task = t /\ e.log = l
  BY <1>2, <1>3, <1>03 DEF ImportRow
<1>04. PICK logs : logs = [import.statusById EXCEPT ![t] = l]
  OBVIOUS
<1>5. /\ logs \in [Tasks -> ImportLogIds \cup {NoImportLog}] /\ logs[t] = l
      /\ \A u \in Tasks : logs[u] = import.statusById[u]
                            \/ (u = t /\ import.statusById[u] = NoImportLog)
  BY <1>2, <1>3, <1>02, <1>04 DEF LogOf
<1>05. PICK longer : longer = Append(import.pending, e)
  OBVIOUS
<1>6. import' = [import EXCEPT !.row = import.row + 1, !.statusById = logs,
                              !.pending = longer]
  BY <1>01, <1>02, <1>03, <1>04, <1>05 DEF CollectRow
<1>7. /\ longer \in Seq(ImportRow) /\ Len(longer) = Len(import.pending) + 1
      /\ \A i \in DOMAIN import.pending : i \in DOMAIN longer /\ longer[i] = import.pending[i]
      /\ Len(import.pending) + 1 \in DOMAIN longer /\ longer[Len(import.pending) + 1] = e
      /\ \A i \in DOMAIN longer : i \in DOMAIN import.pending \/ longer[i] = e
  BY <1>2, <1>4, <1>05
<1>8. /\ import' \in Import /\ import'.at = "rows" /\ import'.row = import.row + 1
      /\ import'.statusById = logs /\ import'.pending = longer
      /\ import'.batch = import.batch /\ import'.on = import.on
      /\ import'.logFailed = import.logFailed
      /\ import'.saved = import.saved /\ import'.failed = import.failed
  <2>3. /\ import \in Import /\ import.row + 1 \in Nat /\ longer \in Seq(ImportRow)
        /\ logs \in [Tasks -> ImportLogIds \cup {NoImportLog}]
    BY <1>2, <1>5, <1>7
  <2>2. import' \in Import
    BY <1>6, <2>3, ImportCollected
  <2>4. /\ import'.row = import.row + 1 /\ import'.at = import.at
        /\ import'.statusById = logs /\ import'.pending = longer
        /\ import'.batch = import.batch /\ import'.on = import.on
        /\ import'.logFailed = import.logFailed
        /\ import'.saved = import.saved /\ import'.failed = import.failed
    BY <1>6, <2>3 DEF Import
  <2> QED BY <1>1, <2>2, <2>4
<1>9. ImportTypeOK' /\ ImportPlaced'
  BY <1>1, <1>2, <1>8 DEF ImportTypeOK, ImportPlaced, Underway
<1>10. \A i \in DOMAIN import.pending : /\ EntryHolds(import.pending[i])
                                          /\ import.pending[i] \in ImportRow
                                          /\ import.pending[i].row # import.row
  <2>1. \A i \in DOMAIN import.pending : /\ EntryHolds(import.pending[i])
                                          /\ import.pending[i] \in ImportRow
    BY <1>2 DEF ImportInv, EntriesHold
  <2>2. \A i \in DOMAIN import.pending : /\ import.pending[i].row \in Nat
                                          /\ import.pending[i].row < import.row
    BY <2>1 DEF EntryHolds, ImportRow
  <2> QED BY <1>2, <2>1, <2>2
<1>11. RowsCounted'
  <2>1. Passed' = Passed \cup {import.row}
    BY <1>1, <1>8 DEF Passed
  <2>2. import.row \notin Passed
    BY <1>1 DEF Passed
  <2>3. RowsIn(longer) = RowsIn(import.pending) \cup {import.row}
    BY <1>4, <1>7 DEF RowsIn
  <2>4. LeftRows = {} /\ LeftRows' = {} /\ RowsIn(import'.batch) = {}
    BY <1>1, <1>8 DEF RowsIn, LeftRows
  <2>5. RowsDiffer(longer)
    <3> SUFFICES ASSUME NEW i \in DOMAIN longer, NEW j \in DOMAIN longer,
                        longer[i].row = longer[j].row
                 PROVE  i = j
      BY DEF RowsDiffer
    <3>1. \A k \in DOMAIN longer : k \in DOMAIN import.pending
                                     \/ k = Len(import.pending) + 1
      BY <1>2, <1>7
    <3> QED BY <1>4, <1>7, <1>10, <3>1 DEF ImportInv, RowsCounted, RowsDiffer
  <2> QED BY <1>1, <1>8, <2>1, <2>2, <2>3, <2>4, <2>5 DEF ImportInv, RowsCounted, Underway, RowsDiffer
<1>12. \A i \in DOMAIN longer : EntryHolds(longer[i])'
  <2> SUFFICES ASSUME NEW i \in DOMAIN longer PROVE EntryHolds(longer[i])'
    OBVIOUS
  <2>1. CASE i \in DOMAIN import.pending
    <3>1. /\ longer[i] = import.pending[i] /\ EntryHolds(import.pending[i])
          /\ longer[i].task \in Tasks /\ longer[i].log \in ImportLogIds
          /\ longer[i].row \in Nat
      BY <1>7, <1>10, <2>1 DEF ImportRow
    <3>2. longer[i].log # NoImportLog
      BY <3>1, TaskImportAssumption DEF ImportLogIds
    <3>3. logs[longer[i].task] = import.statusById[longer[i].task]
      BY <1>5, <3>1, <3>2 DEF EntryHolds
    <3> QED BY <1>1, <1>2, <1>8, <3>1, <3>3 DEF EntryHolds
  <2>2. CASE longer[i] = e
    BY <1>01, <1>1, <1>2, <1>4, <1>5, <1>8, <2>2 DEF EntryHolds
  <2> QED BY <1>7, <2>1, <2>2
<1>13. EntriesHold'
  BY <1>1, <1>8, <1>12 DEF EntriesHold
<1>14. SavedHold'
  <2> SUFFICES ASSUME NEW r \in import.saved
               PROVE  /\ r \in DOMAIN file /\ file[r] \in Tasks
                      /\ statuses[file[r]] = logs[file[r]]
                      /\ [id |-> statuses[file[r]], task |-> file[r]] \in importLogs
    BY <1>1, <1>8 DEF SavedHold
  <2>1. /\ r \in DOMAIN file /\ file[r] \in Tasks
        /\ statuses[file[r]] = import.statusById[file[r]]
        /\ [id |-> statuses[file[r]], task |-> file[r]] \in importLogs
    BY DEF ImportInv, SavedHold
  <2>2. statuses[file[r]] \in ImportLogIds
    BY <1>1, <2>1 DEF ImportTypeOK
  <2>3. statuses[file[r]] # NoImportLog
    BY <2>2, TaskImportAssumption DEF ImportLogIds
  <2> QED BY <1>5, <2>1, <2>3
<1>15. OneLogEach'
  <2>1. \A u \in Tasks : LogsFor(u)' = LogsFor(u) \/ (u = t /\ LogsFor(u)' = LogsFor(u) \cup {l})
    BY <1>1, <1>3, <1>5, <1>8, TaskImportAssumption DEF LogsFor, Underway, ImportLogIds
  <2>2. CASE import.statusById[t] # NoImportLog
    <3>1. logs = import.statusById
      BY <1>2, <1>5, <2>2
    <3>2. \A u \in Tasks : LogsFor(u)' = LogsFor(u)
      BY <1>1, <1>8, <3>1 DEF LogsFor, Underway
    <3> QED BY <1>1, <1>8, <3>1, <3>2 DEF ImportInv, OneLogEach, Underway
  <2>3. CASE import.statusById[t] = NoImportLog
    <3>1. l = << imports, import.row >> /\ l[1] = imports
      BY <1>02, <2>3 DEF LogOf
    <3>2. statuses[t] = NoImportLog
      BY <1>1, <1>2, <2>3 DEF ImportInv, OneLogEach, Underway
    <3>3. \A x \in LogsFor(t) : \E k \in importLogs : k.task = t /\ k.id = x
      BY <2>3, <3>2 DEF LogsFor
    <3>4. imports # 0 /\ \A x \in LogsFor(t) : x[1] # 0 /\ x[1] # imports
      <4>1. imports # 0
        BY <1>1 DEF ImportInv, ImportPlaced, Underway
      <4>2. \A k \in importLogs : k.id # NoImportLog
        BY <1>1, TaskImportAssumption DEF ImportTypeOK, ImportLogIds
      <4>4. \A k \in importLogs : k.task = t => k.id \in LogsFor(t)
        BY DEF LogsFor
      <4>3. \A k \in importLogs : k.task = t => k.id[1] # 0 /\ k.id[1] # imports
        BY <1>1, <1>2, <2>3, <3>2, <4>2, <4>4 DEF ImportInv, OneLogEach, Underway
      <4> QED BY <3>3, <4>1, <4>3
    <3>5. \A u \in Tasks : u # t => LogsFor(u)' = LogsFor(u)
      BY <2>1
    <3>6. LogsFor(t)' \subseteq LogsFor(t) \cup {l}
      BY <1>2, <2>1
    <3>11. \A u \in Tasks : \A x \in LogsFor(u)' : x[1] = 0 => statuses[u] # NoImportLog
      <4>1. \A x \in LogsFor(t)' : x[1] = 0 => statuses[t] # NoImportLog
        BY <1>2, <3>1, <3>4, <3>6
      <4> QED BY <3>5, <4>1 DEF ImportInv, OneLogEach
    <3>7. \A u \in Tasks : \A x, y \in LogsFor(u)' : x[1] \in {0, y[1]} => x = y
      <4>1. \A x, y \in LogsFor(t)' : x[1] \in {0, y[1]} => x = y
        BY <1>2, <3>1, <3>4, <3>6 DEF ImportInv, OneLogEach
      <4> QED BY <1>2, <3>5, <4>1 DEF ImportInv, OneLogEach
    <3>8. \A u \in Tasks : \A x \in LogsFor(u)' : x[1] <= imports
      <4>1. \A x \in LogsFor(t)' : x[1] <= imports
        BY <1>2, <3>1, <3>6 DEF ImportInv, OneLogEach
      <4> QED BY <3>5, <4>1 DEF ImportInv, OneLogEach
    <3>9. \A u \in Tasks : logs[u] = NoImportLog => statuses[u] = NoImportLog
      BY <1>1, <1>3, <1>5, TaskImportAssumption DEF ImportInv, OneLogEach, Underway, ImportLogIds
    <3>10. \A k \in importLogs : k.id[1] = imports => logs[k.task] = k.id
      <4> SUFFICES ASSUME NEW k \in importLogs, k.id[1] = imports PROVE logs[k.task] = k.id
        OBVIOUS
      <4>1. k.task \in Tasks /\ k.id \in LogsFor(k.task)
        BY <1>1 DEF ImportTypeOK, LogsFor
      <4>2. k.task # t
        BY <3>4, <4>1
      <4>3. import.statusById[k.task] = k.id
        BY <1>1 DEF ImportInv, OneLogEach, Underway
      <4> QED BY <1>5, <4>1, <4>2, <4>3
    <3> QED BY <1>1, <1>8, <3>7, <3>8, <3>9, <3>10, <3>11 DEF ImportInv, OneLogEach, Underway
  <2> QED BY <2>2, <2>3
<1> QED BY <1>9, <1>11, <1>13, <1>14, <1>15 DEF ImportInv

\* The batch and what stays behind are the two parts of the rows collected.
Parts(s, n, a, b) ==
    /\ a \in Seq(ImportRow) /\ b \in Seq(ImportRow) /\ a # << >>
    /\ \A i \in DOMAIN a : i \in DOMAIN s /\ i <= n /\ i \in Nat /\ a[i] = s[i]
    /\ \A i \in DOMAIN b : i + n \in DOMAIN s /\ i \in Nat \ {0} /\ b[i] = s[i + n]
    /\ RowsIn(s) = RowsIn(a) \cup RowsIn(b)
    /\ RowsDiffer(s) => /\ RowsDiffer(a) /\ RowsDiffer(b)
                        /\ RowsIn(a) \cap RowsIn(b) = {}

LEMMA BatchSplits ==
    ASSUME NEW s \in Seq(ImportRow), NEW n \in 1..Len(s)
    PROVE  Parts(s, n, SubSeq(s, 1, n), SubSeq(s, n + 1, Len(s)))
PROOF
<1>01. PICK a : a = SubSeq(s, 1, n)
  OBVIOUS
<1>02. PICK b : b = SubSeq(s, n + 1, Len(s))
  OBVIOUS
<1>0. Len(s) \in Nat /\ n \in Nat /\ n >= 1 /\ n <= Len(s) /\ DOMAIN s = 1..Len(s)
  OBVIOUS
<1>1. /\ a \in Seq(ImportRow) /\ Len(a) = n /\ DOMAIN a = 1..n
      /\ \A i \in 1..n : i \in DOMAIN s /\ a[i] = s[i]
  BY <1>01
<1>2. /\ b \in Seq(ImportRow) /\ Len(b) = Len(s) - n /\ DOMAIN b = 1..Len(s) - n
      /\ \A i \in 1..Len(s) - n : i + n \in DOMAIN s /\ b[i] = s[i + n]
  BY <1>02
<1>3. \A i \in DOMAIN s : i \in DOMAIN a \/ (i - n \in DOMAIN b /\ i = (i - n) + n)
  BY <1>0, <1>1, <1>2
<1>4. RowsIn(s) = RowsIn(a) \cup RowsIn(b)
  <2>1. ASSUME NEW i \in DOMAIN s PROVE s[i].row \in RowsIn(a) \cup RowsIn(b)
    <3>1. CASE i \in DOMAIN a
      <4>1. a[i] = s[i]
        BY <1>1, <3>1
      <4> QED BY <3>1, <4>1 DEF RowsIn
    <3>2. CASE i - n \in DOMAIN b
      <4>1. PICK m \in DOMAIN b : m + n = i
        BY <1>0, <3>2
      <4>2. b[m] = s[m + n]
        BY <1>2
      <4>3. b[m] = s[i]
        BY <4>1, <4>2
      <4> QED BY <4>3 DEF RowsIn
    <3> QED BY <1>3, <3>1, <3>2
  <2>2. \A i \in DOMAIN a : i \in DOMAIN s /\ a[i] = s[i]
    BY <1>1
  <2>3. RowsIn(a) \subseteq RowsIn(s)
    BY <2>2, Zenon DEF RowsIn
  <2>4. \A i \in DOMAIN b : i + n \in DOMAIN s /\ b[i] = s[i + n]
    BY <1>2
  <2>5. RowsIn(b) \subseteq RowsIn(s)
    BY <2>4, Zenon DEF RowsIn
  <2>6. RowsIn(s) \subseteq RowsIn(a) \cup RowsIn(b)
    BY <2>1 DEF RowsIn
  <2> QED BY <2>3, <2>5, <2>6
<1>5. ASSUME RowsDiffer(s)
      PROVE  RowsDiffer(a) /\ RowsDiffer(b) /\ RowsIn(a) \cap RowsIn(b) = {}
  <2>1. RowsDiffer(a)
    BY <1>1, <1>5 DEF RowsDiffer
  <2>2. \A i, j \in DOMAIN b : b[i].row = b[j].row => i + n = j + n
    BY <1>2, <1>5 DEF RowsDiffer
  <2>6. \A i, j \in DOMAIN b : i + n = j + n => i = j
    BY <1>0, <1>2
  <2>3. RowsDiffer(b)
    BY <2>2, <2>6 DEF RowsDiffer
  <2>4. \A i \in DOMAIN a, j \in DOMAIN b : i # j + n
    BY <1>1, <1>2
  <2>5. ASSUME NEW i \in DOMAIN a, NEW j \in DOMAIN b
        PROVE  a[i].row # b[j].row
    <3>1. i \in DOMAIN s /\ a[i] = s[i]
      BY <1>1
    <3>2. j + n \in DOMAIN s /\ b[j] = s[j + n]
      BY <1>2
    <3>3. i # j + n
      BY <2>4
    <3>4. s[i].row # s[j + n].row
      BY <1>5, <3>1, <3>2, <3>3 DEF RowsDiffer
    <3> QED BY <3>1, <3>2, <3>4
  <2> QED BY <2>1, <2>3, <2>5 DEF RowsIn
<1>6. \A i \in DOMAIN a : i \in DOMAIN s /\ i <= n /\ i \in Nat /\ a[i] = s[i]
  BY <1>0, <1>1
<1>7. \A i \in DOMAIN b : i + n \in DOMAIN s /\ i \in Nat \ {0} /\ b[i] = s[i + n]
  BY <1>0, <1>2
<1>8. a # << >>
  BY <1>0, <1>1
<1> QED BY <1>01, <1>02, <1>1, <1>2, <1>4, <1>5, <1>6, <1>7, <1>8 DEF Parts

\* What the calls that write have in common: they write the logs and statuses that the
\* import took them to have.
WritesTaken ==
    /\ file' = file /\ imports' = imports
    /\ import'.statusById = import.statusById /\ import'.row = import.row
    /\ Underway /\ Underway'
    /\ importLogs \subseteq importLogs'
    /\ \A k \in importLogs' :
          \/ k \in importLogs
          \/ k.task \in Tasks /\ k.id = import.statusById[k.task] /\ k.id # NoImportLog
    /\ \A t \in Tasks :
          \/ statuses'[t] = statuses[t]
          \/ statuses'[t] = import.statusById[t] /\ statuses'[t] # NoImportLog

LEMMA WritesKeep ==
    ASSUME ImportInv, WritesTaken
    PROVE  /\ OneLogEach'
           /\ \A r \in import.saved :
                 /\ r \in DOMAIN file /\ file[r] \in Tasks
                 /\ statuses'[file[r]] = import.statusById[file[r]]
                 /\ [id |-> statuses'[file[r]], task |-> file[r]] \in importLogs'
           /\ \A e : EntryHolds(e) => EntryHolds(e)'
PROOF
<1>1. \A t \in Tasks : LogsFor(t)' \subseteq LogsFor(t)
  <2> SUFFICES ASSUME NEW t \in Tasks, NEW x \in LogsFor(t)' PROVE x \in LogsFor(t)
    OBVIOUS
  <2>1. CASE \E k \in importLogs' : k.task = t /\ k.id = x
    BY <2>1 DEF WritesTaken, LogsFor
  <2>2. CASE x = statuses'[t] /\ x # NoImportLog
    BY <2>2 DEF WritesTaken, LogsFor
  <2>3. CASE x = import'.statusById[t] /\ x # NoImportLog
    BY <2>3 DEF WritesTaken, LogsFor
  <2> QED BY <2>1, <2>2, <2>3 DEF LogsFor
<1>2. \A t \in Tasks : statuses[t] # NoImportLog => statuses'[t] # NoImportLog
  BY DEF WritesTaken
<1>3. OneLogEach'
  <2>1. \A t \in Tasks : \A x, y \in LogsFor(t)' : x[1] \in {0, y[1]} => x = y
    BY <1>1 DEF ImportInv, OneLogEach
  <2>2. \A t \in Tasks : \A x \in LogsFor(t)' :
           x[1] <= imports' /\ (x[1] = 0 => statuses'[t] # NoImportLog)
    BY <1>1, <1>2 DEF ImportInv, OneLogEach, WritesTaken
  <2>3. \A t \in Tasks : import'.statusById[t] = NoImportLog => statuses'[t] = NoImportLog
    BY DEF ImportInv, OneLogEach, WritesTaken
  <2>4. \A k \in importLogs' : k.id[1] = imports' => import'.statusById[k.task] = k.id
    BY DEF ImportInv, OneLogEach, WritesTaken
  <2> QED BY <2>1, <2>2, <2>3, <2>4 DEF OneLogEach
<1>4. \A r \in import.saved :
         /\ r \in DOMAIN file /\ file[r] \in Tasks
         /\ statuses'[file[r]] = import.statusById[file[r]]
         /\ [id |-> statuses'[file[r]], task |-> file[r]] \in importLogs'
  BY DEF ImportInv, SavedHold, WritesTaken
<1>5. \A e : EntryHolds(e) => EntryHolds(e)'
  BY DEF EntryHolds, WritesTaken
<1> QED BY <1>3, <1>4, <1>5

LEMMA FlushBatchInv ==
    ASSUME ImportInv, FlushBatch
    PROVE  ImportInv'
PROOF
<1>1. /\ ImportTypeOK /\ import.at = "rows" /\ import.row \in 1..Len(file) + 1
      /\ imports # 0 /\ Len(file) \in Nat
      /\ import.batch = << >> /\ import.on = 0 /\ ~import.logFailed
      /\ import.pending \in Seq(ImportRow) /\ import \in Import
      /\ UNCHANGED << file, importLogs, statuses, imports, writeErrors >>
  BY ImportTypes DEF ImportInv, ImportPlaced, Underway, FlushBatch, ImportTypeOK
<1>2. PICK n : n = Due
  OBVIOUS
<1>3. n \in 1..Len(import.pending)
  <2>1. Len(import.pending) \in Nat /\ FlushEvery \in Nat \ {0} /\ Due > 0
    BY <1>1, TaskImportAssumption DEF FlushBatch
  <2> QED BY <1>2, <2>1 DEF Due
<1>4. PICK a : a = SubSeq(import.pending, 1, n)
  OBVIOUS
<1>5. PICK b : b = SubSeq(import.pending, n + 1, Len(import.pending))
  OBVIOUS
<1>6. Parts(import.pending, n, a, b)
  <2>1. import.pending \in Seq(ImportRow)
    BY <1>1
  <2> QED BY <1>3, <1>4, <1>5, <2>1, BatchSplits
<1>7. import' = [import EXCEPT !.at = "logs", !.batch = a, !.pending = b]
  BY <1>2, <1>4, <1>5 DEF FlushBatch
<1>8. import' \in Import
  <2>1. import \in Import /\ a \in Seq(ImportRow) /\ b \in Seq(ImportRow)
    BY <1>1, <1>6 DEF Parts
  <2> QED BY <1>7, <2>1, ImportFlushes
<1>9. /\ import'.at = "logs" /\ import'.row = import.row
      /\ import'.statusById = import.statusById
      /\ import'.pending = b /\ import'.batch = a /\ import'.logFailed = import.logFailed
      /\ import'.on = import.on /\ import'.saved = import.saved
      /\ import'.failed = import.failed
  <2>1. import \in Import
    BY <1>1
  <2> QED BY <1>7, <2>1 DEF Import
<1>10. ImportTypeOK' /\ ImportPlaced'
  <2>1. ImportTypeOK'
    BY <1>1, <1>8 DEF ImportTypeOK
  <2>2. ImportPlaced'
    BY <1>1, <1>6, <1>9 DEF ImportPlaced, Underway, Parts
  <2> QED BY <2>1, <2>2
<1>11. WritesTaken
  BY <1>1, <1>9 DEF WritesTaken, Underway
<1>12. LeftRows = {} /\ LeftRows' = RowsIn(a)
  <2>1. LeftRows = {}
    BY <1>1 DEF LeftRows
  <2>2. \A j \in DOMAIN a : j >= 0
    BY <1>6 DEF Parts
  <2>3. LeftRows' = {a[i].row : i \in {j \in DOMAIN a : j >= 0}}
    BY <1>1, <1>9 DEF LeftRows
  <2>4. {j \in DOMAIN a : j >= 0} = DOMAIN a
    BY <2>2
  <2> QED BY <2>1, <2>3, <2>4 DEF RowsIn
<1>13. RowsCounted'
  <2>1. RowsCounted /\ Underway
    BY <1>1 DEF ImportInv, Underway
  <2>2. RowsIn(import'.pending) = RowsIn(b) /\ RowsIn(import'.batch) = RowsIn(a)
        /\ RowsDiffer(import'.pending) = RowsDiffer(b)
        /\ RowsDiffer(import'.batch) = RowsDiffer(a)
    BY <1>9
  <2> HIDE DEF Due
  <2>4. file' = file /\ import'.row = import.row
    BY <1>9 DEF FlushBatch
  <2>3. Passed' = Passed
    BY <2>4 DEF Passed
  <2> QED BY <1>6, <1>9, <1>12, <2>1, <2>2, <2>3 DEF RowsCounted, Parts
<1>14. EntriesHold'
  <2>1. \A i \in DOMAIN import.pending : EntryHolds(import.pending[i])
    BY DEF ImportInv, EntriesHold
  <2>2. \A i \in DOMAIN a : EntryHolds(a[i])
    BY <1>6, <2>1 DEF Parts
  <2>3. \A i \in DOMAIN b : EntryHolds(b[i])
    BY <1>6, <2>1 DEF Parts
  <2>4. \A e : EntryHolds(e) => EntryHolds(e)'
    BY <1>11, WritesKeep
  <2>5. (\A i \in DOMAIN a : EntryHolds(a[i])') /\ (\A i \in DOMAIN b : EntryHolds(b[i])')
    BY <2>2, <2>3, <2>4
  <2> QED BY <1>9, <2>5 DEF EntriesHold, EntryHolds
<1>15. SavedHold' /\ OneLogEach'
  BY <1>9, <1>11, <1>1, WritesKeep DEF SavedHold
<1> QED BY <1>10, <1>13, <1>14, <1>15 DEF ImportInv

-------------------------------------------------------------------------------
(* The writing of a batch. *)

LEMMA BatchHolds ==
    ASSUME ImportInv
    PROVE  \A e \in BatchEntries :
              /\ e \in ImportRow /\ e.task \in Tasks /\ e.log \in ImportLogIds
              /\ EntryHolds(e) /\ e.log = import.statusById[e.task] /\ e.log # NoImportLog
PROOF
<1>1. \A e \in BatchEntries : e \in ImportRow /\ EntryHolds(e)
  BY ImportTypes DEF ImportInv, EntriesHold, BatchEntries
<1>2. \A e \in ImportRow : e.task \in Tasks /\ e.log \in ImportLogIds
  BY DEF ImportRow
<1>3. \A x \in ImportLogIds : x # NoImportLog
  BY TaskImportAssumption DEF ImportLogIds
<1> QED BY <1>1, <1>2, <1>3 DEF EntryHolds

LEMMA LogsWritten ==
    ASSUME ImportInv, NEW entries \in SUBSET BatchEntries, importLogs' = WithLogs(entries)
    PROVE  /\ importLogs \subseteq importLogs'
           /\ \A k \in importLogs' :
                 \/ k \in importLogs
                 \/ k.task \in Tasks /\ k.id = import.statusById[k.task]
                    /\ k.id # NoImportLog
           /\ importLogs' \subseteq [id : ImportLogIds, task : Tasks]
           /\ \A e \in entries : [id |-> e.log, task |-> e.task] \in importLogs'
PROOF
<1>1. \A k \in importLogs' : k \in importLogs
                              \/ \E e \in entries : k = [id |-> e.log, task |-> e.task]
  BY DEF WithLogs
<1>2. \A e \in entries : /\ e.task \in Tasks /\ e.log \in ImportLogIds
                          /\ e.log = import.statusById[e.task] /\ e.log # NoImportLog
  BY BatchHolds
<1>3. importLogs \subseteq importLogs'
      /\ \A e \in entries : [id |-> e.log, task |-> e.task] \in importLogs'
  BY DEF WithLogs
<1>4. importLogs \subseteq [id : ImportLogIds, task : Tasks]
  BY DEF ImportInv, ImportTypeOK
<1> QED BY <1>1, <1>2, <1>3, <1>4

LEMMA StatusesWritten ==
    ASSUME ImportInv, NEW entries \in SUBSET BatchEntries, statuses' = WithStatuses(entries)
    PROVE  /\ statuses' \in [Tasks -> ImportLogIds \cup {NoImportLog}]
           /\ \A t \in Tasks :
                 \/ statuses'[t] = statuses[t]
                 \/ statuses'[t] = import.statusById[t] /\ statuses'[t] # NoImportLog
           /\ \A e \in entries : statuses'[e.task] = import.statusById[e.task]
PROOF
<1>1. \A e \in entries : /\ e.task \in Tasks /\ e.log \in ImportLogIds
                          /\ e.log = import.statusById[e.task] /\ e.log # NoImportLog
  BY BatchHolds
<1>2. ASSUME NEW t \in Tasks, \E e \in entries : e.task = t
      PROVE  /\ statuses'[t] = import.statusById[t] /\ statuses'[t] # NoImportLog
             /\ statuses'[t] \in ImportLogIds
  <2>1. PICK c : c = CHOOSE e \in entries : e.task = t
    OBVIOUS
  <2>2. c \in entries /\ c.task = t
    BY <1>2, <2>1
  <2>3. statuses'[t] = c.log
    BY <1>2, <2>1 DEF WithStatuses
  <2> QED BY <1>1, <2>2, <2>3
<1>3. ASSUME NEW t \in Tasks, ~ \E e \in entries : e.task = t
      PROVE  statuses'[t] = statuses[t]
  BY <1>3 DEF WithStatuses
<1>4. statuses \in [Tasks -> ImportLogIds \cup {NoImportLog}]
  BY DEF ImportInv, ImportTypeOK
<1>5. \A t \in Tasks : statuses'[t] \in ImportLogIds \cup {NoImportLog}
  BY <1>2, <1>3, <1>4
<1>6. statuses' \in [Tasks -> ImportLogIds \cup {NoImportLog}]
  BY <1>5 DEF WithStatuses
<1> QED BY <1>1, <1>2, <1>3, <1>6

\* The rows that are left of a batch that has just begun.
LEMMA AllLeft ==
    ASSUME ImportInv
    PROVE  /\ import.on \in {0, 1} => LeftRows = RowsIn(import.batch)
           /\ (import'.batch = import.batch /\ import'.on \in {0, 1})
                 => LeftRows' = RowsIn(import.batch)
PROOF
<1>1. \A j \in DOMAIN import.batch : j >= 0 /\ j >= 1
  BY ImportTypes DEF ImportInv
<1>2. /\ {j \in DOMAIN import.batch : j >= 0} = DOMAIN import.batch
      /\ {j \in DOMAIN import.batch : j >= 1} = DOMAIN import.batch
  BY <1>1
<1> QED BY <1>2 DEF LeftRows, RowsIn

\* A call that only moves the import on, its rows as they were.
LEMMA MovesKeep ==
    ASSUME ImportInv, WritesTaken,
           import'.pending = import.pending, import'.batch = import.batch,
           import'.saved = import.saved, import'.failed = import.failed,
           import.on = import'.on \/ (import.on = 0 /\ import'.on = 1)
    PROVE  /\ RowsCounted' /\ SavedHold' /\ OneLogEach'
           /\ \A i \in DOMAIN import'.pending : EntryHolds(import.pending[i])'
           /\ \A i \in DOMAIN import'.batch : EntryHolds(import.batch[i])'
PROOF
<1>1. LeftRows' = LeftRows
  <2>1. CASE import.on = import'.on
    BY <2>1 DEF LeftRows
  <2>2. CASE import.on = 0 /\ import'.on = 1
    BY <2>2, AllLeft
  <2> QED BY <2>1, <2>2
<1>2. RowsCounted'
  <2>1. /\ RowsIn(import'.pending) = RowsIn(import.pending)
        /\ RowsIn(import'.batch) = RowsIn(import.batch)
        /\ RowsDiffer(import'.pending) = RowsDiffer(import.pending)
        /\ RowsDiffer(import'.batch) = RowsDiffer(import.batch)
    OBVIOUS
  <2>2. RowsCounted /\ import'.row = import.row /\ Underway /\ Underway'
    BY DEF ImportInv, WritesTaken
  <2>3. Passed' = Passed
    BY <2>2 DEF Passed, WritesTaken
  <2> QED BY <1>1, <2>1, <2>2, <2>3 DEF RowsCounted
<1>3. SavedHold' /\ OneLogEach'
  BY WritesKeep DEF WritesTaken, SavedHold
<1>4. /\ \A i \in DOMAIN import.pending : EntryHolds(import.pending[i])
      /\ \A i \in DOMAIN import.batch : EntryHolds(import.batch[i])
  BY DEF ImportInv, EntriesHold
<1>5. \A e : EntryHolds(e) => EntryHolds(e)'
  BY WritesKeep
<1>6. /\ \A i \in DOMAIN import'.pending : EntryHolds(import.pending[i])'
      /\ \A i \in DOMAIN import'.batch : EntryHolds(import.batch[i])'
  BY <1>4, <1>5 DEF EntryHolds
<1> QED BY <1>2, <1>3, <1>6

LEMMA UpsertLogsInv ==
    ASSUME ImportInv, UpsertLogs
    PROVE  ImportInv'
PROOF
<1>1. /\ ImportTypeOK /\ import.at = "logs" /\ import \in Import /\ import.on = 0
      /\ import.batch # << >> /\ import.row \in 1..Len(file) + 1 /\ imports # 0
      /\ UNCHANGED << file, statuses, imports >>
  BY DEF ImportInv, ImportPlaced, Underway, UpsertLogs, ImportTypeOK
<1>2. PICK logFailed \in BOOLEAN :
         /\ import' = [import EXCEPT !.at = "statuses", !.logFailed = logFailed]
         /\ IF logFailed THEN importLogs' = importLogs /\ (UNCHANGED writeErrors \/ Fails)
            ELSE importLogs' = WithLogs(BatchEntries) /\ UNCHANGED writeErrors
  BY DEF UpsertLogs
<1>3. /\ import' \in Import /\ import'.at = "statuses" /\ import'.row = import.row
      /\ import'.statusById = import.statusById /\ import'.pending = import.pending
      /\ import'.batch = import.batch /\ import'.logFailed = logFailed
      /\ import'.on = import.on /\ import'.saved = import.saved
      /\ import'.failed = import.failed
  <2>1. import \in Import /\ "statuses" \in ImportPlaces
    BY <1>1 DEF ImportPlaces
  <2>2. import' = Moved(import, "statuses", logFailed)
    BY <1>2 DEF Moved
  <2> QED BY <2>1, <2>2, ImportMoves
<1>4. /\ importLogs' \subseteq [id : ImportLogIds, task : Tasks]
      /\ importLogs \subseteq importLogs'
      /\ \A k \in importLogs' :
            \/ k \in importLogs
            \/ k.task \in Tasks /\ k.id = import.statusById[k.task] /\ k.id # NoImportLog
      /\ ~logFailed => \A e \in BatchEntries :
                          [id |-> e.log, task |-> e.task] \in importLogs'
  <2>1. CASE logFailed
    BY <1>1, <1>2, <2>1 DEF ImportTypeOK
  <2>2. CASE ~logFailed
    BY <1>2, <2>2, LogsWritten
  <2> QED BY <2>1, <2>2
<1>5. WritesTaken
  BY <1>1, <1>3, <1>4 DEF WritesTaken, Underway
<1>6. ImportTypeOK' /\ ImportPlaced'
  <2>1. writeErrors' \in 0..MaxWriteErrors
    BY <1>1, <1>2, TaskImportAssumption DEF ImportTypeOK, Fails
  <2>2. ImportTypeOK'
    BY <1>1, <1>3, <1>4, <2>1 DEF ImportTypeOK
  <2>3. ImportPlaced'
    BY <1>1, <1>3 DEF ImportPlaced, Underway
  <2> QED BY <2>2, <2>3
<1>7. /\ RowsCounted' /\ SavedHold' /\ OneLogEach'
      /\ \A i \in DOMAIN import'.pending : EntryHolds(import.pending[i])'
      /\ \A i \in DOMAIN import'.batch : EntryHolds(import.batch[i])'
  BY <1>3, <1>5, MovesKeep
<1>8. EntriesHold'
  <2>1. ~logFailed => \A i \in DOMAIN import.batch : HasLog(import.batch[i])'
    BY <1>3, <1>4 DEF HasLog, BatchEntries
  <2> QED BY <1>3, <1>7, <2>1 DEF EntriesHold
<1> QED BY <1>6, <1>7, <1>8 DEF ImportInv

\* The statuses could not be written together, or the logs could not: what is left is to
\* be written row by row.
LEMMA RowByRow ==
    ASSUME ImportInv, WritesTaken, ImportTypeOK', import.at = "statuses",
           import'.at = "rowLog", import'.on = 1, ~import'.logFailed,
           import'.pending = import.pending, import'.batch = import.batch,
           import'.saved = import.saved, import'.failed = import.failed
    PROVE  ImportInv'
PROOF
<1>1. /\ import.on = 0 /\ import.batch # << >> /\ import.batch \in Seq(ImportRow)
      /\ import.row \in 1..Len(file) + 1 /\ imports # 0
  BY ImportTypes DEF ImportInv, ImportPlaced, Underway
<1>2. /\ RowsCounted' /\ SavedHold' /\ OneLogEach'
      /\ \A i \in DOMAIN import'.pending : EntryHolds(import.pending[i])'
      /\ \A i \in DOMAIN import'.batch : EntryHolds(import.batch[i])'
  BY <1>1, MovesKeep
<1>3. 1 \in DOMAIN import.batch
  BY <1>1
<1>4. ImportPlaced'
  BY <1>1, <1>3 DEF ImportPlaced, Underway, WritesTaken
<1>5. EntriesHold'
  BY <1>2 DEF EntriesHold
<1> QED BY <1>2, <1>4, <1>5 DEF ImportInv

LEMMA UpsertStatusesInv ==
    ASSUME ImportInv, UpsertStatuses
    PROVE  ImportInv'
PROOF
<1>1. /\ ImportTypeOK /\ import.at = "statuses" /\ import \in Import /\ import.on = 0
      /\ import.row \in 1..Len(file) + 1 /\ imports # 0
      /\ UNCHANGED << file, importLogs, imports, writeErrors >>
      /\ statuses' = WithStatuses(BatchEntries)
  BY DEF ImportInv, ImportPlaced, Underway, UpsertStatuses, ImportTypeOK
<1>2. /\ statuses' \in [Tasks -> ImportLogIds \cup {NoImportLog}]
      /\ \A t \in Tasks :
            \/ statuses'[t] = statuses[t]
            \/ statuses'[t] = import.statusById[t] /\ statuses'[t] # NoImportLog
      /\ \A e \in BatchEntries : statuses'[e.task] = import.statusById[e.task]
  BY <1>1, StatusesWritten
<1>3. CASE import.logFailed
  <2>1. import' = RowLogs(import)
    BY <1>3 DEF UpsertStatuses, RowLogs
  <2>2. /\ import' \in Import
        /\ import'.at = "rowLog" /\ import'.row = import.row
        /\ import'.statusById = import.statusById
        /\ import'.pending = import.pending /\ import'.batch = import.batch
        /\ ~import'.logFailed /\ import'.on = 1 /\ import'.saved = import.saved
        /\ import'.failed = import.failed
    BY <1>1, <2>1, ImportGoesByRow
  <2>3. WritesTaken
    BY <1>1, <1>2, <2>2 DEF WritesTaken, Underway
  <2>4. ImportTypeOK'
    BY <1>1, <1>2, <2>2 DEF ImportTypeOK
  <2> QED BY <1>1, <2>2, <2>3, <2>4, RowByRow
<1>4. CASE ~import.logFailed
  <2>1. import' = Saved(import, RowsOf(BatchEntries))
    BY <1>4 DEF UpsertStatuses, Saves, Saved
  <2>2. RowsOf(BatchEntries) = RowsIn(import.batch)
    BY DEF RowsOf, BatchEntries, RowsIn
  <2>3. RowsOf(BatchEntries) \in SUBSET Nat
    BY BatchHolds DEF RowsOf, ImportRow
  <2>4. /\ import' \in Import
        /\ import'.at = "rows" /\ import'.row = import.row
        /\ import'.statusById = import.statusById
        /\ import'.pending = import.pending /\ import'.batch = << >>
        /\ ~import'.logFailed /\ import'.on = 0
        /\ import'.saved = import.saved \cup RowsOf(BatchEntries)
        /\ import'.failed = import.failed
    BY <1>1, <2>1, <2>3, ImportSaves
  <2>5. WritesTaken
    BY <1>1, <1>2, <2>4 DEF WritesTaken, Underway
  <2>6. ImportTypeOK'
    BY <1>1, <1>2, <2>4 DEF ImportTypeOK
  <2>7. ImportPlaced'
    BY <1>1, <2>4 DEF ImportPlaced, Underway
  <2>8. LeftRows = RowsIn(import.batch) /\ LeftRows' = {}
        /\ RowsIn(import'.batch) = {} /\ RowsDiffer(import'.batch)
    <3>1. LeftRows = RowsIn(import.batch)
      BY <1>1, AllLeft
    <3>2. LeftRows' = {} /\ RowsIn(import'.batch) = {}
      BY <2>4 DEF LeftRows, RowsIn
    <3>3. RowsDiffer(import'.batch)
      BY <2>4 DEF RowsDiffer
    <3> QED BY <3>1, <3>2, <3>3
  <2>9. RowsCounted'
    <3>1. RowsCounted /\ Underway
      BY <1>1 DEF ImportInv, Underway
    <3>2. RowsIn(import'.pending) = RowsIn(import.pending)
          /\ RowsDiffer(import'.pending) = RowsDiffer(import.pending)
      BY <2>4
    <3>4. file' = file /\ import'.row = import.row
      BY <2>4 DEF UpsertStatuses
    <3>3. Passed' = Passed
      BY <3>4 DEF Passed
    <3> QED BY <2>2, <2>4, <2>8, <3>1, <3>2, <3>3 DEF RowsCounted
  <2>10. EntriesHold'
    <3>1. \A i \in DOMAIN import.pending : EntryHolds(import.pending[i])'
      <4>1. \A i \in DOMAIN import.pending : EntryHolds(import.pending[i])
        BY DEF ImportInv, EntriesHold
      <4>2. \A i \in DOMAIN import.pending : import'.pending[i] = import.pending[i]
        BY <2>4
      <4> QED BY <2>4, <2>5, <4>1, <4>2, WritesKeep DEF EntryHolds, WritesTaken
    <3> QED BY <2>4, <3>1 DEF EntriesHold
  <2>11. SavedHold'
    <3>1. \A r \in import.saved :
             /\ r \in DOMAIN file /\ file[r] \in Tasks
             /\ statuses'[file[r]] = import.statusById[file[r]]
             /\ [id |-> statuses'[file[r]], task |-> file[r]] \in importLogs'
      BY <2>5, WritesKeep
    <3>2. \A e \in BatchEntries : HasLog(e)
      BY <1>1, <1>4 DEF ImportInv, EntriesHold, BatchEntries
    <3>3. \A e \in BatchEntries :
             /\ e.row \in DOMAIN file /\ file[e.row] \in Tasks
             /\ statuses'[file[e.row]] = import.statusById[file[e.row]]
             /\ [id |-> statuses'[file[e.row]], task |-> file[e.row]] \in importLogs
      BY <1>2, <3>2, BatchHolds DEF EntryHolds, HasLog
    <3> QED BY <1>1, <2>4, <3>1, <3>3 DEF SavedHold, RowsOf
  <2>12. OneLogEach'
    BY <2>5, WritesKeep
  <2> QED BY <2>6, <2>7, <2>9, <2>10, <2>11, <2>12 DEF ImportInv
<1> QED BY <1>3, <1>4

LEMMA StatusesFailInv ==
    ASSUME ImportInv, StatusesFail
    PROVE  ImportInv'
PROOF
<1>1. /\ ImportTypeOK /\ import.at = "statuses" /\ import \in Import
      /\ UNCHANGED << file, importLogs, statuses, imports >>
      /\ import' = RowLogs(import)
  BY DEF ImportInv, StatusesFail, ImportTypeOK, RowLogs
<1>2. /\ import' \in Import
      /\ import'.at = "rowLog" /\ import'.row = import.row
      /\ import'.statusById = import.statusById
      /\ import'.pending = import.pending /\ import'.batch = import.batch
      /\ ~import'.logFailed /\ import'.on = 1 /\ import'.saved = import.saved
      /\ import'.failed = import.failed
  BY <1>1, ImportGoesByRow
<1>3. WritesTaken
  BY <1>1, <1>2 DEF WritesTaken, Underway
<1>4. ImportTypeOK'
  <2>1. writeErrors' \in 0..MaxWriteErrors
    BY <1>1, TaskImportAssumption DEF ImportTypeOK, StatusesFail, Fails
  <2> QED BY <1>1, <1>2, <2>1 DEF ImportTypeOK
<1> QED BY <1>1, <1>2, <1>3, <1>4, RowByRow

LEMMA UpsertRowLogInv ==
    ASSUME ImportInv, UpsertRowLog
    PROVE  ImportInv'
PROOF
<1>1. /\ ImportTypeOK /\ import.at = "rowLog" /\ import \in Import
      /\ import.on \in DOMAIN import.batch /\ ~import.logFailed
      /\ import.row \in 1..Len(file) + 1 /\ imports # 0
      /\ UNCHANGED << file, statuses, imports >>
  BY DEF ImportInv, ImportPlaced, Underway, UpsertRowLog, ImportTypeOK
<1>2. /\ import' \in Import /\ import'.at = "rowStatus" /\ import'.row = import.row
      /\ import'.statusById = import.statusById /\ import'.pending = import.pending
      /\ import'.batch = import.batch /\ import'.on = import.on
      /\ import'.saved = import.saved /\ import'.failed = import.failed
      /\ \/ import'.logFailed /\ importLogs' = importLogs /\ Fails
         \/ ~import'.logFailed /\ importLogs' = WithLogs({import.batch[import.on]})
            /\ UNCHANGED writeErrors
  <2>1. import \in Import /\ "rowStatus" \in ImportPlaces /\ TRUE \in BOOLEAN
    BY <1>1 DEF ImportPlaces
  <2>2. CASE /\ importLogs' = importLogs /\ Fails
             /\ import' = [import EXCEPT !.at = "rowStatus", !.logFailed = TRUE]
    <3>0. PICK logFailed \in BOOLEAN : logFailed = TRUE
      OBVIOUS
    <3>1. import' = Moved(import, "rowStatus", logFailed)
      BY <2>2, <3>0 DEF Moved
    <3>2. /\ import' \in Import /\ import'.at = "rowStatus" /\ import'.row = import.row
          /\ import'.statusById = import.statusById /\ import'.pending = import.pending
          /\ import'.batch = import.batch /\ import'.on = import.on
          /\ import'.saved = import.saved /\ import'.failed = import.failed
          /\ import'.logFailed = logFailed
      BY <2>1, <3>1, ImportMoves
    <3> HIDE DEF Fails
    <3> QED BY <2>2, <3>0, <3>2
  <2>3. CASE /\ importLogs' = WithLogs({import.batch[import.on]}) /\ UNCHANGED writeErrors
             /\ import' = [import EXCEPT !.at = "rowStatus"]
    <3>1. /\ import'.at = "rowStatus" /\ import'.row = import.row
          /\ import'.statusById = import.statusById /\ import'.pending = import.pending
          /\ import'.batch = import.batch /\ import'.on = import.on
          /\ import'.saved = import.saved /\ import'.failed = import.failed
          /\ import'.logFailed = import.logFailed
      BY <2>1, <2>3 DEF Import
    <3>2. import' \in Import
      BY <2>1, <2>3 DEF Import
    <3> QED BY <1>1, <2>3, <3>1, <3>2
  <2> QED BY <2>2, <2>3 DEF UpsertRowLog
<1>3. PICK e : e = import.batch[import.on]
  OBVIOUS
<1>4. e \in BatchEntries
  BY <1>1, <1>3 DEF BatchEntries
<1>5. /\ importLogs' \subseteq [id : ImportLogIds, task : Tasks]
      /\ importLogs \subseteq importLogs'
      /\ \A k \in importLogs' :
            \/ k \in importLogs
            \/ k.task \in Tasks /\ k.id = import.statusById[k.task] /\ k.id # NoImportLog
      /\ ~import'.logFailed => [id |-> e.log, task |-> e.task] \in importLogs'
  <2>1. CASE importLogs' = importLogs /\ import'.logFailed
    BY <1>1, <2>1 DEF ImportTypeOK
  <2>2. CASE importLogs' = WithLogs({e})
    <3>1. {e} \in SUBSET BatchEntries
      BY <1>4
    <3> QED BY <2>2, <3>1, LogsWritten
  <2> QED BY <1>2, <1>3, <2>1, <2>2
<1>6. WritesTaken
  BY <1>1, <1>2, <1>5 DEF WritesTaken, Underway
<1>7. ImportTypeOK' /\ ImportPlaced'
  <2>1. writeErrors' \in 0..MaxWriteErrors
    BY <1>1, <1>2, TaskImportAssumption DEF ImportTypeOK, Fails
  <2>2. ImportTypeOK'
    BY <1>1, <1>2, <1>5, <2>1 DEF ImportTypeOK
  <2>3. ImportPlaced'
    BY <1>1, <1>2 DEF ImportPlaced, Underway
  <2> QED BY <2>2, <2>3
<1>8. /\ RowsCounted' /\ SavedHold' /\ OneLogEach'
      /\ \A i \in DOMAIN import'.pending : EntryHolds(import.pending[i])'
      /\ \A i \in DOMAIN import'.batch : EntryHolds(import.batch[i])'
  BY <1>2, <1>6, MovesKeep
<1>9. EntriesHold'
  <2> QED BY <1>2, <1>3, <1>5, <1>8 DEF EntriesHold, HasLog
<1> QED BY <1>7, <1>8, <1>9 DEF ImportInv

\* The row is counted: as saved only when its log and its status were both written.
LEMMA UpsertRowStatusInv ==
    ASSUME ImportInv, UpsertRowStatus
    PROVE  ImportInv'
PROOF
<1>1. /\ ImportTypeOK /\ import.at = "rowStatus" /\ import \in Import
      /\ import.on \in DOMAIN import.batch /\ import.batch \in Seq(ImportRow)
      /\ import.row \in 1..Len(file) + 1 /\ imports # 0
      /\ UNCHANGED << file, importLogs, imports >>
  BY ImportTypes DEF ImportInv, ImportPlaced, Underway, UpsertRowStatus, ImportTypeOK
<1>2. PICK e : e = import.batch[import.on]
  OBVIOUS
<1>3. /\ e \in BatchEntries /\ e \in ImportRow /\ e.row \in Nat /\ EntryHolds(e)
      /\ e.task \in Tasks
  <2>1. e \in BatchEntries
    BY <1>1, <1>2 DEF BatchEntries
  <2> QED BY <2>1, BatchHolds DEF ImportRow
<1>4. PICK k : /\ import' = NextRow(k)
               /\ \/ /\ statuses' = WithStatuses({e}) /\ ~import.logFailed
                     /\ k = [import EXCEPT !.saved = import.saved \cup {e.row}]
                     /\ UNCHANGED writeErrors
                  \/ /\ statuses' = WithStatuses({e}) /\ UNCHANGED writeErrors
                     /\ k = [import EXCEPT !.failed = import.failed \cup {e.row}]
                  \/ /\ statuses' = statuses /\ Fails
                     /\ k = [import EXCEPT !.failed = import.failed \cup {e.row}]
  <2> HIDE DEF Fails, NextRow
  <2> QED BY <1>2 DEF UpsertRowStatus
<1>5. PICK saved \in SUBSET Nat, failed \in SUBSET Nat :
         /\ CountedOnce(import, k, saved, failed)
         /\ \/ /\ statuses' = WithStatuses({e}) /\ ~import.logFailed
               /\ saved = import.saved \cup {e.row} /\ failed = import.failed
            \/ /\ statuses' \in {statuses, WithStatuses({e})}
               /\ saved = import.saved /\ failed = import.failed \cup {e.row}
  <2> HIDE DEF Fails, NextRow, WithStatuses
  <2>1. import.saved \in SUBSET Nat /\ import.failed \in SUBSET Nat
    BY <1>1, ImportTypes
  <2>2. import.saved \cup {e.row} \in SUBSET Nat /\ import.failed \cup {e.row} \in SUBSET Nat
    BY <1>3, <2>1
  <2> QED BY <1>4, <2>1, <2>2 DEF CountedOnce
<1>6. /\ k \in Import
      /\ k.row = import.row /\ k.statusById = import.statusById
      /\ k.pending = import.pending /\ k.batch = import.batch /\ k.on = import.on
      /\ k.saved = saved /\ k.failed = failed
  BY <1>1, <1>5, ImportCounts
<1>7. /\ import' \in Import
      /\ import'.row = import.row /\ import'.statusById = import.statusById
      /\ import'.pending = import.pending
      /\ ~import'.logFailed /\ import'.saved = saved /\ import'.failed = failed
      /\ import.on = Len(import.batch) =>
            import'.at = "rows" /\ import'.batch = << >> /\ import'.on = 0
      /\ import.on # Len(import.batch) =>
            /\ import'.at = "rowLog" /\ import'.batch = import.batch
            /\ import'.on = import.on + 1
  <2>1. k.on + 1 \in Nat
    BY <1>1, <1>6
  <2> HIDE DEF NextRow
  <2> QED BY <1>4, <1>6, <2>1, ImportGoesOn
<1>8. /\ statuses' \in [Tasks -> ImportLogIds \cup {NoImportLog}]
      /\ \A t \in Tasks :
            \/ statuses'[t] = statuses[t]
            \/ statuses'[t] = import.statusById[t] /\ statuses'[t] # NoImportLog
      /\ statuses' = WithStatuses({e}) => statuses'[e.task] = import.statusById[e.task]
  <2>1. CASE statuses' = WithStatuses({e})
    <3>1. {e} \in SUBSET BatchEntries
      BY <1>3
    <3> QED BY <2>1, <3>1, StatusesWritten
  <2>2. CASE statuses' = statuses /\ statuses' # WithStatuses({e})
    BY <1>1, <2>2 DEF ImportTypeOK
  <2> QED BY <1>5, <2>1, <2>2
<1>9. WritesTaken
  <2>1. import'.at # "none"
    BY <1>7
  <2> QED BY <1>1, <1>7, <1>8, <2>1 DEF WritesTaken, Underway
<1>10. ImportTypeOK' /\ ImportPlaced'
  <2>1. writeErrors' \in 0..MaxWriteErrors
    BY <1>1, <1>4, TaskImportAssumption DEF ImportTypeOK, Fails
  <2>2. ImportTypeOK'
    BY <1>1, <1>7, <1>8, <2>1 DEF ImportTypeOK
  <2>3. import.on # Len(import.batch) => import.on + 1 \in DOMAIN import.batch
    BY <1>1
  <2>4. ImportPlaced'
    BY <1>1, <1>7, <2>3 DEF ImportPlaced, Underway
  <2> QED BY <2>2, <2>4
<1>11. /\ LeftRows = LeftRows' \cup {e.row} /\ e.row \notin LeftRows'
       /\ RowsIn(import'.batch) \subseteq RowsIn(import.batch) /\ RowsDiffer(import'.batch)
       /\ e.row \in RowsIn(import.batch)
  <2>1. RowsDiffer(import.batch)
    BY DEF ImportInv, RowsCounted
  <2>2. CASE import.on = Len(import.batch)
    <3>1. LeftRows' = {} /\ RowsIn(import'.batch) = {} /\ RowsDiffer(import'.batch)
      <4>1. LeftRows' = {} /\ RowsIn(import'.batch) = {}
        BY <1>7, <2>2 DEF LeftRows, RowsIn
      <4>2. RowsDiffer(import'.batch)
        BY <1>7, <2>2 DEF RowsDiffer
      <4> QED BY <4>1, <4>2
    <3>2. {j \in DOMAIN import.batch : j >= import.on} = {import.on}
      BY <1>1, <2>2
    <3>3. LeftRows = {e.row} /\ e.row \in RowsIn(import.batch)
      BY <1>1, <1>2, <3>2 DEF LeftRows, RowsIn
    <3> QED BY <3>1, <3>3
  <2>3. CASE import.on # Len(import.batch)
    <3>1. {j \in DOMAIN import.batch : j >= import.on}
             = {import.on} \cup {j \in DOMAIN import.batch : j >= import.on + 1}
      BY <1>1
    <3>2. LeftRows' = {import.batch[i].row :
                          i \in {j \in DOMAIN import.batch : j >= import.on + 1}}
      BY <1>7, <2>3 DEF LeftRows
    <3>3. LeftRows = LeftRows' \cup {e.row}
      BY <1>2, <3>1, <3>2 DEF LeftRows
    <3>4. \A j \in DOMAIN import.batch : j >= import.on + 1 => j # import.on
      BY <1>1
    <3>5. e.row \notin LeftRows'
      BY <1>1, <1>2, <2>1, <3>2, <3>4 DEF RowsDiffer
    <3>6. e.row \in RowsIn(import.batch) /\ RowsIn(import'.batch) = RowsIn(import.batch)
          /\ RowsDiffer(import'.batch)
      <4>1. import'.batch = import.batch
        BY <1>7, <2>3
      <4>2. e.row \in RowsIn(import.batch)
        BY <1>1, <1>2 DEF RowsIn
      <4> QED BY <2>1, <4>1, <4>2
    <3> QED BY <3>3, <3>5, <3>6
  <2> QED BY <2>2, <2>3
<1>12. RowsCounted'
  <2>1. RowsCounted /\ Underway
    BY <1>1 DEF ImportInv, Underway
  <2>2. /\ RowsIn(import'.pending) = RowsIn(import.pending)
        /\ RowsDiffer(import'.pending) = RowsDiffer(import.pending)
    BY <1>7
  <2>3. \/ saved = import.saved \cup {e.row} /\ failed = import.failed
        \/ saved = import.saved /\ failed = import.failed \cup {e.row}
    BY <1>5
  <2>4. /\ import'.saved = saved /\ import'.failed = failed /\ import'.row = import.row
    BY <1>7
  <2>5. saved \cup failed = import.saved \cup import.failed \cup {e.row}
    BY <2>3
  <2>6. e.row \notin import.saved \cup import.failed \cup RowsIn(import.pending)
    BY <1>11, <2>1 DEF RowsCounted
  <2>7. saved \cap failed = {}
    BY <2>1, <2>3, <2>6 DEF RowsCounted
  <2>11. file' = file /\ import'.row = import.row
    BY <2>4 DEF UpsertRowStatus
  <2>0. Passed' = Passed
    BY <2>11 DEF Passed
  <2>8. Passed' = import'.saved \cup import'.failed \cup RowsIn(import'.pending) \cup LeftRows'
    BY <2>0, <1>11, <2>1, <2>2, <2>4, <2>5 DEF RowsCounted
  <2>9. (import'.saved \cup import'.failed)
           \cap (RowsIn(import'.pending) \cup LeftRows') = {}
    BY <1>11, <2>1, <2>2, <2>4, <2>5, <2>6 DEF RowsCounted
  <2>10. RowsIn(import'.pending) \cap RowsIn(import'.batch) = {}
    BY <1>11, <2>1, <2>2 DEF RowsCounted
  <2> QED BY <1>11, <2>1, <2>2, <2>4, <2>7, <2>8, <2>9, <2>10 DEF RowsCounted
<1>13. EntriesHold'
  <2>1. \A x : EntryHolds(x) => EntryHolds(x)'
    BY <1>9, WritesKeep
  <2>2. /\ \A i \in DOMAIN import.pending : EntryHolds(import.pending[i])
        /\ \A i \in DOMAIN import.batch : EntryHolds(import.batch[i])
    BY DEF ImportInv, EntriesHold
  <2>3. \A i \in DOMAIN import'.pending : EntryHolds(import.pending[i])'
    BY <1>7, <2>1, <2>2 DEF EntryHolds
  <2>4. \A i \in DOMAIN import'.batch : EntryHolds(import.batch[i])'
    <3>1. CASE import.on = Len(import.batch)
      BY <1>7, <3>1
    <3>2. CASE import.on # Len(import.batch)
      BY <1>7, <2>1, <2>2, <3>2 DEF EntryHolds
    <3> QED BY <3>1, <3>2
  <2> QED BY <1>7, <2>3, <2>4 DEF EntriesHold
<1>14. SavedHold'
  <2>1. \A r \in import.saved :
           /\ r \in DOMAIN file /\ file[r] \in Tasks
           /\ statuses'[file[r]] = import.statusById[file[r]]
           /\ [id |-> statuses'[file[r]], task |-> file[r]] \in importLogs'
    BY <1>9, WritesKeep
  <2>2. e.row \in saved \ import.saved =>
           /\ e.row \in DOMAIN file /\ file[e.row] \in Tasks
           /\ statuses'[file[e.row]] = import.statusById[file[e.row]]
           /\ [id |-> statuses'[file[e.row]], task |-> file[e.row]] \in importLogs
    <3> SUFFICES ASSUME e.row \in saved \ import.saved
                 PROVE  /\ e.row \in DOMAIN file /\ file[e.row] \in Tasks
                        /\ statuses'[file[e.row]] = import.statusById[file[e.row]]
                        /\ [id |-> statuses'[file[e.row]], task |-> file[e.row]] \in importLogs
      OBVIOUS
    <3>1. statuses' = WithStatuses({e}) /\ ~import.logFailed
      BY <1>5
    <3>2. HasLog(e)
      BY <1>1, <1>2, <3>1 DEF ImportInv, EntriesHold
    <3>3. statuses'[e.task] = import.statusById[e.task]
      BY <1>8, <3>1
    <3>4. e.row \in DOMAIN file /\ e.task = file[e.row] /\ e.log = import.statusById[e.task]
      BY <1>3 DEF EntryHolds
    <3> QED BY <1>3, <3>2, <3>3, <3>4 DEF HasLog
  <2>3. saved \subseteq import.saved \cup {e.row}
    BY <1>5
  <2> QED BY <1>1, <1>7, <2>1, <2>2, <2>3 DEF SavedHold
<1>15. OneLogEach'
  BY <1>9, WritesKeep
<1> QED BY <1>10, <1>12, <1>13, <1>14, <1>15 DEF ImportInv

-------------------------------------------------------------------------------
(* The end of an import. *)

LEMMA FinishImportInv ==
    ASSUME ImportInv, FinishImport
    PROVE  ImportInv'
PROOF
<1>1. /\ ImportTypeOK /\ import.at = "rows" /\ import \in Import
      /\ import.batch = << >> /\ import.on = 0 /\ ~import.logFailed
      /\ import.row \in 1..Len(file) + 1 /\ import.row > Len(file) /\ imports # 0
      /\ Len(file) \in Nat
      /\ UNCHANGED << file, importLogs, statuses, imports, writeErrors >>
  BY ImportTypes DEF ImportInv, ImportPlaced, Underway, FinishImport, ImportTypeOK
<1>2. import.pending = << >> /\ import.row = Len(file) + 1
  <2>1. Due = 0 /\ FlushEvery \in Nat \ {0}
    BY TaskImportAssumption DEF FinishImport
  <2>2. Len(import.pending) = 0
    BY <1>1, <2>1 DEF Due
  <2>3. import.pending \in Seq(ImportRow)
    BY <1>1, ImportTypes
  <2> QED BY <1>1, <2>2, <2>3
<1>3. /\ import'.at = "done" /\ import'.row = import.row
      /\ import'.statusById = import.statusById /\ import'.pending = import.pending
      /\ import'.batch = import.batch /\ import'.on = import.on
      /\ import'.saved = import.saved /\ import'.failed = import.failed
      /\ import'.logFailed = import.logFailed /\ import' \in Import
  BY <1>1 DEF FinishImport, Import
<1>4. WritesTaken
  BY <1>1, <1>3 DEF WritesTaken, Underway
<1>5. ImportTypeOK' /\ ImportPlaced'
  BY <1>1, <1>2, <1>3 DEF ImportTypeOK, ImportPlaced, Underway
<1>6. /\ RowsCounted' /\ SavedHold' /\ OneLogEach'
      /\ \A i \in DOMAIN import'.pending : EntryHolds(import.pending[i])'
      /\ \A i \in DOMAIN import'.batch : EntryHolds(import.batch[i])'
  BY <1>3, <1>4, MovesKeep
<1>7. EntriesHold'
  BY <1>1, <1>3, <1>6 DEF EntriesHold
<1> QED BY <1>5, <1>6, <1>7 DEF ImportInv

\* Whatever the import had come to, the logs and statuses it leaves are those of its tasks.
LEMMA EndImportInv ==
    ASSUME ImportInv, EndImport
    PROVE  ImportInv'
PROOF
<1>1. /\ ImportTypeOK /\ import.at # "none" /\ import \in Import
      /\ UNCHANGED << file, importLogs, statuses, imports, writeErrors >>
  BY DEF ImportInv, EndImport, ImportTypeOK
<1>2. import' = Ended(import)
  BY DEF EndImport, Ended
<1>3. /\ import' \in Import
      /\ import'.at = "none" /\ import'.row = 0 /\ import'.pending = << >>
      /\ import'.batch = << >> /\ ~import'.logFailed /\ import'.on = 0
      /\ import'.saved = {} /\ import'.failed = {}
  BY <1>1, <1>2, ImportEnds
<1>4. ImportTypeOK' /\ ImportPlaced'
  BY <1>1, <1>3 DEF ImportTypeOK, ImportPlaced, Underway
<1>5. RowsIn(import'.pending) = {} /\ RowsIn(import'.batch) = {} /\ LeftRows' = {}
  BY <1>3 DEF RowsIn, LeftRows
<1>6. RowsDiffer(import'.pending) /\ RowsDiffer(import'.batch)
  BY <1>3 DEF RowsDiffer
<1>7. RowsCounted' /\ EntriesHold' /\ SavedHold'
  BY <1>3, <1>5, <1>6 DEF RowsCounted, EntriesHold, SavedHold, Underway
<1>8. \A t \in Tasks : LogsFor(t)' \subseteq LogsFor(t)
  BY <1>1, <1>3 DEF LogsFor, Underway
<1>9. OneLogEach'
  BY <1>1, <1>3, <1>8 DEF ImportInv, OneLogEach, Underway
<1> QED BY <1>4, <1>7, <1>9 DEF ImportInv

LEMMA ImportNextInv ==
    ASSUME ImportInv, [ImportNext]_importVars
    PROVE  ImportInv'
PROOF
<1>1. CASE StartImport   BY <1>1, StartImportInv
<1>2. CASE SkipRow \/ RejectRow
  BY <1>2, SkipRowInv, RejectRowInv
<1>3. CASE CollectRow    BY <1>3, CollectRowInv
<1>4. CASE FlushBatch    BY <1>4, FlushBatchInv
<1>5. CASE UpsertLogs    BY <1>5, UpsertLogsInv
<1>6. CASE UpsertStatuses  BY <1>6, UpsertStatusesInv
<1>7. CASE StatusesFail  BY <1>7, StatusesFailInv
<1>8. CASE UpsertRowLog  BY <1>8, UpsertRowLogInv
<1>9. CASE UpsertRowStatus  BY <1>9, UpsertRowStatusInv
<1>10. CASE FinishImport BY <1>10, FinishImportInv
<1>11. CASE EndImport    BY <1>11, EndImportInv
<1>12. CASE UNCHANGED importVars
  <2>1. /\ file' = file /\ importLogs' = importLogs /\ statuses' = statuses
        /\ import' = import /\ imports' = imports /\ writeErrors' = writeErrors
    BY <1>12 DEF importVars
  <2>2. Underway' = Underway /\ LeftRows' = LeftRows
    BY <2>1 DEF Underway, LeftRows
  <2>3. \A e : EntryHolds(e)' = EntryHolds(e) /\ HasLog(e)' = HasLog(e)
    BY <2>1 DEF EntryHolds, HasLog
  <2>4. \A t : LogsFor(t)' = LogsFor(t)
    BY <2>1, <2>2 DEF LogsFor
  <2>5. ImportTypeOK' /\ ImportPlaced'
    BY <2>1, <2>2 DEF ImportInv, ImportTypeOK, ImportPlaced
  <2>6. RowsCounted'
    BY <2>1, <2>2 DEF ImportInv, RowsCounted, Passed
  <2>7. EntriesHold'
    BY <2>1, <2>3 DEF ImportInv, EntriesHold, EntryHolds, HasLog
  <2>8. SavedHold'
    BY <2>1 DEF ImportInv, SavedHold
  <2>9. OneLogEach'
    BY <2>1, <2>2, <2>4 DEF ImportInv, OneLogEach
  <2> QED BY <2>5, <2>6, <2>7, <2>8, <2>9 DEF ImportInv
<1> QED BY <1>1, <1>2, <1>3, <1>4, <1>5, <1>6, <1>7, <1>8, <1>9, <1>10, <1>11, <1>12
        DEF ImportNext

LEMMA SavedHasItsLogFollows ==
    ImportInv => SavedHasItsLog
PROOF
<1> SUFFICES ASSUME ImportInv PROVE SavedHasItsLog
  OBVIOUS
<1>1. ASSUME import.at = "done"
      PROVE  /\ import.saved \cup import.failed = {r \in DOMAIN file : file[r] # Blank}
             /\ import.saved \cap import.failed = {}
  <2>1. /\ import.row = Len(file) + 1 /\ import.pending = << >> /\ import.batch = << >>
        /\ Len(file) \in Nat /\ DOMAIN file = 1..Len(file)
    BY <1>1, ImportTypes DEF ImportInv, ImportPlaced
  <2>2. RowsIn(import.pending) = {} /\ LeftRows = {}
    BY <2>1 DEF RowsIn, LeftRows
  <2>3. Passed = {r \in DOMAIN file : file[r] # Blank}
    BY <2>1 DEF Passed
  <2> QED BY <1>1, <2>1, <2>2, <2>3 DEF ImportInv, RowsCounted, Underway
<1>2. \A r \in import.saved :
         [id |-> statuses[file[r]], task |-> file[r]] \in importLogs
  BY DEF ImportInv, SavedHold
<1>3. \A k, l \in importLogs : k.task = l.task /\ k.id[1] \in {0, l.id[1]} => k = l
  <2> SUFFICES ASSUME NEW k \in importLogs, NEW l \in importLogs, k.task = l.task,
                      k.id[1] \in {0, l.id[1]}
               PROVE  k = l
    OBVIOUS
  <2>1. k \in [id : ImportLogIds, task : Tasks] /\ l \in [id : ImportLogIds, task : Tasks]
    BY DEF ImportInv, ImportTypeOK
  <2>2. k.id \in LogsFor(k.task) /\ l.id \in LogsFor(k.task)
    BY DEF LogsFor
  <2>3. k.id = l.id
    BY <2>1, <2>2 DEF ImportInv, OneLogEach
  <2> QED BY <2>1, <2>3
<1> QED BY <1>1, <1>2, <1>3 DEF SavedHasItsLog

\* Types: the type invariant of an import that works through a file row by row.
THEOREM ImportTypesHold == ImportSpec => []ImportTypeOK
PROOF
<1>1. ImportInit => ImportInv
  BY ImportInitInv
<1>2. ImportInv /\ [ImportNext]_importVars => ImportInv'
  BY ImportNextInv
<1>3. ImportInv => ImportTypeOK
  BY DEF ImportInv
<1> QED BY <1>1, <1>2, <1>3, PTL DEF ImportSpec

\* The result of an import (SmartMigrationService.runTaskUpdates) accounts for every row of
\* the file that has data, once; a row counted as saved has its status, and the log that the status points
\* to; and no task gets two logs from one import, or any when it had one: for every file,
\* size of a batch, and pattern of calls that fail and of imports that die.
THEOREM ImportsSave == ImportSpec => []SavedHasItsLog
PROOF
<1>1. ImportInit => ImportInv
  BY ImportInitInv
<1>2. ImportInv /\ [ImportNext]_importVars => ImportInv'
  BY ImportNextInv
<1>3. ImportInv => SavedHasItsLog
  BY SavedHasItsLogFollows
<1> QED BY <1>1, <1>2, <1>3, PTL DEF ImportSpec
===============================================================================
