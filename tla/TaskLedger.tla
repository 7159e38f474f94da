------------------------------ MODULE TaskLedger ------------------------------
(***************************************************************************)
(* What the task actions promise of one asset: a ledger of who completed   *)
(* which task, and who disputes it.  Each operation is one step, and each  *)
(* rule that a handler's error message states is a guard here.             *)
(***************************************************************************)
CONSTANTS Tasks, EventTasks, Users, SuperAdmins, CanComplete, NoUser, Absent

VARIABLES
    completion,     \* who completed a task, Absent while nobody has
    reporter        \* who reported it as not yet done

ledger == << completion, reporter >>

Entry(t, u, bySystem) == [task |-> t, by |-> u, system |-> bySystem]

Init ==
    /\ completion = [t \in Tasks |-> Absent]
    /\ reporter = [t \in Tasks |-> NoUser]

\* "Task is already completed"; "This role cannot complete this workflow step".
Complete(t, u, bySystem) ==
    /\ completion[t] = Absent
    /\ IF bySystem THEN t \in EventTasks ELSE << u, t >> \in CanComplete
    /\ completion' = [completion EXCEPT ![t] = Entry(t, u, bySystem)]
    /\ UNCHANGED reporter

\* "Only the user who completed the task can revert it."; "System-completed
\* tasks cannot be reverted from this action."
Revert(t, u) ==
    /\ completion[t] # Absent
    /\ ~completion[t].system
    /\ completion[t].by = u \/ u \in SuperAdmins
    /\ completion' = [completion EXCEPT ![t] = Absent]
    /\ reporter' = [reporter EXCEPT ![t] = NoUser]

\* "You cannot report a task you completed yourself."; "Task already reported".
Report(t, u) ==
    /\ completion[t] # Absent
    /\ completion[t].by # u
    /\ reporter[t] = NoUser
    /\ reporter' = [reporter EXCEPT ![t] = u]
    /\ UNCHANGED completion

\* "Only the user who reported the task can withdraw it."
Withdraw(t, u) ==
    /\ reporter[t] # NoUser
    /\ reporter[t] = u \/ u \in SuperAdmins
    /\ reporter' = [reporter EXCEPT ![t] = NoUser]
    /\ UNCHANGED completion

Next ==
    \E t \in Tasks, u \in Users :
        \/ \E bySystem \in BOOLEAN : Complete(t, u, bySystem)
        \/ Revert(t, u)
        \/ Report(t, u)
        \/ Withdraw(t, u)

Spec == Init /\ [][Next]_ledger
===============================================================================
