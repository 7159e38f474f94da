-------------------------------- MODULE Studies --------------------------------
(***************************************************************************)
(* The feasibility studies of one project: proposals created and edited on *)
(* the FS pages (createFeasibilityStudy, updateFeasibilityStudy) and the   *)
(* conclusion that completes an FS approval task (upsertFsApproval), which *)
(* goes into the study touched last, or into a new one.  The pages of      *)
(* approvals and of realizations show of a project an approved study       *)
(* before any other, and among equals the one touched last.  Nothing keeps *)
(* a project from having several.                                          *)
(*                                                                         *)
(* Requests are numbered in the order they begin, studies in the order     *)
(* they are inserted.  updated_at is the clock before the write, which     *)
(* lands a unit later or more.                                             *)
(***************************************************************************)
EXTENDS Naturals

CONSTANTS
    MaxAuthors,     \* bound on the requests
    MaxMoment,      \* bound on the clock
    NoStudy

VARIABLES
    studies,    \* feasibility_studies of the project
    writing,    \* the requests
    before,     \* which requests had been answered when this one began
    alone,      \* whether no other was under way then
    moment      \* the clock

studyVars == << studies, writing, before, alone, moment >>

Authors == 1..MaxAuthors
StudyIds == 1..MaxAuthors
Moments == 0..MaxMoment

\* Approved, with notes or without, or anything else (APPROVED_CONCLUSIONS).
Conclusions == {"approved", "other"}
Study == [updatedAt : Moments, by : Authors, conclusion : Conclusions]

ASSUME StudiesAssumption ==
    MaxAuthors \in Nat /\ MaxMoment \in Nat /\ NoStudy \notin StudyIds \cup Study

\* study: the row a request writes, NoStudy if it inserts one.
\* concludes: the conclusion it writes, "asIs" if the row keeps its own.
Writing == [at : {"idle", "write", "answered"}, study : StudyIds \cup {NoStudy},
            concludes : Conclusions \cup {"asIs"}, now : Moments]

StudiesTypeOK ==
    /\ studies \in [StudyIds -> Study \cup {NoStudy}]
    /\ writing \in [Authors -> Writing]
    /\ before \in [Authors -> SUBSET Authors]
    /\ alone \in [Authors -> BOOLEAN]
    /\ moment \in Moments

StudiesInit ==
    /\ studies = [s \in StudyIds |-> NoStudy]
    /\ writing = [a \in Authors |-> [at |-> "idle", study |-> NoStudy,
                                     concludes |-> "other", now |-> 0]]
    /\ before = [a \in Authors |-> {}]
    /\ alone = [a \in Authors |-> FALSE]
    /\ moment = 0

-------------------------------------------------------------------------------
Written == {s \in StudyIds : studies[s] # NoStudy}

\* The first row of the select: order by updated_at, descending, limit 1.
Latest == {s \in Written : \A t \in Written : studies[s].updatedAt >= studies[t].updatedAt}

\* buildFsMap, the rows in whatever order the select returns them: the fold over
\* them ends with one of these.
Approved == {s \in Written : studies[s].conclusion = "approved"}
OnPages == LET first == IF Approved = {} THEN Written ELSE Approved IN
           {s \in first : \A t \in first : studies[s].updatedAt >= studies[t].updatedAt}

UnderWay == {a \in Authors : writing[a].at = "write"}

Begins(a, s, concludes) ==
    /\ writing[a].at = "idle"
    /\ \A b \in Authors : b < a => writing[b].at # "idle"
    /\ writing' = [writing EXCEPT ![a] = [at |-> "write", study |-> s,
                                          concludes |-> concludes, now |-> moment]]
    /\ before' = [before EXCEPT ![a] = {b \in Authors : writing[b].at = "answered"}]
    /\ alone' = [alone EXCEPT ![a] = UnderWay = {}]
    /\ UNCHANGED << studies, moment >>

\* upsertFsApproval: the study touched last, or none, approved or rejected.
Approve(a) ==
    \E c \in Conclusions :
        \/ \E s \in Latest : Begins(a, s, c)
        \/ Written = {} /\ Begins(a, NoStudy, c)

\* updateFeasibilityStudy, of any study on the page.
EditStudy(a) == \E s \in Written, c \in Conclusions \cup {"asIs"} : Begins(a, s, c)

\* createFeasibilityStudy.
CreateStudy(a) == \E c \in Conclusions : Begins(a, NoStudy, c)

Answers(a) == writing' = [writing EXCEPT ![a].at = "answered"]

Concluded(a, old) == IF writing[a].concludes = "asIs" THEN old.conclusion
                     ELSE writing[a].concludes

\* Mutant: an edit that leaves the conclusion does not touch the date.
StudyRowUndated(a, old) ==
    [updatedAt |-> IF writing[a].concludes = "asIs" THEN old.updatedAt ELSE writing[a].now,
     by |-> a, conclusion |-> Concluded(a, old)]

\* The row that a request leaves, with the conclusion it had if it names none.
StudyRow(a, old) ==
    [updatedAt |-> writing[a].now, by |-> a, conclusion |-> Concluded(a, old)]

UpdateRow(a) ==
    /\ writing[a].at = "write" /\ writing[a].now < moment
    /\ writing[a].study # NoStudy
    /\ studies' = [studies EXCEPT ![writing[a].study] = StudyRow(a, @)]
    /\ Answers(a)
    /\ UNCHANGED << before, alone, moment >>

InsertRow(a) ==
    /\ writing[a].at = "write" /\ writing[a].now < moment
    /\ writing[a].study = NoStudy
    /\ \E s \in StudyIds \ Written :
          /\ \A t \in StudyIds : t < s => t \in Written
          /\ studies' = [studies EXCEPT ![s] =
                            [updatedAt |-> writing[a].now, by |-> a,
                             conclusion |-> writing[a].concludes]]
    /\ Answers(a)
    /\ UNCHANGED << before, alone, moment >>

MomentPasses ==
    /\ moment < MaxMoment
    /\ moment' = moment + 1
    /\ UNCHANGED << studies, writing, before, alone >>

StudiesNext ==
    \/ \E a \in Authors : Approve(a) \/ EditStudy(a) \/ CreateStudy(a)
                          \/ UpdateRow(a) \/ InsertRow(a)
    \/ MomentPasses

StudiesSpec == StudiesInit /\ [][StudiesNext]_studyVars

-------------------------------------------------------------------------------
(* Properties *)

\* A request that began while no other was under way, once answered, hides what had
\* been answered before it, whatever begins and lands later: the study touched last,
\* which the next approval goes into, is none of it; and the pages show a study of
\* it only while that one is approved and none as young as the request is (buildFsMap).
\* With requests under way at its beginning that holds as long as the project has one
\* study; with two, one of them may land last with an older date and bring the other
\* study back.
AnswerShown ==
    \A a \in Authors :
        writing[a].at = "answered" /\ (alone[a] \/ \A s, t \in Written : s = t)
            => /\ \A s \in Latest : studies[s].by \notin before[a]
               /\ \A s \in OnPages : studies[s].by \in before[a]
                     => /\ s \in Approved
                        /\ \A t \in Approved : studies[t].updatedAt < writing[a].now

===============================================================================
