----------------------------- MODULE Configuration -----------------------------
(***************************************************************************)
(* Saves that replace the children of a configuration entity: the steps of *)
(* a workflow set with their roles and triggers, the assignments of a user *)
(* with their scopes, the permissions of a role.  Each deletes what is     *)
(* there and inserts what it was sent, one awaited call after the other.   *)
(*                                                                         *)
(* A behaviour is about one kind of entity.  Children are rows with an     *)
(* identity column, and so are their details: the rows that one insert     *)
(* hangs on a child stand as one, which is there or not.                   *)
(* Entity 1 is the one workflow set or user; roles take the numbers that   *)
(* allocateNextRoleId gives them.  The schema is not in the repository:    *)
(* foreignKeys says what the database does about a parent that goes.       *)
(***************************************************************************)
EXTENDS Naturals, FiniteSets

CONSTANTS
    MaxSaveCalls,   \* requests are numbered in the order they begin
    MaxAtOnce,      \* bound on the requests under way
    Labels,         \* of steps, assignments, permissions: their places in a payload
    Detailed,       \* the labels whose rows have details
    MaxRoleId,      \* MAX_INT4_ROLE_ID
    Imported,       \* numbers of other users' assignments, and of their scopes, that the
                    \* sequences lag behind
    Schemas,        \* what the database may do about children when a parent goes
    Payloads,       \* the sets of labels that saves are sent
    MaxMishaps      \* bound on the requests that die, whose errors go unseen or that name
                    \* a role there is not

ASSUME ConfigurationAssumption ==
    /\ MaxSaveCalls \in Nat /\ MaxAtOnce \in Nat /\ MaxMishaps \in Nat
    /\ MaxRoleId \in Nat \ {0}
    /\ Labels \subseteq Nat \ {0} /\ Detailed \subseteq Labels
    /\ \A sent \in Payloads : IsFiniteSet(sent) /\ sent \subseteq Labels
    /\ Schemas \subseteq {"none", "cascade", "restrict"}
    /\ IsFiniteSet(Imported) /\ Imported \subseteq Nat \ {0}

VARIABLES
    entity,         \* the kind of entity
    foreignKeys,
    entities,       \* the last save to name each entity, 0 if there is none
    children,       \* rows: their number, entity, label and the save that wrote them
    details,        \* rows: their number and that of their child
    sequence,       \* last number of the identity column of the children
    detailSequence, \* and of that of the details
    calls,          \* the requests
    earlier,        \* which requests were over when this one began
    undisturbed     \* whether no other was under way so far

configVars == << entity, foreignKeys, entities, children, details, detailSequence, sequence,
                 calls, earlier, undisturbed >>

Calls == 1..MaxSaveCalls
Ids == 1..MaxRoleId
Child == [id : Nat, of : 0..MaxRoleId, label : Labels, by : 0..MaxSaveCalls]

\* want: labels still to insert.  ids: the children it read.  row: the child whose
\* details are next, or the number it is to take.  number: the one its details are to
\* take.  blind: an error went unseen.
Call == [at : {"idle", "maxRole", "upsert", "read", "deleteDetails", "deleteChildren",
               "insert", "maxId", "insertId", "insertDetails", "maxDetail",
               "insertDetailId", "deleteEntity", "answered", "rejected", "failed", "died"},
         deletes : BOOLEAN, fresh : BOOLEAN, id : 0..MaxRoleId, sent : SUBSET Labels,
         want : SUBSET Labels, ids : SUBSET Nat, row : Nat, number : Nat, blind : BOOLEAN]

Detail == [id : Nat, of : Nat]

ConfigTypeOK ==
    /\ entity \in {"workflowSet", "user", "role"}
    /\ foreignKeys \in Schemas
    /\ entities \in [Ids -> 0..MaxSaveCalls]
    /\ children \subseteq Child
    /\ details \subseteq Detail
    /\ sequence \in Nat /\ detailSequence \in Nat
    /\ calls \in [Calls -> Call]
    /\ earlier \in [Calls -> SUBSET Calls]
    /\ undisturbed \in [Calls -> BOOLEAN]

ConfigInit ==
    /\ entity \in {"workflowSet", "user", "role"}
    /\ foreignKeys \in Schemas
    /\ entities = [i \in Ids |-> 0]
    /\ \E l \in Labels :
          children = IF entity # "user" THEN {}
                     ELSE {[id |-> n, of |-> 0, label |-> l, by |-> 0] : n \in Imported}
    /\ details = {[id |-> r.id, of |-> r.id] : r \in children}
    /\ sequence = 0 /\ detailSequence = 0
    /\ calls = [c \in Calls |->
                   [at |-> "idle", deletes |-> FALSE, fresh |-> FALSE, id |-> 0,
                    sent |-> {}, want |-> {}, ids |-> {}, row |-> 0, number |-> 0,
                    blind |-> FALSE]]
    /\ earlier = [c \in Calls |-> {}]
    /\ undisturbed = [c \in Calls |-> FALSE]

-------------------------------------------------------------------------------
Over(c) == calls[c].at \in {"answered", "rejected", "failed", "died"}
InProgress == {c \in Calls : calls[c].at # "idle" /\ ~Over(c)}

ChildrenOf(i) == {r \in children : r.of = i}
IdsOf(rows) == {r.id : r \in rows}
WithDetails == {d.of : d \in details}
MaxOf(S) == IF S = {} THEN 0 ELSE CHOOSE n \in S : \A k \in S : k <= n

Goes(c, at) == calls' = [calls EXCEPT ![c].at = at]

\* A request is over: of what it held, only what an answer says of it is kept.
Ends(c, at) ==
    calls' = [calls EXCEPT ![c] =
                 [at |-> at, deletes |-> @.deletes, fresh |-> FALSE, id |-> @.id,
                  sent |-> IF at = "answered" /\ undisturbed[c] THEN @.sent ELSE {},
                  want |-> {}, ids |-> {}, row |-> 0, number |-> 0, blind |-> @.blind]]

BeginCall(c, first, i, sent) ==
    /\ Cardinality(InProgress) < MaxAtOnce
    /\ calls[c].at = "idle"
    /\ \A b \in Calls : b < c => calls[b].at # "idle"
    /\ calls' = [calls EXCEPT ![c] =
                    [at |-> first, deletes |-> first \in {"read", "deleteEntity"},
                     fresh |-> first = "maxRole", id |-> i, sent |-> sent, want |-> sent,
                     ids |-> {}, row |-> 0, number |-> 0, blind |-> FALSE]]
    /\ earlier' = [earlier EXCEPT ![c] = {b \in Calls : Over(b)}]
    /\ undisturbed' = [b \in Calls |->
                          IF b = c THEN InProgress = {}
                                   ELSE undisturbed[b] /\ b \notin InProgress]
    /\ UNCHANGED << entity, foreignKeys, entities, children, details, detailSequence,
                    sequence >>

\* persistWorkflowSet, saveUserEntity, or saveRoleEntity of a role that has an id.
SaveEntity(c, i, sent) ==
    /\ entity = "role" => entities[i] # 0
    /\ entity # "role" => i = 1
    /\ BeginCall(c, "upsert", i, sent)

\* saveRoleEntity of a new role.
SaveNewRole(c, sent) ==
    /\ entity = "role"
    /\ BeginCall(c, "maxRole", 0, sent)

\* deleteConfigurationEntity.
DeleteCall(c, i) ==
    /\ entities[i] # 0
    /\ BeginCall(c, IF entity = "workflowSet" THEN "read" ELSE "deleteEntity", i, {})

configRest == << entity, foreignKeys, earlier, undisturbed >>

\* Mutant: the lowest number, plus one.
AllocateLowest(c) ==
    LET used == {i \in Ids : entities[i] # 0} IN
    /\ calls[c].at = "maxRole"
    /\ LET next == IF used = {} THEN 1 ELSE 1 + CHOOSE i \in used : \A k \in used : i <= k
       IN IF next > MaxRoleId THEN Ends(c, "failed")
          ELSE calls' = [calls EXCEPT ![c].at = "upsert", ![c].id = next]
    /\ UNCHANGED << entities, children, details, detailSequence, sequence, configRest >>

\* Mutant: the highest number is not looked at.
AllocateBeyond(c) ==
    /\ calls[c].at = "maxRole"
    /\ calls' = [calls EXCEPT ![c].at = "upsert",
                              ![c].id = MaxOf({i \in Ids : entities[i] # 0}) + 1]
    /\ UNCHANGED << entities, children, details, detailSequence, sequence, configRest >>

AllocateNextRoleId(c) ==
    /\ calls[c].at = "maxRole"
    /\ LET next == MaxOf({i \in Ids : entities[i] # 0}) + 1 IN
       IF next > MaxRoleId THEN Ends(c, "failed")
       ELSE calls' = [calls EXCEPT ![c].at = "upsert", ![c].id = next]
    /\ UNCHANGED << entities, children, details, detailSequence, sequence, configRest >>

UpsertEntity(c) ==
    /\ calls[c].at = "upsert"
    /\ entities' = [entities EXCEPT ![calls[c].id] = c]
    /\ Goes(c, IF entity = "role" THEN "deleteChildren" ELSE "read")
    /\ UNCHANGED << children, details, detailSequence, sequence, configRest >>

AfterDeletes(c) == IF calls[c].deletes THEN "deleteEntity" ELSE "insert"

\* A workflow set without steps has nothing to delete; a user's assignments are
\* deleted even if none were found.
Found(c, ids) ==
    calls' = [calls EXCEPT ![c].ids = ids, ![c].at =
                 IF ids # {} THEN "deleteDetails"
                 ELSE IF entity = "user" THEN "deleteChildren" ELSE AfterDeletes(c)]

ReadChildren(c) ==
    /\ calls[c].at = "read"
    /\ Found(c, IdsOf(ChildrenOf(calls[c].id)))
    /\ UNCHANGED << entities, children, details, detailSequence, sequence, configRest >>

Lucky ==
    LET mishap(c) == calls[c].blind \/ calls[c].at \in {"died", "rejected"}
    IN Cardinality({c \in Calls : mishap(c)}) < MaxMishaps

GoesBlindly(c, at) == /\ entity = "workflowSet"
                      /\ Lucky
                      /\ calls' = [calls EXCEPT ![c].at = at, ![c].blind = TRUE]

\* The errors of these three calls are dropped for a workflow set.
ReadUnseen(c) ==
    /\ calls[c].at = "read"
    /\ GoesBlindly(c, AfterDeletes(c))
    /\ UNCHANGED << entities, children, details, detailSequence, sequence, configRest >>

DeleteUnseen(c) ==
    /\ \/ calls[c].at = "deleteDetails" /\ GoesBlindly(c, "deleteChildren")
       \/ calls[c].at = "deleteChildren" /\ GoesBlindly(c, AfterDeletes(c))
    /\ UNCHANGED << entities, children, details, detailSequence, sequence, configRest >>

DeleteDetails(c) ==
    /\ calls[c].at = "deleteDetails"
    /\ details' = {d \in details : d.of \notin calls[c].ids}
    /\ Goes(c, "deleteChildren")
    /\ UNCHANGED << entities, children, detailSequence, sequence, configRest >>

\* What the database does when rows go that have details.
Removable(rows) == foreignKeys = "restrict" => IdsOf(rows) \cap WithDetails = {}
DetailsLeft(rows) ==
    {d \in details : foreignKeys = "cascade" => d.of \notin IdsOf(rows)}

\* Mutant: those that it read.
DeleteChildrenRead(c) ==
    LET rows == {r \in ChildrenOf(calls[c].id) : r.id \in calls[c].ids} IN
    /\ calls[c].at = "deleteChildren"
    /\ Removable(rows)
    /\ children' = children \ rows
    /\ details' = DetailsLeft(rows)
    /\ Goes(c, AfterDeletes(c))
    /\ UNCHANGED << entities, detailSequence, sequence, configRest >>

DeleteChildren(c) ==
    LET rows == ChildrenOf(calls[c].id) IN
    /\ calls[c].at = "deleteChildren"
    /\ Removable(rows)
    /\ children' = children \ rows
    /\ details' = DetailsLeft(rows)
    /\ Goes(c, AfterDeletes(c))
    /\ UNCHANGED << entities, detailSequence, sequence, configRest >>

\* Refused: an error for a user, unseen for a workflow set.
DeleteRefused(c) ==
    /\ calls[c].at = "deleteChildren"
    /\ ~Removable(ChildrenOf(calls[c].id))
    /\ IF entity = "workflowSet"
       THEN calls' = [calls EXCEPT ![c].at = AfterDeletes(c), ![c].blind = TRUE]
       ELSE Ends(c, "failed")
    /\ UNCHANGED << entities, children, details, detailSequence, sequence, configRest >>

DeleteEntity(c) ==
    LET i == calls[c].id
        rows == ChildrenOf(i)
    IN
    /\ calls[c].at = "deleteEntity"
    /\ IF foreignKeys = "restrict" /\ rows # {}
       THEN Ends(c, "failed") /\ UNCHANGED << entities, children, details >>
       ELSE /\ entities' = [entities EXCEPT ![i] = 0]
            /\ children' = IF foreignKeys = "cascade" THEN children \ rows ELSE children
            /\ details' = DetailsLeft(rows)
            /\ Ends(c, "answered")
    /\ UNCHANGED << detailSequence, sequence, configRest >>

-------------------------------------------------------------------------------
Orphan(c) == foreignKeys # "none" /\ entities[calls[c].id] = 0
Row(c, n, l) == [id |-> n, of |-> calls[c].id, label |-> l, by |-> c]

\* A child is in; its details are next if it has any.
Inserted(c, n, l) ==
    /\ children' = children \cup {Row(c, n, l)}
    /\ calls' = [calls EXCEPT ![c].want = @ \ {l}, ![c].row = n,
                     ![c].at = IF l \in Detailed THEN "insertDetails" ELSE "insert"]

NextLabel(c) == CHOOSE l \in calls[c].want : \A k \in calls[c].want : l <= k

\* saveUserEntity looks the role of each assignment up when the old ones are gone.
RoleNotFound(c) ==
    /\ calls[c].at = "insert" /\ entity = "user" /\ calls[c].want # {}
    /\ Lucky
    /\ Ends(c, "rejected")
    /\ UNCHANGED << entities, children, details, detailSequence, sequence, configRest >>

\* The steps or assignments, one by one.  The number comes from the sequence: only a
\* user's can be taken, the other kinds have no rows that do not come from it.
InsertChild(c) ==
    LET n == sequence + 1 IN
    /\ calls[c].at = "insert" /\ entity # "role" /\ calls[c].want # {}
    /\ IF Orphan(c) THEN Ends(c, "failed") /\ UNCHANGED children
       ELSE IF n \in IdsOf(children) THEN Goes(c, "maxId") /\ UNCHANGED children
       ELSE Inserted(c, n, NextLabel(c))
    /\ sequence' = n
    /\ UNCHANGED << entities, details, detailSequence, configRest >>

\* Mutant: the highest number itself.
MaxIdUsed(c) ==
    /\ calls[c].at = "maxId"
    /\ calls' = [calls EXCEPT ![c].at = "insertId", ![c].row = MaxOf(IdsOf(children))]
    /\ UNCHANGED << entities, children, details, detailSequence, sequence, configRest >>

\* insertUserAssignmentWithRecovery: the number was taken, so the highest plus one.
NextIntId(c) ==
    /\ calls[c].at = "maxId"
    /\ calls' = [calls EXCEPT ![c].at = "insertId",
                              ![c].row = MaxOf(IdsOf(children)) + 1]
    /\ UNCHANGED << entities, children, details, detailSequence, sequence, configRest >>

InsertWithId(c) ==
    /\ calls[c].at = "insertId"
    /\ IF Orphan(c) \/ calls[c].row \in IdsOf(children)
       THEN Ends(c, "failed") /\ UNCHANGED children
       ELSE Inserted(c, calls[c].row, NextLabel(c))
    /\ UNCHANGED << entities, details, detailSequence, sequence, configRest >>

\* What it hangs on a child that is no longer there the database may refuse.
PutDetails(c, n) ==
    IF foreignKeys # "none" /\ calls[c].row \notin IdsOf(children)
    THEN Ends(c, "failed") /\ UNCHANGED details
    ELSE details' = details \cup {[id |-> n, of |-> calls[c].row]} /\ Goes(c, "insert")

\* Roles and triggers of a step, scopes of an assignment.
InsertDetails(c) ==
    LET n == detailSequence + 1 IN
    /\ calls[c].at = "insertDetails"
    /\ IF n \in IdsOf(details) THEN Goes(c, "maxDetail") /\ UNCHANGED details
       ELSE PutDetails(c, n)
    /\ detailSequence' = n
    /\ UNCHANGED << entities, children, sequence, configRest >>

\* insertUserAssignmentScopesWithRecovery, as for the assignments.
NextDetailId(c) ==
    /\ calls[c].at = "maxDetail"
    /\ calls' = [calls EXCEPT ![c].at = "insertDetailId",
                              ![c].number = MaxOf(IdsOf(details)) + 1]
    /\ UNCHANGED << entities, children, details, detailSequence, sequence, configRest >>

InsertDetailsWithId(c) ==
    /\ calls[c].at = "insertDetailId"
    /\ IF calls[c].number \in IdsOf(details) THEN Ends(c, "failed") /\ UNCHANGED details
       ELSE PutDetails(c, calls[c].number)
    /\ UNCHANGED << entities, children, detailSequence, sequence, configRest >>

\* The permissions of a role go in with one call.
InsertPermissions(c) ==
    /\ calls[c].at = "insert" /\ entity = "role" /\ calls[c].want # {}
    /\ IF Orphan(c) THEN Ends(c, "failed") /\ UNCHANGED << children, sequence >>
       ELSE /\ children' = children \cup {Row(c, sequence + l, l) : l \in calls[c].want}
            /\ sequence' = sequence + MaxOf(calls[c].want)
            /\ calls' = [calls EXCEPT ![c].want = {}]
    /\ UNCHANGED << entities, details, detailSequence, configRest >>

AnswerCall(c) ==
    /\ calls[c].at = "insert" /\ calls[c].want = {}
    /\ Ends(c, "answered")
    /\ UNCHANGED << entities, children, details, detailSequence, sequence, configRest >>

\* An error that is looked at, or the end of the process, between two calls.
DieCall(c) ==
    /\ c \in InProgress
    /\ Lucky
    /\ Ends(c, "died")
    /\ UNCHANGED << entities, children, details, detailSequence, sequence, configRest >>

CallStep(c) ==
    \/ AllocateNextRoleId(c) \/ UpsertEntity(c)
    \/ ReadChildren(c) \/ ReadUnseen(c)
    \/ DeleteDetails(c) \/ DeleteChildren(c) \/ DeleteUnseen(c) \/ DeleteRefused(c)
    \/ DeleteEntity(c)
    \/ RoleNotFound(c) \/ InsertChild(c) \/ NextIntId(c) \/ InsertWithId(c)
    \/ InsertDetails(c) \/ NextDetailId(c) \/ InsertDetailsWithId(c)
    \/ InsertPermissions(c) \/ AnswerCall(c)
    \/ DieCall(c)

ConfigNext ==
    \E c \in Calls :
        \/ \E sent \in Payloads :
              SaveNewRole(c, sent) \/ \E i \in Ids : SaveEntity(c, i, sent)
        \/ \E i \in Ids : DeleteCall(c, i)
        \/ CallStep(c)

ConfigSpec == ConfigInit /\ [][ConfigNext]_configVars

-------------------------------------------------------------------------------
(* Properties *)

Seen(c) == calls[c].at = "answered" /\ ~calls[c].blind

\* No child is left of a save that was over before this one began.
OldGone(c) == \A r \in ChildrenOf(calls[c].id) : r.by \notin earlier[c]

\* One child for each label it was sent, with its details, and no others.
Exactly(c) ==
    LET rows == ChildrenOf(calls[c].id) IN
    /\ {r.label : r \in rows} = calls[c].sent
    /\ Cardinality(rows) = Cardinality(calls[c].sent)
    /\ \A r \in rows : r.label \in Detailed /\ entity # "role" => r.id \in WithDetails

LastOfItsEntity(c) ==
    \A b \in Calls : b > c => calls[b].at = "idle" \/ calls[b].id # calls[c].id

\* A user's assignments are deleted before the new ones have numbers: a save that
\* runs alone finds a free one for each and for its scopes, however far the sequences
\* lag behind.  (A role that is not found does leave the user without: "rejected".)
NumbersAreFound ==
    \A c \in Calls :
        calls[c].at = "failed" /\ undisturbed[c] /\ entity = "user" => calls[c].deletes

\* A save that is answered with every error seen has replaced what was there:
\* whatever ran at once, nothing is left from before it, and if it ran alone there is
\* exactly what it was sent, whatever mixture saves that died or ran at once had left.
\* One that only deleted what was there does not end alone.
SaveReplaces ==
    /\ \A c \in Calls : Seen(c) /\ ~calls[c].deletes =>
          /\ OldGone(c)
          /\ undisturbed[c] /\ LastOfItsEntity(c) => Exactly(c)
    /\ NumbersAreFound

\* A new role takes no other role's number, and its name is not given to another
\* role, unless two new roles are saved at once.
RolesKeepTheirName ==
    [][\A c \in Calls :
          calls[c].at = "upsert" /\ calls'[c].at = "deleteChildren" /\ calls[c].fresh
          /\ undisturbed[c] => entities[calls[c].id] = 0]_configVars

===============================================================================
