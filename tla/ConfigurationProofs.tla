-------------------------- MODULE ConfigurationProofs --------------------------
(***************************************************************************)
(* Theorems about Configuration, for any number of requests at once, any   *)
(* payloads and whatever the database does about a parent that goes.       *)
(*                                                                         *)
(* What a save leaves is the end of what it did on the way: CallHolds says *)
(* for each place that a request has come to what it has deleted and put   *)
(* in so far (SweptClean for any save, OnItsWay for one that runs alone).  *)
(***************************************************************************)
EXTENDS Configuration, FiniteSetTheorems, TLAPS

IdleCall == [at |-> "idle", deletes |-> FALSE, fresh |-> FALSE, id |-> 0,
             sent |-> {}, want |-> {}, ids |-> {}, row |-> 0, number |-> 0,
             blind |-> FALSE]

Detailing == {"insertDetails", "maxDetail", "insertDetailId"}
Inserting == {"insert", "maxId", "insertId", "insertDetails", "maxDetail", "insertDetailId"}
Deleting == {"read", "deleteDetails", "deleteChildren"}

\* What goes with the place that a request has come to.
Placed(c) ==
    LET q == calls[c] IN
    /\ q.at = "idle" => q = IdleCall
    /\ q.at \in {"read", "deleteDetails", "maxId", "insertId"} \cup Detailing
         => entity # "role"
    /\ q.at = "maxRole" => entity = "role" /\ q.id = 0
    /\ q.at \notin {"idle", "maxRole", "rejected", "failed", "died"} => q.id \in Ids
    /\ entity # "role" /\ q.at # "idle" => q.id = 1
    /\ q.blind => entity = "workflowSet" /\ q.at \notin {"maxRole", "upsert"}
    /\ q.at \in {"maxId", "insertId"} => q.want # {}
    /\ q.at \in {"maxRole", "upsert"} \cup Inserting => ~q.deletes
    /\ q.at = "deleteEntity" => q.deletes
    /\ q.want \subseteq q.sent /\ IsFiniteSet(q.sent)

\* A save that has seen every error has left nothing from before it.
SweptClean(c) ==
    calls[c].at \in Inserting \cup {"answered"} /\ ~calls[c].deletes /\ ~calls[c].blind
        => OldGone(c)

\* What a save that runs alone has put in so far.
PutIn(c) ==
    LET rows == ChildrenOf(calls[c].id) IN
    /\ {r.label : r \in rows} = calls[c].sent \ calls[c].want
    /\ \A r, s \in rows : r.label = s.label => r = s
    /\ \A r \in rows : r.label \in Detailed /\ entity # "role" =>
          r.id \in WithDetails \/ (calls[c].at \in Detailing /\ r.id = calls[c].row)

\* How far a save has come that nothing disturbed.
OnItsWay(c) ==
    LET q == calls[c]
        ids == IdsOf(ChildrenOf(q.id))
    IN
    undisturbed[c] /\ ~q.deletes /\ ~q.blind =>
        /\ q.at \in {"maxRole", "upsert"} \cup Deleting => q.want = q.sent
        /\ q.at = "upsert" /\ q.fresh => entities[q.id] = 0
        /\ q.at \in Deleting \cup Inserting => entities[q.id] # 0
        /\ q.at = "deleteDetails" => q.ids = ids
        /\ q.at = "deleteChildren" /\ entity # "role" => ids \cap WithDetails = {}
        /\ q.at \in Inserting => PutIn(c)
        /\ q.at = "insertId" => q.row \notin IdsOf(children)
        /\ q.at \in Detailing => q.row \in ids
        /\ q.at = "insertDetailId" => q.number \notin IdsOf(details)
        /\ q.at = "answered" /\ LastOfItsEntity(c) => PutIn(c) /\ q.want = {}

NumberFound(c) ==
    calls[c].at = "failed" /\ undisturbed[c] /\ entity = "user" => calls[c].deletes

CallHolds(c) == Placed(c) /\ SweptClean(c) /\ OnItsWay(c) /\ NumberFound(c)

\* Steps and assignments have numbers of their own.
NumbersDiffer ==
    entity # "role" => \A r, s \in children : r.id = s.id => r = s

TablesFinite == IsFiniteSet(children) /\ IsFiniteSet(details)

\* Requests begin in order; what one begins behind is over, and who is undisturbed is
\* the only one.
InTurn ==
    \A c \in Calls : calls[c].at # "idle" =>
        /\ \A b \in Calls : b < c => calls[b].at # "idle"
        /\ \A b \in earlier[c] : Over(b)
        /\ undisturbed[c] => /\ \A b \in Calls : b < c => Over(b)
                             /\ Over(c) \/ \A b \in Calls : b > c => calls[b].at = "idle"

\* Only roles are many.
EntitiesNamed == entity # "role" => \A i \in Ids : entities[i] # 0 => i = 1

\* Small enough to be open in every proof.
USE DEF Detailing, WithDetails

ConfigInv ==
    /\ ConfigTypeOK
    /\ EntitiesNamed
    /\ TablesFinite /\ NumbersDiffer
    /\ InTurn
    /\ \A c \in Calls : CallHolds(c)

-------------------------------------------------------------------------------
(* The data. *)

\* A finite set of numbers has a largest member: a smallest finite set without one, by
\* inclusion, would have one once a member is taken out.
LEMMA FiniteMaximum ==
    ASSUME NEW S \in SUBSET Nat, IsFiniteSet(S), S # {}
    PROVE  \E n \in S : \A k \in S : k <= n
PROOF
<1> DEFINE Top(T) == \E n \in T : \A k \in T : k <= n
           Bad == {T \in FiniteSubsetsOf(Nat) : T # {} /\ ~Top(T)}
<1>1. SUFFICES ASSUME Bad # {} PROVE FALSE
  BY DEF FiniteSubsetsOf
<1>2. PICK T \in Bad : \A U \in Bad : ~(<< U, T >> \in StrictSubsetOrdering(Nat))
  <2> HIDE DEF Bad
  <2>1. Bad \subseteq FiniteSubsetsOf(Nat)
    BY DEF Bad
  <2> QED BY <1>1, <2>1, WFMin, FS_StrictSubsetOrderingWellFounded, Zenon
<1>3. PICK x \in T : TRUE
  OBVIOUS
<1>4. T \ {x} \in FiniteSubsetsOf(Nat)
  BY FS_RemoveElement DEF FiniteSubsetsOf
<1>5. << T \ {x}, T >> \in StrictSubsetOrdering(Nat)
  BY <1>3 DEF StrictSubsetOrdering, FiniteSubsetsOf
<1>6. T \ {x} = {} \/ Top(T \ {x})
  BY <1>2, <1>4, <1>5
<1>7. T \in SUBSET Nat /\ x \in Nat
  BY <1>3 DEF FiniteSubsetsOf
<1>8. CASE T \ {x} = {}
  BY <1>3, <1>7, <1>8
<1>9. CASE Top(T \ {x})
  <2>1. PICK n \in T \ {x} : \A k \in T \ {x} : k <= n
    BY <1>9
  <2>2. CASE x <= n
    BY <2>1, <2>2, <1>3, <1>7
  <2>3. CASE ~(x <= n)
    BY <2>1, <2>3, <1>3, <1>7
  <2> QED BY <2>2, <2>3
<1> QED BY <1>6, <1>8, <1>9

\* And a smallest one: what is left below any member has a finite number of distances.
LEMMA FiniteMinimum ==
    ASSUME NEW S \in SUBSET Nat, IsFiniteSet(S), S # {}
    PROVE  \E n \in S : \A k \in S : n <= k
PROOF
<1>1. PICK top \in S : \A k \in S : k <= top
  BY FiniteMaximum
<1> DEFINE D == {n \in 0..top : top - n \in S}
<1>2. D \in SUBSET Nat /\ top \in Nat /\ \A n \in D : n <= top
  BY <1>1
<1>3. IsFiniteSet(D)
  BY <1>2, FS_BoundedSetOfNaturals
<1>4. 0 \in D
  BY <1>1
<1>5. PICK n \in D : \A k \in D : k <= n
  BY <1>2, <1>3, <1>4, FiniteMaximum
<1>6. ASSUME NEW k \in S PROVE top - n <= k
  <2>1. k \in Nat /\ k <= top /\ top - k \in D
    BY <1>1, <1>6
  <2> QED BY <2>1, <1>5, <1>2
<1> QED BY <1>5, <1>6

LEMMA MaxOfBounds ==
    ASSUME NEW S \in SUBSET Nat, IsFiniteSet(S)
    PROVE  MaxOf(S) \in Nat /\ \A k \in S : k <= MaxOf(S)
BY FiniteMaximum DEF MaxOf

LEMMA NextLabelWanted ==
    ASSUME NEW c \in Calls, calls[c].want # {}, calls[c].want \in SUBSET Nat,
           IsFiniteSet(calls[c].want)
    PROVE  NextLabel(c) \in calls[c].want
BY FiniteMinimum DEF NextLabel

LEMMA CallTypes ==
    ASSUME ConfigTypeOK, NEW c \in Calls
    PROVE  /\ calls \in [Calls -> Call] /\ calls[c] \in Call
           /\ calls[c].deletes \in BOOLEAN /\ calls[c].fresh \in BOOLEAN
           /\ calls[c].blind \in BOOLEAN
           /\ calls[c].id \in 0..MaxRoleId
           /\ calls[c].sent \in SUBSET Labels /\ calls[c].want \in SUBSET Labels
           /\ calls[c].ids \in SUBSET Nat /\ calls[c].row \in Nat
           /\ calls[c].number \in Nat
BY DEF ConfigTypeOK, Call

LEMMA IdsFinite ==
    ASSUME IsFiniteSet(children)
    PROVE  IsFiniteSet(IdsOf(children))
PROOF
<1> DEFINE f == [r \in children |-> r.id]
<1>1. f \in Surjection(children, IdsOf(children))
  BY DEF Surjection, IdsOf
<1> QED BY <1>1, FS_Surjection

-------------------------------------------------------------------------------
LEMMA ConfigInitInv ==
    ConfigInit => ConfigInv
PROOF
<1> SUFFICES ASSUME ConfigInit PROVE ConfigInv
  OBVIOUS
<1>1. PICK l \in Labels :
         children = IF entity # "user" THEN {}
                    ELSE {[id |-> n, of |-> 0, label |-> l, by |-> 0] : n \in Imported}
  BY DEF ConfigInit
<1>2. IdleCall \in Call
  BY ConfigurationAssumption DEF IdleCall, Call
<1>3. children \subseteq Child
  BY <1>1, ConfigurationAssumption DEF Child
<1>4. TablesFinite
  <2> DEFINE f == [n \in Imported |-> [id |-> n, of |-> 0, label |-> l, by |-> 0]]
             T == {[id |-> n, of |-> 0, label |-> l, by |-> 0] : n \in Imported}
  <2>1. f \in Surjection(Imported, T)
    BY DEF Surjection
  <2>2. IsFiniteSet(T)
    BY <2>1, FS_Surjection, ConfigurationAssumption
  <2>3. IsFiniteSet(children)
    BY <1>1, <2>2, FS_EmptySet
  <2> DEFINE g == [r \in children |-> [id |-> r.id, of |-> r.id]]
  <2>4. g \in Surjection(children, {[id |-> r.id, of |-> r.id] : r \in children})
    BY DEF Surjection
  <2>5. IsFiniteSet(details)
    BY <2>3, <2>4, FS_Surjection DEF ConfigInit
  <2> QED BY <2>3, <2>5 DEF TablesFinite
<1>11. details \subseteq Detail
  BY <1>3 DEF ConfigInit, Child, Detail
<1>5. ConfigTypeOK
  BY <1>2, <1>3, <1>11, ConfigurationAssumption DEF ConfigInit, ConfigTypeOK, IdleCall
<1>6. NumbersDiffer
  BY <1>1 DEF NumbersDiffer, TablesFinite
<1>7. \A c \in Calls : calls[c] = IdleCall
  BY DEF ConfigInit, IdleCall
<1>8. InTurn
  BY <1>7 DEF InTurn, IdleCall
<1>9. ASSUME NEW c \in Calls PROVE CallHolds(c)
  BY <1>7, FS_EmptySet DEF CallHolds, Placed, SweptClean, OnItsWay, NumberFound, IdleCall,
     Inserting, Deleting
<1>10. EntitiesNamed
  BY DEF ConfigInit, EntitiesNamed
<1> QED BY <1>4, <1>5, <1>6, <1>8, <1>9, <1>10 DEF ConfigInv

\* What every step of a request leaves alone.
StepOf(c) ==
    /\ calls[c].at # "idle" /\ ~Over(c)
    /\ calls' \in [Calls -> Call] /\ \A b \in Calls \ {c} : calls'[b] = calls[b]
    /\ calls'[c].at # "idle"
    /\ calls'[c].id = calls[c].id \/ (calls[c].at = "maxRole" /\ children' = children)
    /\ UNCHANGED configRest
    /\ \A r \in children' : r \in children \/ (r.by = c /\ r.of = calls[c].id)
    /\ \A r \in children : r \in children' \/ r.of = calls[c].id

LEMMA OthersHold ==
    ASSUME ConfigInv, NEW c \in Calls, StepOf(c)
    PROVE  InTurn' /\ \A b \in Calls \ {c} : CallHolds(b)'
PROOF
<1>1. /\ \A b \in Calls \ {c} : calls'[b] = calls[b]
      /\ calls[c].at # "idle" /\ ~Over(c) /\ calls'[c].at # "idle"
      /\ entity' = entity /\ foreignKeys' = foreignKeys /\ earlier' = earlier
      /\ undisturbed' = undisturbed
      /\ InTurn /\ earlier \in [Calls -> SUBSET Calls]
  BY DEF StepOf, configRest, ConfigInv, ConfigTypeOK
<1>2. \A b \in Calls \ {c} : /\ Over(b)' = Over(b)
  BY <1>1 DEF Over
<1>3. InTurn'
  <2> SUFFICES ASSUME NEW d \in Calls, calls'[d].at # "idle"
               PROVE  /\ \A b \in Calls : b < d => calls'[b].at # "idle"
                      /\ \A b \in earlier[d] : Over(b)'
                      /\ undisturbed[d] =>
                           /\ \A b \in Calls : b < d => Over(b)'
                           /\ Over(d)' \/ \A b \in Calls : b > d => calls'[b].at = "idle"
    BY <1>1 DEF InTurn
  <2>1. calls[d].at # "idle"
    BY <1>1
  <2>2. \A b \in Calls : Over(b) => Over(b)' /\ b # c
    BY <1>1, <1>2
  <2>3. \A b \in earlier[d] : b \in Calls
    BY <1>1
  <2>4. undisturbed[d] => Over(d)' \/ \A b \in Calls : b > d => calls'[b].at = "idle"
    BY <1>1, <2>1, <2>2 DEF InTurn
  <2> QED BY <1>1, <2>1, <2>2, <2>3, <2>4 DEF InTurn
<1>4. ASSUME NEW b \in Calls \ {c} PROVE CallHolds(b)'
  <2>1. /\ CallHolds(b) /\ calls'[b] = calls[b] /\ b \in Calls
    BY <1>1, <1>4 DEF ConfigInv
  <2>2. Placed(b)' /\ NumberFound(b)'
    BY <1>1, <2>1 DEF CallHolds, Placed, NumberFound
  <2>3. SweptClean(b)'
    <3>1. calls[b].at # "idle" => c \notin earlier[b]
      BY <1>1 DEF InTurn
    <3> QED BY <1>1, <2>1, <3>1 DEF CallHolds, SweptClean, OldGone, ChildrenOf, StepOf, Inserting
  <2>4. OnItsWay(b)'
    <3> SUFFICES ASSUME undisturbed[b], ~calls[b].deletes, ~calls[b].blind,
                        calls[b].at # "idle"
                 PROVE  OnItsWay(b)'
      BY <1>1, <2>1 DEF OnItsWay, Inserting, Deleting
    <3>1. Over(b) /\ c > b
      BY <1>1 DEF InTurn, Calls
    <3> SUFFICES ASSUME calls[b].at = "answered", LastOfItsEntity(b)'
                 PROVE  PutIn(b)' /\ calls[b].want = {}
      BY <1>1, <2>1, <3>1 DEF OnItsWay, Over, Inserting, Deleting
    <3>2. calls'[c].id # calls[b].id
      BY <1>1, <2>1, <3>1 DEF LastOfItsEntity
    <3>3. calls[b].id \in Ids /\ (entity # "role" => calls[b].id = 1)
      BY <2>1 DEF CallHolds, Placed
    <3>4. entity # "role" => calls[c].id = 1 /\ calls[c].at # "maxRole"
      BY <1>1 DEF ConfigInv, CallHolds, Placed
    <3>5. entity = "role"
      BY <3>2, <3>3, <3>4 DEF StepOf
    <3>6. calls[c].at = "maxRole" => calls[c].id = 0
      BY DEF ConfigInv, CallHolds, Placed
    <3>7. calls[c].id # calls[b].id
      BY <3>2, <3>3, <3>6 DEF StepOf, Ids
    <3>8. LastOfItsEntity(b)
      BY <1>1, <2>1, <3>7 DEF LastOfItsEntity
    <3>9. ChildrenOf(calls[b].id)' = ChildrenOf(calls[b].id)
      BY <2>1, <3>7 DEF ChildrenOf, StepOf
    <3>10. PutIn(b) /\ calls[b].want = {}
      BY <2>1, <3>8 DEF CallHolds, OnItsWay
    <3> QED BY <1>1, <2>1, <3>5, <3>9, <3>10 DEF PutIn
  <2> QED BY <2>2, <2>3, <2>4 DEF CallHolds
<1> QED BY <1>3, <1>4

LEMMA StepInv ==
    ASSUME ConfigInv, NEW c \in Calls, StepOf(c), ConfigTypeOK', EntitiesNamed', TablesFinite',
           NumbersDiffer', CallHolds(c)'
    PROVE  ConfigInv'
BY OthersHold DEF ConfigInv

-------------------------------------------------------------------------------
(* A request begins. *)

LEMMA BeginsInv ==
    ASSUME ConfigInv, NEW c \in Calls, NEW first \in {"maxRole", "upsert", "read", "deleteEntity"},
           NEW i \in 0..MaxRoleId, NEW sent \in SUBSET Labels, IsFiniteSet(sent),
           BeginCall(c, first, i, sent),
           first = "maxRole" => entity = "role" /\ i = 0,
           first # "maxRole" => i \in Ids, entity # "role" => i = 1,
           first = "read" => entity # "role"
    PROVE  ConfigInv'
PROOF
<1>1. /\ ConfigTypeOK /\ CallHolds(c) /\ InTurn
      /\ calls[c].at = "idle" /\ calls[c] = IdleCall
      /\ \A b \in Calls : b < c => calls[b].at # "idle"
      /\ UNCHANGED << entity, foreignKeys, entities, children, details, detailSequence,
                      sequence >>
  BY DEF ConfigInv, CallHolds, Placed, BeginCall
<1>2. /\ calls' = [calls EXCEPT ![c] =
                    [at |-> first, deletes |-> first \in {"read", "deleteEntity"},
                     fresh |-> first = "maxRole", id |-> i, sent |-> sent, want |-> sent,
                     ids |-> {}, row |-> 0, number |-> 0, blind |-> FALSE]]
      /\ earlier' = [earlier EXCEPT ![c] = {b \in Calls : Over(b)}]
      /\ undisturbed' = [b \in Calls |-> IF b = c THEN InProgress = {}
                                         ELSE undisturbed[b] /\ b \notin InProgress]
  BY DEF BeginCall
<1>3. /\ calls[c] \in Call /\ calls \in [Calls -> Call]
      /\ earlier \in [Calls -> SUBSET Calls] /\ undisturbed \in [Calls -> BOOLEAN]
  BY <1>1 DEF ConfigTypeOK
<1> DEFINE q == calls'[c]
<1>4. /\ calls' \in [Calls -> Call]
      /\ q.at = first /\ q.id = i /\ q.sent = sent /\ q.want = sent
      /\ q.fresh = (first = "maxRole") /\ q.deletes = (first \in {"read", "deleteEntity"})
      /\ q.blind = FALSE
      /\ \A b \in Calls \ {c} : calls'[b] = calls[b]
  <2> DEFINE fresh == first = "maxRole"
             deletes == first \in {"read", "deleteEntity"}
             new == [at |-> first, deletes |-> deletes, fresh |-> fresh, id |-> i,
                     sent |-> sent, want |-> sent, ids |-> {}, row |-> 0, number |-> 0,
                     blind |-> FALSE]
  <2>1. fresh \in BOOLEAN /\ deletes \in BOOLEAN
    OBVIOUS
  <2> HIDE DEF fresh, deletes
  <2>2. new \in Call
    BY <2>1 DEF Call
  <2>4. calls' = [calls EXCEPT ![c] = new]
    BY <1>2 DEF fresh, deletes
  <2>5. calls'[c] = new
    BY <2>4, <1>3
  <2>6. q.at = first /\ q.id = i /\ q.sent = sent /\ q.want = sent /\ q.fresh = fresh
        /\ q.deletes = deletes /\ q.blind = FALSE
    BY <2>5
  <2> QED BY <2>2, <2>4, <2>6, <1>3 DEF fresh, deletes
<1> HIDE DEF q
<1>5. ConfigTypeOK'
  <2>1. earlier' \in [Calls -> SUBSET Calls] /\ undisturbed' \in [Calls -> BOOLEAN]
    BY <1>2, <1>3
  <2> QED BY <1>1, <1>4, <2>1 DEF ConfigTypeOK
<1>6. TablesFinite' /\ NumbersDiffer' /\ EntitiesNamed'
  BY <1>1 DEF ConfigInv, NumbersDiffer, TablesFinite, EntitiesNamed
<1>7. /\ \A b \in Calls \ {c} : Over(b)' = Over(b) /\ earlier'[b] = earlier[b]
      /\ \A b \in Calls \ {c} : undisturbed'[b] => undisturbed[b] /\ b \notin InProgress
      /\ ~Over(c) /\ ~Over(c)'
      /\ earlier'[c] = {b \in Calls : Over(b)} /\ undisturbed'[c] = (InProgress = {})
  <2>1. \A b \in Calls \ {c} : Over(b)' = Over(b) /\ earlier'[b] = earlier[b]
    BY <1>2, <1>3, <1>4 DEF Over
  <2>2. \A b \in Calls \ {c} : undisturbed'[b] => undisturbed[b] /\ b \notin InProgress
    BY <1>2
  <2>3. ~Over(c) /\ ~Over(c)'
    BY <1>1, <1>4 DEF Over, q
  <2>4. earlier'[c] = {b \in Calls : Over(b)}
    BY <1>2, <1>3
  <2>5. undisturbed'[c] = (InProgress = {})
    BY <1>2
  <2> QED BY <2>1, <2>2, <2>3, <2>4, <2>5
<1>8. InTurn'
  <2> SUFFICES ASSUME NEW d \in Calls, calls'[d].at # "idle"
               PROVE  /\ \A b \in Calls : b < d => calls'[b].at # "idle"
                      /\ \A b \in earlier'[d] : Over(b)'
                      /\ undisturbed'[d] =>
                           /\ \A b \in Calls : b < d => Over(b)'
                           /\ Over(d)' \/ \A b \in Calls : b > d => calls'[b].at = "idle"
    BY DEF InTurn
  <2>1. \A b \in Calls : Over(b) => Over(b)'
    BY <1>7
  <2>2. CASE d = c
    <3>1. \A b \in Calls : b > c => calls[b].at = "idle"
      BY <1>1 DEF InTurn, Calls
    <3>2. InProgress = {} => \A b \in Calls : b < c => Over(b)
      BY <1>1 DEF InProgress
    <3>3. \A b \in earlier'[c] : Over(b) /\ b \in Calls
      BY <1>7
    <3> QED BY <2>1, <2>2, <3>1, <3>2, <3>3, <1>1, <1>4, <1>7, ZenonT(60) DEF q, Calls
  <2>3. CASE d # c
    <3>1. /\ calls[d].at # "idle"
          /\ \A b \in Calls : b < d => calls[b].at # "idle"
          /\ \A b \in earlier[d] : Over(b)
          /\ undisturbed[d] => \A b \in Calls : b < d => Over(b)
          /\ undisturbed'[d] => Over(d)
      BY <2>3, <1>1, <1>4, <1>7 DEF InTurn, InProgress
    <3>2. \A b \in earlier[d] : b \in Calls
      BY <1>3
    <3>3. \A b \in Calls : calls[b].at # "idle" => calls'[b].at # "idle"
      BY <1>1, <1>4
    <3> QED BY <2>1, <2>3, <3>1, <3>2, <3>3, <1>7
  <2> QED BY <2>2, <2>3
<1>9. ASSUME NEW b \in Calls PROVE CallHolds(b)'
  <2>1. CASE b = c
    <3>1. Placed(c)'
      BY <1>1, <1>4 DEF Placed, q, Inserting
    <3>2. SweptClean(c)' /\ OnItsWay(c)' /\ NumberFound(c)'
      BY <1>1, <1>4 DEF SweptClean, OnItsWay, NumberFound, q, Inserting, Deleting
    <3> QED BY <2>1, <3>1, <3>2 DEF CallHolds
  <2>2. CASE b # c
    <3>1. calls'[b] = calls[b] /\ CallHolds(b) /\ (undisturbed'[b] => undisturbed[b])
      BY <2>2, <1>4, <1>7 DEF ConfigInv
    <3>2. Placed(b)' /\ NumberFound(b)'
      BY <1>1, <3>1 DEF CallHolds, Placed, NumberFound
    <3>3. SweptClean(b)'
      BY <2>2, <1>1, <1>7, <3>1 DEF CallHolds, SweptClean, OldGone, ChildrenOf
    <3>4. LastOfItsEntity(b)' => LastOfItsEntity(b)
      BY <1>1, <1>4, <3>1 DEF LastOfItsEntity
    <3>5. ChildrenOf(calls[b].id)' = ChildrenOf(calls[b].id)
      BY <1>1, <3>1 DEF ChildrenOf
    <3>6. OnItsWay(b)'
      BY <1>1, <3>1, <3>4, <3>5 DEF CallHolds, OnItsWay, PutIn
    <3> QED BY <3>2, <3>3, <3>6 DEF CallHolds
  <2> QED BY <2>1, <2>2
<1> QED BY <1>5, <1>6, <1>8, <1>9 DEF ConfigInv

LEMMA BeginInv ==
    ASSUME ConfigInv, NEW c \in Calls,
           \/ \E sent \in Payloads :
                 SaveNewRole(c, sent) \/ \E i \in Ids : SaveEntity(c, i, sent)
           \/ \E i \in Ids : DeleteCall(c, i)
    PROVE  ConfigInv'
PROOF
<1>1. Ids \subseteq 0..MaxRoleId /\ 0 \in 0..MaxRoleId
  BY ConfigurationAssumption DEF Ids
<1>2. ASSUME NEW sent \in Payloads, SaveNewRole(c, sent)
      PROVE  ConfigInv'
  BY <1>1, <1>2, BeginsInv, ConfigurationAssumption DEF SaveNewRole
<1>3. ASSUME NEW sent \in Payloads, NEW i \in Ids, SaveEntity(c, i, sent)
      PROVE  ConfigInv'
  BY <1>1, <1>3, BeginsInv, ConfigurationAssumption DEF SaveEntity
<1>4. ASSUME NEW i \in Ids, DeleteCall(c, i)
      PROVE  ConfigInv'
  <2>1. entity # "role" => i = 1
    BY <1>4 DEF DeleteCall, ConfigInv, EntitiesNamed
  <2> QED BY <1>1, <1>4, <2>1, BeginsInv, FS_EmptySet DEF DeleteCall
<1> QED BY <1>2, <1>3, <1>4

-------------------------------------------------------------------------------
(* A request goes on. *)

Places == {"idle", "maxRole", "upsert", "read", "deleteDetails", "deleteChildren",
           "insert", "maxId", "insertId", "insertDetails", "maxDetail", "insertDetailId",
           "deleteEntity", "answered", "rejected", "failed", "died"}
Ways == Places \ {"idle", "answered", "rejected", "failed", "died"}

LEMMA OnTheWay ==
    ASSUME NEW c \in Calls, calls[c].at \in Ways
    PROVE  calls[c].at # "idle" /\ ~Over(c)
BY DEF Ways, Places, Over

\* The steps that only move on.
LEMMA GoesFields ==
    ASSUME ConfigTypeOK, NEW c \in Calls, NEW at \in Places, Goes(c, at)
    PROVE  /\ calls' \in [Calls -> Call] /\ \A b \in Calls \ {c} : calls'[b] = calls[b]
           /\ calls'[c] = [calls[c] EXCEPT !.at = at]
           /\ calls'[c].at = at
           /\ calls'[c].deletes = calls[c].deletes /\ calls'[c].fresh = calls[c].fresh
           /\ calls'[c].id = calls[c].id /\ calls'[c].sent = calls[c].sent
           /\ calls'[c].want = calls[c].want /\ calls'[c].ids = calls[c].ids
           /\ calls'[c].row = calls[c].row /\ calls'[c].blind = calls[c].blind
BY ZenonT(60) DEF ConfigTypeOK, Goes, Call, Places

LEMMA EndsFields ==
    ASSUME ConfigTypeOK, NEW c \in Calls, 
           NEW at \in {"answered", "rejected", "failed", "died"}, Ends(c, at)
    PROVE  /\ calls' \in [Calls -> Call] /\ \A b \in Calls \ {c} : calls'[b] = calls[b]
           /\ calls'[c].at = at /\ calls'[c].id = calls[c].id
           /\ calls'[c].deletes = calls[c].deletes /\ calls'[c].blind = calls[c].blind
           /\ calls'[c].want = {}
           /\ calls'[c].sent = IF at = "answered" /\ undisturbed[c] THEN calls[c].sent ELSE {}
PROOF
<1> DEFINE sent == IF at = "answered" /\ undisturbed[c] THEN calls[c].sent ELSE {}
           new == [at |-> at, deletes |-> calls[c].deletes, fresh |-> FALSE, id |-> calls[c].id,
                   sent |-> sent, want |-> {}, ids |-> {}, row |-> 0, number |-> 0,
                   blind |-> calls[c].blind]
<1>1. calls' = [calls EXCEPT ![c] = new]
  BY DEF Ends, ConfigTypeOK
<1>2. sent \in SUBSET Labels /\ calls \in [Calls -> Call]
  BY DEF ConfigTypeOK, Call
<1>3. new \in Call
  BY <1>2, CallTypes DEF Call
<1> HIDE DEF sent
<1>4. /\ calls' \in [Calls -> Call] /\ \A b \in Calls \ {c} : calls'[b] = calls[b]
      /\ calls'[c] = new
  BY <1>1, <1>2, <1>3
<1> QED BY <1>4 DEF sent

\* A request that gives up.
LEMMA EndsInv ==
    ASSUME ConfigInv, NEW c \in Calls, NEW at \in {"rejected", "failed", "died"}, Ends(c, at),
           calls[c].at # "idle", ~Over(c),
           UNCHANGED << entities, children, details, configRest >>,
           sequence' \in Nat, detailSequence' \in Nat,
           at = "failed" /\ entity = "user" /\ undisturbed[c] => calls[c].deletes
    PROVE  ConfigInv'
PROOF
<1>1. ConfigTypeOK /\ CallHolds(c)
  BY DEF ConfigInv
<1>2. /\ calls' \in [Calls -> Call] /\ \A b \in Calls \ {c} : calls'[b] = calls[b]
      /\ calls'[c].at = at /\ calls'[c].id = calls[c].id
      /\ calls'[c].deletes = calls[c].deletes /\ calls'[c].blind = calls[c].blind
      /\ calls'[c].want = {} /\ calls'[c].sent = {}
  BY <1>1, EndsFields
<1>3. StepOf(c)
  BY <1>2 DEF StepOf
<1>4. ConfigTypeOK' /\ EntitiesNamed' /\ TablesFinite' /\ NumbersDiffer'
  BY <1>1, <1>2 DEF ConfigInv, ConfigTypeOK, EntitiesNamed, NumbersDiffer, TablesFinite,
     configRest
<1>5. Placed(c)'
  BY <1>1, <1>2, FS_EmptySet DEF CallHolds, Placed, configRest, Inserting
<1>6. SweptClean(c)' /\ OnItsWay(c)' /\ NumberFound(c)'
  BY <1>2 DEF SweptClean, OnItsWay, NumberFound, configRest, Inserting, Deleting
<1> QED BY <1>3, <1>4, <1>5, <1>6, StepInv DEF CallHolds

LEMMA AllocateInv ==
    ASSUME ConfigInv, NEW c \in Calls, AllocateNextRoleId(c)
    PROVE  ConfigInv'
PROOF
<1> DEFINE used == {i \in Ids : entities[i] # 0}
           next == MaxOf(used) + 1
<1>1. /\ ConfigTypeOK /\ CallHolds(c) /\ calls[c].at = "maxRole" /\ entity = "role"
      /\ calls[c].at # "idle" /\ ~Over(c)
      /\ UNCHANGED << entities, children, details, detailSequence, sequence, configRest >>
  BY DEF ConfigInv, CallHolds, Placed, AllocateNextRoleId, Over
<1>2. next \in Nat \ {0} /\ \A i \in used : i < next
  <2>1. used \in SUBSET Nat /\ \A i \in used : i <= MaxRoleId
    BY ConfigurationAssumption DEF Ids
  <2>2. IsFiniteSet(used)
    BY <2>1, FS_BoundedSetOfNaturals, ConfigurationAssumption
  <2> HIDE DEF used
  <2> QED BY <2>1, <2>2, MaxOfBounds
<1>3. CASE next > MaxRoleId
  <2>1. Ends(c, "failed")
    BY <1>3 DEF AllocateNextRoleId
  <2> QED BY <1>1, <2>1, EndsInv DEF ConfigInv, ConfigTypeOK
<1>4. CASE ~(next > MaxRoleId)
  <2>1. next \in Ids /\ next \in 0..MaxRoleId /\ entities[next] = 0
    BY <1>2, <1>4, ConfigurationAssumption DEF Ids
  <2>2. calls' = [calls EXCEPT ![c].at = "upsert", ![c].id = next]
    BY <1>4 DEF AllocateNextRoleId
  <2> HIDE DEF next
  <2>3. /\ calls' \in [Calls -> Call] /\ \A b \in Calls \ {c} : calls'[b] = calls[b]
        /\ calls'[c].at = "upsert" /\ calls'[c].id = next
        /\ calls'[c].deletes = calls[c].deletes /\ calls'[c].blind = calls[c].blind
        /\ calls'[c].want = calls[c].want /\ calls'[c].sent = calls[c].sent
    <3>1. calls \in [Calls -> Call]
      BY <1>1, CallTypes
    <3> DEFINE new == [calls[c] EXCEPT !.at = "upsert", !.id = next]
    <3>2. new \in Call
      BY <3>1, <2>1, ZenonT(60) DEF Call
    <3>3. calls' = [calls EXCEPT ![c] = new]
      BY <2>2, <3>1, Zenon
    <3>4. calls' \in [Calls -> Call] /\ \A b \in Calls \ {c} : calls'[b] = calls[b]
      BY <3>1, <3>2, <3>3
    <3>5. /\ calls'[c].at = "upsert" /\ calls'[c].id = next
          /\ calls'[c].deletes = calls[c].deletes /\ calls'[c].blind = calls[c].blind
          /\ calls'[c].want = calls[c].want /\ calls'[c].sent = calls[c].sent
      BY <3>1, <2>2 DEF Call
    <3> QED BY <3>4, <3>5
  <2>4. StepOf(c)
    BY <1>1, <2>3 DEF StepOf
  <2>5. ConfigTypeOK' /\ EntitiesNamed' /\ TablesFinite' /\ NumbersDiffer'
    BY <1>1, <2>3 DEF ConfigInv, ConfigTypeOK, EntitiesNamed, NumbersDiffer, TablesFinite,
     configRest
  <2>6. Placed(c)'
    BY <1>1, <2>1, <2>3 DEF CallHolds, Placed, configRest, Inserting
  <2>7. SweptClean(c)' /\ NumberFound(c)'
    BY <2>3 DEF SweptClean, NumberFound, Inserting
  <2>8. OnItsWay(c)'
    BY <1>1, <2>1, <2>3 DEF CallHolds, OnItsWay, configRest, Inserting, Deleting
  <2> QED BY <2>4, <2>5, <2>6, <2>7, <2>8, StepInv DEF CallHolds
<1> QED BY <1>3, <1>4

LEMMA UpsertEntityInv ==
    ASSUME ConfigInv, NEW c \in Calls, UpsertEntity(c)
    PROVE  ConfigInv'
PROOF
<1>1. /\ ConfigTypeOK /\ CallHolds(c) /\ calls[c].at = "upsert"
      /\ calls[c].at # "idle" /\ ~Over(c)
      /\ UNCHANGED << children, details, detailSequence, sequence, configRest >>
      /\ calls[c].id \in Ids /\ ~calls[c].deletes
  BY DEF ConfigInv, CallHolds, Placed, UpsertEntity, Over
<1> DEFINE at == IF entity = "role" THEN "deleteChildren" ELSE "read"
<1>2. /\ at \in Places /\ Goes(c, at)
  BY DEF UpsertEntity, Places
<1>3. /\ entities' = [entities EXCEPT ![calls[c].id] = c] /\ c \in Nat \ {0}
      /\ entities'[calls[c].id] = c
  BY <1>1 DEF UpsertEntity, ConfigTypeOK, Calls
<1> HIDE DEF at
<1>4. /\ calls' \in [Calls -> Call] /\ \A b \in Calls \ {c} : calls'[b] = calls[b]
      /\ calls'[c].at = at /\ calls'[c].id = calls[c].id
      /\ calls'[c].deletes = calls[c].deletes /\ calls'[c].blind = calls[c].blind
      /\ calls'[c].want = calls[c].want /\ calls'[c].sent = calls[c].sent
  BY <1>1, <1>2, GoesFields
<1>5. StepOf(c)
  BY <1>1, <1>4 DEF StepOf, at
<1>6. ConfigTypeOK' /\ TablesFinite' /\ NumbersDiffer'
  BY <1>1, <1>3, <1>4, ConfigurationAssumption
     DEF ConfigInv, ConfigTypeOK, NumbersDiffer, TablesFinite, configRest, Calls
<1>7. EntitiesNamed'
  BY <1>1, <1>3 DEF ConfigInv, ConfigTypeOK, EntitiesNamed, CallHolds, Placed, configRest
<1>8. Placed(c)'
  BY <1>1, <1>4 DEF CallHolds, Placed, configRest, Inserting, at
<1>9. SweptClean(c)' /\ NumberFound(c)'
  BY <1>4 DEF SweptClean, NumberFound, Inserting, at
<1>10. OnItsWay(c)'
  BY <1>1, <1>3, <1>4 DEF CallHolds, OnItsWay, configRest, Inserting, Deleting, at
<1> QED BY <1>5, <1>6, <1>7, <1>8, <1>9, <1>10, StepInv DEF CallHolds

LEMMA ReadChildrenInv ==
    ASSUME ConfigInv, NEW c \in Calls, ReadChildren(c)
    PROVE  ConfigInv'
PROOF
<1> DEFINE ids == IdsOf(ChildrenOf(calls[c].id))
           at == IF ids # {} THEN "deleteDetails"
                 ELSE IF entity = "user" THEN "deleteChildren" ELSE AfterDeletes(c)
<1>1. /\ ConfigTypeOK /\ CallHolds(c) /\ calls[c].at = "read"
      /\ calls[c].at # "idle" /\ ~Over(c) /\ calls[c].id \in Ids /\ entity # "role"
      /\ UNCHANGED << entities, children, details, detailSequence, sequence, configRest >>
  BY DEF ConfigInv, CallHolds, Placed, ReadChildren, Over
<1>2. /\ calls' = [calls EXCEPT ![c].ids = ids, ![c].at = at]
      /\ ids \in SUBSET Nat
      /\ at \in {"deleteDetails", "deleteChildren", "insert", "deleteEntity"}
      /\ at = "deleteDetails" \/ ids = {}
      /\ at = "insert" => ~calls[c].deletes
      /\ at = "deleteEntity" => calls[c].deletes
      /\ at \in Places
  BY <1>1 DEF ReadChildren, Found, IdsOf, ChildrenOf, ConfigTypeOK, Child, AfterDeletes,
     Places
<1> HIDE DEF at
<1>3. ids = {} => ChildrenOf(calls[c].id) = {}
  BY DEF IdsOf
<1> HIDE DEF ids
<1>4. /\ calls' \in [Calls -> Call] /\ \A b \in Calls \ {c} : calls'[b] = calls[b]
      /\ calls'[c].at = at /\ calls'[c].id = calls[c].id /\ calls'[c].ids = ids
      /\ calls'[c].deletes = calls[c].deletes /\ calls'[c].blind = calls[c].blind
      /\ calls'[c].want = calls[c].want /\ calls'[c].sent = calls[c].sent
  BY <1>1, <1>2 DEF ConfigTypeOK, Call, Places
<1>5. StepOf(c)
  BY <1>1, <1>2, <1>4 DEF StepOf
<1>6. ConfigTypeOK' /\ EntitiesNamed' /\ TablesFinite' /\ NumbersDiffer'
  BY <1>1, <1>4 DEF ConfigInv, ConfigTypeOK, EntitiesNamed, NumbersDiffer, TablesFinite,
     configRest
<1>7. Placed(c)'
  BY <1>1, <1>2, <1>4 DEF CallHolds, Placed, configRest, Inserting
<1>8. SweptClean(c)' /\ NumberFound(c)'
  BY <1>1, <1>2, <1>3, <1>4 DEF SweptClean, NumberFound, Inserting, OldGone, ChildrenOf
<1>9. OnItsWay(c)'
  <2> SUFFICES ASSUME undisturbed[c], ~calls[c].deletes, ~calls[c].blind
               PROVE  OnItsWay(c)'
    BY <1>1, <1>4 DEF OnItsWay, configRest
  <2>1. calls[c].want = calls[c].sent /\ entities[calls[c].id] # 0
    BY <1>1 DEF CallHolds, OnItsWay, Deleting
  <2>2. IdsOf(ChildrenOf(calls[c].id))' = ids
    BY <1>1, <1>4 DEF ids, IdsOf, ChildrenOf
  <2>3. CASE at = "insert"
    <3>1. ids = {} /\ ChildrenOf(calls[c].id)' = {}
      BY <1>1, <1>2, <1>3, <1>4, <2>3 DEF ChildrenOf
    <3> QED BY <1>1, <1>4, <2>1, <2>3, <3>1 DEF OnItsWay, PutIn, Inserting, Deleting
  <2>4. CASE at = "deleteDetails" \/ at = "deleteChildren"
    BY <1>1, <1>2, <1>4, <2>1, <2>2, <2>4 DEF OnItsWay, Inserting, Deleting
  <2> QED BY <1>2, <2>3, <2>4
<1> QED BY <1>5, <1>6, <1>7, <1>8, <1>9, StepInv DEF CallHolds

\* A step whose error goes unseen, or is.
LEMMA BlindInv ==
    ASSUME ConfigInv, NEW c \in Calls, NEW at \in {"deleteChildren", "insert", "deleteEntity"},
           calls[c].at \in Deleting, entity = "workflowSet",
           calls' = [calls EXCEPT ![c].at = at, ![c].blind = TRUE],
           at = "insert" => ~calls[c].deletes, at = "deleteEntity" => calls[c].deletes,
           UNCHANGED << entities, children, details, detailSequence, sequence, configRest >>
    PROVE  ConfigInv'
PROOF
<1>1. /\ ConfigTypeOK /\ CallHolds(c) /\ calls[c].at # "idle" /\ ~Over(c)
      /\ calls[c].id \in Ids
  BY DEF ConfigInv, CallHolds, Placed, Over, Deleting
<1>2. /\ calls' \in [Calls -> Call] /\ \A b \in Calls \ {c} : calls'[b] = calls[b]
      /\ calls'[c].at = at /\ calls'[c].id = calls[c].id /\ calls'[c].blind = TRUE
      /\ calls'[c].deletes = calls[c].deletes
      /\ calls'[c].want = calls[c].want /\ calls'[c].sent = calls[c].sent
  <2>1. calls \in [Calls -> Call] /\ at \in Places
    BY <1>1, CallTypes DEF Places
  <2> DEFINE new == [calls[c] EXCEPT !.at = at, !.blind = TRUE]
  <2>2. new \in Call
    BY <2>1, ZenonT(60) DEF Call, Places
  <2>3. calls' = [calls EXCEPT ![c] = new]
    BY <2>1, Zenon
  <2>4. calls' \in [Calls -> Call] /\ \A b \in Calls \ {c} : calls'[b] = calls[b]
    BY <2>1, <2>2, <2>3
  <2>5. calls'[c] = new
    BY <2>1, <2>3
  <2> QED BY <2>1, <2>4, <2>5 DEF Call
<1>3. StepOf(c)
  BY <1>1, <1>2 DEF StepOf
<1>4. ConfigTypeOK' /\ EntitiesNamed' /\ TablesFinite' /\ NumbersDiffer'
  BY <1>1, <1>2 DEF ConfigInv, ConfigTypeOK, EntitiesNamed, NumbersDiffer, TablesFinite,
     configRest
<1>5. Placed(c)'
  BY <1>1, <1>2 DEF CallHolds, Placed, configRest, Inserting, Deleting
<1>6. SweptClean(c)' /\ OnItsWay(c)' /\ NumberFound(c)'
  BY <1>2 DEF SweptClean, OnItsWay, NumberFound
<1> QED BY <1>3, <1>4, <1>5, <1>6, StepInv DEF CallHolds

LEMMA UnseenInv ==
    ASSUME ConfigInv, NEW c \in Calls, ReadUnseen(c) \/ DeleteUnseen(c)
    PROVE  ConfigInv'
PROOF
<1>1. /\ AfterDeletes(c) \in {"insert", "deleteEntity"}
      /\ AfterDeletes(c) = "insert" <=> ~calls[c].deletes
  BY DEF AfterDeletes
<1>2. CASE ReadUnseen(c)
  BY <1>1, <1>2, BlindInv DEF ReadUnseen, GoesBlindly, Deleting
<1>3. CASE DeleteUnseen(c)
  BY <1>1, <1>3, BlindInv DEF DeleteUnseen, GoesBlindly, Deleting
<1> QED BY <1>2, <1>3

LEMMA DeleteDetailsInv ==
    ASSUME ConfigInv, NEW c \in Calls, DeleteDetails(c)
    PROVE  ConfigInv'
PROOF
<1>1. /\ ConfigTypeOK /\ CallHolds(c) /\ calls[c].at = "deleteDetails"
      /\ calls[c].at # "idle" /\ ~Over(c) /\ calls[c].id \in Ids /\ entity # "role"
      /\ details' = {d \in details : d.of \notin calls[c].ids}
      /\ UNCHANGED << entities, children, detailSequence, sequence, configRest >>
  BY DEF ConfigInv, CallHolds, Placed, DeleteDetails, Over
<1>2. /\ calls' \in [Calls -> Call] /\ \A b \in Calls \ {c} : calls'[b] = calls[b]
      /\ calls'[c].at = "deleteChildren" /\ calls'[c].id = calls[c].id
      /\ calls'[c].deletes = calls[c].deletes /\ calls'[c].blind = calls[c].blind
      /\ calls'[c].want = calls[c].want /\ calls'[c].sent = calls[c].sent
  BY <1>1, GoesFields DEF DeleteDetails, Places
<1>3. StepOf(c)
  BY <1>1, <1>2 DEF StepOf
<1>4. ConfigTypeOK' /\ EntitiesNamed' /\ TablesFinite' /\ NumbersDiffer'
  BY <1>1, <1>2, FS_Subset DEF ConfigInv, ConfigTypeOK, EntitiesNamed, NumbersDiffer,
     TablesFinite, configRest
<1>5. Placed(c)'
  BY <1>1, <1>2 DEF CallHolds, Placed, configRest, Inserting
<1>6. SweptClean(c)' /\ NumberFound(c)'
  BY <1>2 DEF SweptClean, NumberFound, Inserting
<1>7. OnItsWay(c)'
  <2>1. IdsOf(ChildrenOf(calls[c].id))' = IdsOf(ChildrenOf(calls[c].id))
    BY <1>1, <1>2 DEF IdsOf, ChildrenOf
  <2> QED BY <1>1, <1>2, <2>1 DEF CallHolds, OnItsWay, configRest, Inserting, Deleting
<1> QED BY <1>3, <1>4, <1>5, <1>6, <1>7, StepInv DEF CallHolds

LEMMA DeleteChildrenInv ==
    ASSUME ConfigInv, NEW c \in Calls, DeleteChildren(c)
    PROVE  ConfigInv'
PROOF
<1> DEFINE rows == ChildrenOf(calls[c].id)
           at == AfterDeletes(c)
<1>1. /\ ConfigTypeOK /\ CallHolds(c) /\ calls[c].at = "deleteChildren"
      /\ calls[c].at # "idle" /\ ~Over(c) /\ calls[c].id \in Ids
      /\ children' = children \ rows /\ details' = DetailsLeft(rows)
      /\ UNCHANGED << entities, detailSequence, sequence, configRest >>
  BY DEF ConfigInv, CallHolds, Placed, DeleteChildren, Over
<1>2. /\ at \in {"insert", "deleteEntity"} /\ at \in Places
      /\ at = "insert" <=> ~calls[c].deletes
      /\ Goes(c, at)
  BY DEF AfterDeletes, Places, DeleteChildren
<1> HIDE DEF at
<1>3. /\ calls' \in [Calls -> Call] /\ \A b \in Calls \ {c} : calls'[b] = calls[b]
      /\ calls'[c].at = at /\ calls'[c].id = calls[c].id
      /\ calls'[c].deletes = calls[c].deletes /\ calls'[c].blind = calls[c].blind
      /\ calls'[c].want = calls[c].want /\ calls'[c].sent = calls[c].sent
  BY <1>1, <1>2, GoesFields
<1>4. StepOf(c)
  BY <1>1, <1>2, <1>3 DEF StepOf, ChildrenOf
<1>5. ConfigTypeOK' /\ EntitiesNamed' /\ NumbersDiffer'
  <2>1. details' \subseteq Detail /\ children' \subseteq Child
    BY <1>1 DEF ConfigTypeOK, DetailsLeft
  <2> QED BY <1>1, <1>3, <2>1 DEF ConfigInv, ConfigTypeOK, EntitiesNamed, NumbersDiffer,
          configRest
<1>6. TablesFinite'
  BY <1>1, FS_Subset DEF ConfigInv, TablesFinite, DetailsLeft
<1>7. Placed(c)'
  BY <1>1, <1>2, <1>3 DEF CallHolds, Placed, configRest, Inserting
<1>8. ChildrenOf(calls[c].id)' = {}
  BY <1>1, <1>3 DEF ChildrenOf
<1>9. SweptClean(c)' /\ NumberFound(c)'
  BY <1>2, <1>3, <1>8 DEF SweptClean, NumberFound, Inserting, OldGone
<1>10. OnItsWay(c)'
  BY <1>1, <1>2, <1>3, <1>8 DEF CallHolds, OnItsWay, PutIn, configRest, Inserting, Deleting
<1> QED BY <1>4, <1>5, <1>6, <1>7, <1>9, <1>10, StepInv DEF CallHolds

LEMMA DeleteRefusedInv ==
    ASSUME ConfigInv, NEW c \in Calls, DeleteRefused(c)
    PROVE  ConfigInv'
PROOF
<1>1. /\ ConfigTypeOK /\ CallHolds(c) /\ calls[c].at = "deleteChildren"
      /\ calls[c].at # "idle" /\ ~Over(c)
      /\ foreignKeys = "restrict" /\ IdsOf(ChildrenOf(calls[c].id)) \cap WithDetails # {}
      /\ UNCHANGED << entities, children, details, detailSequence, sequence, configRest >>
  BY DEF ConfigInv, CallHolds, DeleteRefused, Removable, Over
<1>2. CASE entity = "workflowSet"
  BY <1>1, <1>2, BlindInv DEF DeleteRefused, AfterDeletes, Deleting
<1>3. CASE entity # "workflowSet"
  <2>1. entity = "user" /\ undisturbed[c] => calls[c].deletes
    BY <1>1 DEF CallHolds, OnItsWay, Placed
  <2> QED BY <1>1, <1>3, <2>1, EndsInv DEF DeleteRefused, ConfigTypeOK
<1> QED BY <1>2, <1>3

LEMMA DeleteEntityInv ==
    ASSUME ConfigInv, NEW c \in Calls, DeleteEntity(c)
    PROVE  ConfigInv'
PROOF
<1> DEFINE i == calls[c].id
           rows == ChildrenOf(i)
<1>1. /\ ConfigTypeOK /\ CallHolds(c) /\ calls[c].at = "deleteEntity"
      /\ calls[c].at # "idle" /\ ~Over(c) /\ i \in Ids /\ calls[c].deletes
      /\ UNCHANGED << detailSequence, sequence, configRest >>
  BY DEF ConfigInv, CallHolds, Placed, DeleteEntity, Over
<1>2. CASE foreignKeys = "restrict" /\ rows # {}
  BY <1>1, <1>2, EndsInv DEF DeleteEntity, ConfigTypeOK
<1>3. CASE ~(foreignKeys = "restrict" /\ rows # {})
  <2>1. /\ entities' = [entities EXCEPT ![i] = 0]
        /\ children' = IF foreignKeys = "cascade" THEN children \ rows ELSE children
        /\ details' = DetailsLeft(rows)
        /\ Ends(c, "answered")
    BY <1>3 DEF DeleteEntity
  <2>2. /\ calls' \in [Calls -> Call] /\ \A b \in Calls \ {c} : calls'[b] = calls[b]
        /\ calls'[c].at = "answered" /\ calls'[c].id = i
        /\ calls'[c].deletes = calls[c].deletes /\ calls'[c].blind = calls[c].blind
        /\ calls'[c].want = {}
        /\ calls'[c].sent = calls[c].sent \/ calls'[c].sent = {}
    BY <1>1, <2>1, EndsFields
  <2>3. StepOf(c)
    BY <1>1, <2>1, <2>2 DEF StepOf, ChildrenOf
  <2>4. ConfigTypeOK' /\ EntitiesNamed' /\ NumbersDiffer'
    <3>1. details' \subseteq Detail
      BY <1>1, <2>1 DEF ConfigTypeOK, DetailsLeft
    <3>2. children' \subseteq children
      BY <2>1
    <3>3. 0 \in 0..MaxSaveCalls
      BY ConfigurationAssumption
    <3>4. entities' \in [Ids -> 0..MaxSaveCalls]
      BY <1>1, <2>1, <3>3 DEF ConfigTypeOK
    <3> QED BY <1>1, <2>1, <2>2, <3>1, <3>2, <3>4
            DEF ConfigInv, ConfigTypeOK, EntitiesNamed, NumbersDiffer, TablesFinite,
     configRest
  <2>5. TablesFinite'
    BY <2>1, FS_Subset DEF ConfigInv, TablesFinite, DetailsLeft
  <2>6. Placed(c)'
    BY <1>1, <2>2, FS_EmptySet DEF CallHolds, Placed, configRest, Inserting
  <2>7. SweptClean(c)' /\ NumberFound(c)' /\ OnItsWay(c)'
    BY <1>1, <2>2 DEF SweptClean, NumberFound, OnItsWay
  <2> QED BY <2>3, <2>4, <2>5, <2>6, <2>7, StepInv DEF CallHolds
<1> QED BY <1>2, <1>3

LEMMA DieInv ==
    ASSUME ConfigInv, NEW c \in Calls, DieCall(c)
    PROVE  ConfigInv'
BY EndsInv DEF DieCall, InProgress, ConfigInv, ConfigTypeOK

-------------------------------------------------------------------------------
(* A request inserts. *)

LEMMA InsertedCall ==
    ASSUME NEW c \in Calls, calls \in [Calls -> Call], NEW n, NEW l, Inserted(c, n, l)
    PROVE  calls' = [calls EXCEPT ![c] =
              [calls[c] EXCEPT !.want = calls[c].want \ {l}, !.row = n,
                               !.at = IF l \in Detailed THEN "insertDetails" ELSE "insert"]]
BY DEF Inserted

\* One child more, with a number nobody has: of what was to be put in.
LEMMA InsertedInv ==
    ASSUME ConfigInv, NEW c \in Calls, NEW n \in Nat, NEW l \in calls[c].want,
           calls[c].at \in {"insert", "insertId"}, entity # "role",
           n \notin IdsOf(children), Inserted(c, n, l), sequence' \in Nat,
           UNCHANGED << entities, details, detailSequence, configRest >>
    PROVE  ConfigInv'
PROOF
<1> DEFINE new == Row(c, n, l)
           at == IF l \in Detailed THEN "insertDetails" ELSE "insert"
           want == calls[c].want \ {l}
           i == calls[c].id
<1>1. /\ ConfigTypeOK /\ CallHolds(c)
      /\ calls[c].at # "idle" /\ ~Over(c) /\ i \in Ids /\ ~calls[c].deletes
      /\ children' = children \cup {new}
  BY DEF ConfigInv, CallHolds, Placed, Inserted, Over, Inserting
<1>2. /\ calls \in [Calls -> Call] /\ calls[c].want \in SUBSET Labels /\ want \in SUBSET Labels
      /\ l \in Labels /\ i \in 0..MaxRoleId
  BY <1>1, CallTypes
<1>3. /\ new \in Child /\ new.id = n /\ new.of = i /\ new.label = l /\ new.by = c
  BY <1>2, ConfigurationAssumption DEF Row, Child, Calls
<1>4. /\ calls' \in [Calls -> Call] /\ \A b \in Calls \ {c} : calls'[b] = calls[b]
      /\ calls'[c].at = at /\ calls'[c].id = i /\ calls'[c].row = n
      /\ calls'[c].deletes = calls[c].deletes /\ calls'[c].blind = calls[c].blind
      /\ calls'[c].want = want /\ calls'[c].sent = calls[c].sent
  <2> DEFINE call == [calls[c] EXCEPT !.want = want, !.row = n, !.at = at]
  <2>1. calls' = [calls EXCEPT ![c] = call]
    BY <1>2, InsertedCall
  <2>2. at \in Places
    BY DEF Places
  <2> HIDE DEF want, at
  <2>3. call \in Call
    <3>1. [calls[c] EXCEPT !.want = want] \in Call
      BY <1>2 DEF Call
    <3>2. [calls[c] EXCEPT !.want = want, !.row = n] \in Call
      BY <3>1 DEF Call
    <3> QED BY <2>2, <3>2 DEF Call, Places
  <2>5. calls' \in [Calls -> Call] /\ \A b \in Calls \ {c} : calls'[b] = calls[b]
    BY <1>2, <2>3, <2>1
  <2>6. calls'[c] = call
    BY <1>2, <2>1
  <2> QED BY <1>2, <2>5, <2>6 DEF Call
<1> HIDE DEF new
<1>5. StepOf(c)
  BY <1>1, <1>3, <1>4 DEF StepOf
<1>6. ConfigTypeOK' /\ EntitiesNamed'
  BY <1>1, <1>3, <1>4 DEF ConfigInv, ConfigTypeOK, EntitiesNamed, configRest
<1>7. TablesFinite'
  BY <1>1, FS_AddElement DEF ConfigInv, TablesFinite
<1>8. NumbersDiffer'
  BY <1>1, <1>3 DEF ConfigInv, NumbersDiffer, TablesFinite, IdsOf, configRest
<1>9. Placed(c)'
  BY <1>1, <1>4, FS_Subset DEF CallHolds, Placed, configRest, Inserting
<1>10. ChildrenOf(i)' = ChildrenOf(i) \cup {new}
  BY <1>1, <1>3, <1>4 DEF ChildrenOf
<1>11. SweptClean(c)'
  <2>1. c \notin earlier[c]
    BY <1>1 DEF ConfigInv, InTurn
  <2> QED BY <1>1, <1>3, <1>4, <1>10, <2>1
          DEF CallHolds, SweptClean, OldGone, Inserting, configRest
<1>12. NumberFound(c)'
  BY <1>4 DEF NumberFound
<1>13. OnItsWay(c)'
  <2> SUFFICES ASSUME undisturbed[c], ~calls[c].blind
               PROVE  /\ entities[i] # 0
                      /\ PutIn(c)'
                      /\ at = "insertDetails" => n \in IdsOf(ChildrenOf(i)')
    BY <1>1, <1>4 DEF OnItsWay, configRest, Inserting, Deleting, IdsOf
  <2>1. PutIn(c) /\ entities[i] # 0
    BY <1>1 DEF CallHolds, OnItsWay, Inserting
  <2>2. n \in IdsOf(ChildrenOf(i)')
    BY <1>3, <1>10 DEF IdsOf
  <2>3. calls[c].want \subseteq calls[c].sent
    BY <1>1 DEF CallHolds, Placed
  <2>4. {r.label : r \in ChildrenOf(i)'} = calls[c].sent \ want
    BY <1>3, <1>10, <2>1, <2>3 DEF PutIn
  <2>5. \A r, s \in ChildrenOf(i)' : r.label = s.label => r = s
    BY <1>3, <1>10, <2>1 DEF PutIn
  <2>6. \A r \in ChildrenOf(i)' : r.label \in Detailed =>
           r.id \in WithDetails \/ (at = "insertDetails" /\ r.id = n)
    BY <1>3, <1>10, <2>1 DEF PutIn
  <2>7. PutIn(c)'
    BY <1>1, <1>4, <2>4, <2>5, <2>6 DEF PutIn, configRest
  <2> QED BY <2>1, <2>2, <2>7
<1> QED BY <1>5, <1>6, <1>7, <1>8, <1>9, <1>11, <1>12, <1>13, StepInv DEF CallHolds

\* A user's save that runs alone has its user, and no error went unseen.
LEMMA NoOrphan ==
    ASSUME ConfigInv, NEW c \in Calls, calls[c].at \in Inserting,
           entity = "user", undisturbed[c]
    PROVE  ~Orphan(c) /\ OnItsWay(c) /\ ~calls[c].deletes /\ ~calls[c].blind
BY DEF ConfigInv, CallHolds, Placed, OnItsWay, Orphan, Inserting

\* On with the same child, data as they were: "maxId" and "insertId".
LEMMA NumberInv ==
    ASSUME ConfigInv, NEW c \in Calls, NEW at \in {"maxId", "insertId"}, NEW n \in Nat,
           calls[c].at \in {"insert", "maxId"}, entity # "role", calls[c].want # {},
           calls' = [calls EXCEPT ![c] = [calls[c] EXCEPT !.at = at, !.row = n]],
           at = "insertId" => n \notin IdsOf(children),
           sequence' \in Nat,
           UNCHANGED << entities, children, details, detailSequence, configRest >>
    PROVE  ConfigInv'
PROOF
<1>1. /\ ConfigTypeOK /\ CallHolds(c) /\ calls[c].at # "idle" /\ ~Over(c)
      /\ calls[c].id \in Ids /\ ~calls[c].deletes
  BY DEF ConfigInv, CallHolds, Placed, Over, Inserting
<1>2. /\ calls' \in [Calls -> Call] /\ \A b \in Calls \ {c} : calls'[b] = calls[b]
      /\ calls'[c].at = at /\ calls'[c].id = calls[c].id /\ calls'[c].row = n
      /\ calls'[c].deletes = calls[c].deletes /\ calls'[c].blind = calls[c].blind
      /\ calls'[c].want = calls[c].want /\ calls'[c].sent = calls[c].sent
  <2> DEFINE call == [calls[c] EXCEPT !.at = at, !.row = n]
  <2>1. calls \in [Calls -> Call] /\ at \in Places
    BY <1>1, CallTypes DEF Places
  <2>2. call \in Call
    BY <2>1, ZenonT(60) DEF Call, Places
  <2>3. calls' \in [Calls -> Call] /\ \A b \in Calls \ {c} : calls'[b] = calls[b]
    BY <2>1, <2>2
  <2>4. calls'[c] = call
    BY <2>1
  <2> QED BY <2>1, <2>3, <2>4 DEF Call
<1>3. StepOf(c)
  BY <1>1, <1>2 DEF StepOf
<1>4. ConfigTypeOK' /\ EntitiesNamed' /\ TablesFinite' /\ NumbersDiffer'
  BY <1>1, <1>2 DEF ConfigInv, ConfigTypeOK, EntitiesNamed, NumbersDiffer, TablesFinite,
     configRest
<1>5. Placed(c)'
  BY <1>1, <1>2 DEF CallHolds, Placed, configRest, Inserting
<1>6. ChildrenOf(calls[c].id)' = ChildrenOf(calls[c].id)
  BY <1>1, <1>2 DEF ChildrenOf
<1>7. SweptClean(c)' /\ NumberFound(c)'
  BY <1>1, <1>2, <1>6 DEF CallHolds, SweptClean, NumberFound, Inserting, OldGone, configRest
<1>8. OnItsWay(c)'
  <2> SUFFICES ASSUME undisturbed[c], ~calls[c].blind
               PROVE  OnItsWay(c)'
    BY <1>1, <1>2 DEF OnItsWay, configRest
  <2>1. PutIn(c) /\ entities[calls[c].id] # 0
    BY <1>1 DEF CallHolds, OnItsWay, Inserting
  <2>2. PutIn(c)'
    BY <1>1, <1>2, <1>6, <2>1 DEF PutIn, configRest
  <2> QED BY <1>1, <1>2, <2>1, <2>2 DEF OnItsWay, Inserting, Deleting, IdsOf
<1> QED BY <1>3, <1>4, <1>5, <1>7, <1>8, StepInv DEF CallHolds

LEMMA WantFinite ==
    ASSUME ConfigInv, NEW c \in Calls
    PROVE  calls[c].want \in SUBSET Nat /\ IsFiniteSet(calls[c].want)
BY FS_Subset, CallTypes, ConfigurationAssumption DEF ConfigInv, CallHolds, Placed

LEMMA InsertChildInv ==
    ASSUME ConfigInv, NEW c \in Calls, InsertChild(c)
    PROVE  ConfigInv'
PROOF
<1> DEFINE n == sequence + 1
<1>1. /\ calls[c].at = "insert" /\ entity # "role" /\ calls[c].want # {}
      /\ calls[c].at # "idle" /\ ~Over(c)
      /\ n \in Nat /\ sequence' = n /\ calls \in [Calls -> Call] /\ detailSequence' \in Nat
      /\ UNCHANGED << entities, details, detailSequence, configRest >>
  BY DEF InsertChild, Over, ConfigInv, ConfigTypeOK
<1>2. CASE Orphan(c)
  <2>1. Ends(c, "failed") /\ children' = children
    BY <1>2 DEF InsertChild
  <2>2. ~(entity = "user" /\ undisturbed[c])
    BY <1>1, <1>2, NoOrphan DEF Inserting
  <2> QED BY <1>1, <2>1, <2>2, EndsInv
<1>3. CASE ~Orphan(c) /\ n \in IdsOf(children)
  <2>1. Goes(c, "maxId") /\ children' = children
    BY <1>3 DEF InsertChild
  <2>2. calls' = [calls EXCEPT ![c] = [calls[c] EXCEPT !.at = "maxId"]]
    BY <1>1, <2>1, Zenon DEF Goes
  <2>3. [calls[c] EXCEPT !.at = "maxId"] = [calls[c] EXCEPT !.at = "maxId", !.row = calls[c].row]
    BY <1>1 DEF Call
  <2>4. calls[c].row \in Nat
    BY CallTypes DEF ConfigInv
  <2> QED BY <1>1, <2>1, <2>2, <2>3, <2>4, NumberInv
<1>4. CASE ~Orphan(c) /\ n \notin IdsOf(children)
  <2>1. Inserted(c, n, NextLabel(c))
    BY <1>4 DEF InsertChild
  <2>2. NextLabel(c) \in calls[c].want
    BY <1>1, WantFinite, NextLabelWanted
  <2> QED BY <1>1, <1>4, <2>1, <2>2, InsertedInv
<1> QED BY <1>2, <1>3, <1>4

LEMMA NextIntIdInv ==
    ASSUME ConfigInv, NEW c \in Calls, NextIntId(c)
    PROVE  ConfigInv'
PROOF
<1> DEFINE n == MaxOf(IdsOf(children)) + 1
<1>1. /\ calls[c].at = "maxId" /\ entity # "role" /\ calls[c].want # {}
      /\ sequence' \in Nat /\ calls \in [Calls -> Call]
      /\ UNCHANGED << entities, children, details, detailSequence, configRest >>
  BY DEF NextIntId, ConfigInv, ConfigTypeOK, CallHolds, Placed
<1>2. n \in Nat /\ n \notin IdsOf(children)
  <2>1. IdsOf(children) \in SUBSET Nat
    BY DEF ConfigInv, ConfigTypeOK, Child, IdsOf
  <2>2. IsFiniteSet(IdsOf(children))
    BY IdsFinite DEF ConfigInv, TablesFinite
  <2> DEFINE ids == IdsOf(children)
  <2>3. MaxOf(ids) \in Nat /\ \A k \in ids : k <= MaxOf(ids)
    BY <2>1, <2>2, MaxOfBounds
  <2> HIDE DEF ids
  <2>4. MaxOf(ids) + 1 \in Nat /\ MaxOf(ids) + 1 \notin ids
    BY <2>3
  <2> QED BY <2>4 DEF ids
<1>3. calls' = [calls EXCEPT ![c] = [calls[c] EXCEPT !.at = "insertId", !.row = n]]
  BY <1>1, Zenon DEF NextIntId
<1> QED BY <1>1, <1>2, <1>3, NumberInv

LEMMA InsertWithIdInv ==
    ASSUME ConfigInv, NEW c \in Calls, InsertWithId(c)
    PROVE  ConfigInv'
PROOF
<1>1. /\ calls[c].at = "insertId" /\ entity # "role" /\ calls[c].want # {}
      /\ calls[c].at # "idle" /\ ~Over(c)
      /\ sequence' \in Nat /\ calls[c].row \in Nat /\ detailSequence' \in Nat
      /\ UNCHANGED << entities, details, detailSequence, configRest >>
  BY CallTypes DEF InsertWithId, ConfigInv, ConfigTypeOK, CallHolds, Placed, Over
<1>2. CASE Orphan(c) \/ calls[c].row \in IdsOf(children)
  <2>1. Ends(c, "failed") /\ children' = children
    BY <1>2 DEF InsertWithId
  <2>2. ~(entity = "user" /\ undisturbed[c])
    BY <1>1, <1>2, NoOrphan DEF Inserting, OnItsWay
  <2> QED BY <1>1, <2>1, <2>2, EndsInv
<1>3. CASE ~(Orphan(c) \/ calls[c].row \in IdsOf(children))
  <2>1. Inserted(c, calls[c].row, NextLabel(c))
    BY <1>3 DEF InsertWithId
  <2>2. NextLabel(c) \in calls[c].want
    BY <1>1, WantFinite, NextLabelWanted
  <2> QED BY <1>1, <1>3, <2>1, <2>2, InsertedInv
<1> QED BY <1>2, <1>3

\* On to a number for the details of the same child: "maxDetail" and "insertDetailId".
LEMMA DetailNumberInv ==
    ASSUME ConfigInv, NEW c \in Calls, NEW at \in {"maxDetail", "insertDetailId"},
           NEW n \in Nat, calls[c].at \in {"insertDetails", "maxDetail"},
           calls' = [calls EXCEPT ![c] = [calls[c] EXCEPT !.at = at, !.number = n]],
           at = "insertDetailId" => n \notin IdsOf(details),
           detailSequence' \in Nat,
           UNCHANGED << entities, children, details, sequence, configRest >>
    PROVE  ConfigInv'
PROOF
<1>1. /\ ConfigTypeOK /\ CallHolds(c) /\ calls[c].at # "idle" /\ ~Over(c)
      /\ calls[c].id \in Ids /\ ~calls[c].deletes /\ entity # "role"
  BY DEF ConfigInv, CallHolds, Placed, Over, Inserting
<1>2. /\ calls' \in [Calls -> Call] /\ \A b \in Calls \ {c} : calls'[b] = calls[b]
      /\ calls'[c].at = at /\ calls'[c].id = calls[c].id /\ calls'[c].number = n
      /\ calls'[c].row = calls[c].row
      /\ calls'[c].deletes = calls[c].deletes /\ calls'[c].blind = calls[c].blind
      /\ calls'[c].want = calls[c].want /\ calls'[c].sent = calls[c].sent
  <2> DEFINE call == [calls[c] EXCEPT !.at = at, !.number = n]
  <2>1. calls \in [Calls -> Call] /\ at \in Places
    BY <1>1, CallTypes DEF Places
  <2>2. call \in Call
    BY <2>1, ZenonT(60) DEF Call, Places
  <2>3. calls' \in [Calls -> Call] /\ \A b \in Calls \ {c} : calls'[b] = calls[b]
    BY <2>1, <2>2
  <2>4. calls'[c] = call
    BY <2>1
  <2> QED BY <2>1, <2>3, <2>4 DEF Call
<1>3. StepOf(c)
  BY <1>1, <1>2 DEF StepOf
<1>4. ConfigTypeOK' /\ EntitiesNamed' /\ TablesFinite' /\ NumbersDiffer'
  BY <1>1, <1>2 DEF ConfigInv, ConfigTypeOK, EntitiesNamed, NumbersDiffer, TablesFinite,
     configRest
<1>5. Placed(c)'
  BY <1>1, <1>2 DEF CallHolds, Placed, configRest, Inserting
<1>6. ChildrenOf(calls[c].id)' = ChildrenOf(calls[c].id)
  BY <1>1, <1>2 DEF ChildrenOf
<1>7. SweptClean(c)' /\ NumberFound(c)'
  BY <1>1, <1>2, <1>6 DEF CallHolds, SweptClean, NumberFound, Inserting, OldGone, configRest
<1>8. OnItsWay(c)'
  <2> SUFFICES ASSUME undisturbed[c], ~calls[c].blind
               PROVE  OnItsWay(c)'
    BY <1>1, <1>2 DEF OnItsWay, configRest
  <2>1. /\ PutIn(c) /\ entities[calls[c].id] # 0
        /\ calls[c].row \in IdsOf(ChildrenOf(calls[c].id))
    BY <1>1 DEF CallHolds, OnItsWay, Inserting
  <2>2. PutIn(c)'
    BY <1>1, <1>2, <1>6, <2>1 DEF PutIn, configRest
  <2>3. /\ calls'[c].row \in IdsOf(ChildrenOf(calls[c].id))'
        /\ at = "insertDetailId" => n \notin IdsOf(details)'
    BY <1>1, <1>2, <1>6, <2>1 DEF IdsOf
  <2> QED BY <1>1, <1>2, <2>1, <2>2, <2>3 DEF OnItsWay, Inserting, Deleting
<1> QED BY <1>3, <1>4, <1>5, <1>7, <1>8, StepInv DEF CallHolds

\* The details of a child go in, or their child is gone.
LEMMA PutDetailsInv ==
    ASSUME ConfigInv, NEW c \in Calls, NEW n \in Nat, PutDetails(c, n),
           calls[c].at \in {"insertDetails", "insertDetailId"}, detailSequence' \in Nat,
           UNCHANGED << entities, children, sequence, configRest >>
    PROVE  ConfigInv'
PROOF
<1>1. /\ ConfigTypeOK /\ CallHolds(c)
      /\ calls[c].at # "idle" /\ ~Over(c) /\ calls[c].id \in Ids /\ ~calls[c].deletes
      /\ entity # "role" /\ calls[c].row \in Nat
  BY CallTypes DEF ConfigInv, CallHolds, Placed, Over, Inserting
<1>2. CASE foreignKeys # "none" /\ calls[c].row \notin IdsOf(children)
  <2>1. Ends(c, "failed") /\ details' = details
    BY <1>2 DEF PutDetails
  <2>2. ~(entity = "user" /\ undisturbed[c])
    <3>1. IdsOf(ChildrenOf(calls[c].id)) \subseteq IdsOf(children)
      BY DEF IdsOf, ChildrenOf
    <3> QED BY <1>1, <1>2, <3>1, NoOrphan DEF Inserting, OnItsWay
  <2> QED BY <1>1, <2>1, <2>2, EndsInv DEF ConfigTypeOK
<1>3. CASE ~(foreignKeys # "none" /\ calls[c].row \notin IdsOf(children))
  <2>1. details' = details \cup {[id |-> n, of |-> calls[c].row]} /\ Goes(c, "insert")
    BY <1>3 DEF PutDetails
  <2>2. /\ calls' \in [Calls -> Call] /\ \A b \in Calls \ {c} : calls'[b] = calls[b]
        /\ calls'[c].at = "insert" /\ calls'[c].id = calls[c].id
        /\ calls'[c].deletes = calls[c].deletes /\ calls'[c].blind = calls[c].blind
        /\ calls'[c].want = calls[c].want /\ calls'[c].sent = calls[c].sent
    BY <1>1, <2>1, GoesFields DEF Places
  <2>3. StepOf(c)
    BY <1>1, <2>2 DEF StepOf
  <2>4. ConfigTypeOK' /\ EntitiesNamed' /\ NumbersDiffer'
    <3>1. details' \subseteq Detail
      BY <1>1, <2>1 DEF ConfigTypeOK, Detail
    <3> QED BY <1>1, <2>2, <3>1 DEF ConfigInv, ConfigTypeOK, EntitiesNamed, NumbersDiffer,
            configRest
  <2>5. TablesFinite'
    BY <2>1, FS_AddElement DEF ConfigInv, TablesFinite
  <2>6. Placed(c)'
    BY <1>1, <2>2 DEF CallHolds, Placed, configRest, Inserting
  <2>7. ChildrenOf(calls[c].id)' = ChildrenOf(calls[c].id)
    BY <1>1, <2>2 DEF ChildrenOf
  <2>8. SweptClean(c)' /\ NumberFound(c)'
    BY <1>1, <2>2, <2>7 DEF CallHolds, SweptClean, NumberFound, Inserting, OldGone, configRest
  <2>9. OnItsWay(c)'
    <3> SUFFICES ASSUME undisturbed[c], ~calls[c].blind
                 PROVE  OnItsWay(c)'
      BY <1>1, <2>2 DEF OnItsWay, configRest
    <3>1. PutIn(c) /\ entities[calls[c].id] # 0
      BY <1>1 DEF CallHolds, OnItsWay, Inserting
    <3>2. calls[c].row \in WithDetails' /\ WithDetails \subseteq WithDetails'
      <4> DEFINE new == [id |-> n, of |-> calls[c].row]
      <4>1. new.of = calls[c].row /\ details' = details \cup {new}
        BY <2>1
      <4> HIDE DEF new
      <4> QED BY <4>1
    <3>3. PutIn(c)'
      BY <1>1, <2>2, <2>7, <3>1, <3>2 DEF PutIn, configRest
    <3> QED BY <1>1, <2>2, <3>1, <3>3 DEF OnItsWay, Inserting, Deleting
  <2> QED BY <2>3, <2>4, <2>5, <2>6, <2>8, <2>9, StepInv DEF CallHolds
<1> QED BY <1>2, <1>3

LEMMA InsertDetailsInv ==
    ASSUME ConfigInv, NEW c \in Calls, InsertDetails(c)
    PROVE  ConfigInv'
PROOF
<1> DEFINE n == detailSequence + 1
<1>1. /\ calls[c].at = "insertDetails" /\ calls \in [Calls -> Call]
      /\ n \in Nat /\ detailSequence' = n /\ calls[c].number \in Nat
      /\ UNCHANGED << entities, children, sequence, configRest >>
  BY CallTypes DEF InsertDetails, ConfigInv, ConfigTypeOK
<1>2. CASE n \in IdsOf(details)
  <2>1. Goes(c, "maxDetail") /\ details' = details
    BY <1>2 DEF InsertDetails
  <2>2. calls' = [calls EXCEPT ![c] = [calls[c] EXCEPT !.at = "maxDetail"]]
    BY <1>1, <2>1, Zenon DEF Goes
  <2>3. [calls[c] EXCEPT !.at = "maxDetail"]
          = [calls[c] EXCEPT !.at = "maxDetail", !.number = calls[c].number]
    BY <1>1 DEF Call
  <2> QED BY <1>1, <2>1, <2>2, <2>3, DetailNumberInv
<1>3. CASE n \notin IdsOf(details)
  BY <1>1, <1>3, PutDetailsInv DEF InsertDetails
<1> QED BY <1>2, <1>3

LEMMA NextDetailIdInv ==
    ASSUME ConfigInv, NEW c \in Calls, NextDetailId(c)
    PROVE  ConfigInv'
PROOF
<1> DEFINE ids == IdsOf(details)
<1>1. /\ calls[c].at = "maxDetail" /\ calls \in [Calls -> Call] /\ detailSequence' \in Nat
      /\ UNCHANGED << entities, children, details, sequence, configRest >>
  BY DEF NextDetailId, ConfigInv, ConfigTypeOK
<1>2. MaxOf(ids) + 1 \in Nat /\ MaxOf(ids) + 1 \notin ids
  <2> DEFINE f == [d \in details |-> d.id]
  <2>1. ids \in SUBSET Nat
    BY DEF ConfigInv, ConfigTypeOK, Detail, IdsOf
  <2>2. f \in Surjection(details, ids)
    BY DEF Surjection, IdsOf
  <2>3. IsFiniteSet(ids)
    BY <2>2, FS_Surjection DEF ConfigInv, TablesFinite
  <2> HIDE DEF ids
  <2>4. MaxOf(ids) \in Nat /\ \A k \in ids : k <= MaxOf(ids)
    BY <2>1, <2>3, MaxOfBounds
  <2> QED BY <2>4
<1>3. calls' = [calls EXCEPT ![c] = [calls[c] EXCEPT !.at = "insertDetailId",
                                                     !.number = MaxOf(ids) + 1]]
  BY <1>1, Zenon DEF NextDetailId
<1> QED BY <1>1, <1>2, <1>3, DetailNumberInv

LEMMA InsertDetailsWithIdInv ==
    ASSUME ConfigInv, NEW c \in Calls, InsertDetailsWithId(c)
    PROVE  ConfigInv'
PROOF
<1>1. /\ calls[c].at = "insertDetailId" /\ calls[c].at # "idle" /\ ~Over(c)
      /\ calls[c].number \in Nat /\ detailSequence' \in Nat /\ sequence' \in Nat
      /\ UNCHANGED << entities, children, sequence, configRest >>
  BY CallTypes DEF InsertDetailsWithId, ConfigInv, ConfigTypeOK, Over
<1>2. CASE calls[c].number \in IdsOf(details)
  <2>1. Ends(c, "failed") /\ details' = details
    BY <1>2 DEF InsertDetailsWithId
  <2>2. ~(entity = "user" /\ undisturbed[c])
    BY <1>1, <1>2, NoOrphan DEF Inserting, OnItsWay
  <2> QED BY <1>1, <2>1, <2>2, EndsInv
<1>3. CASE calls[c].number \notin IdsOf(details)
  BY <1>1, <1>3, PutDetailsInv DEF InsertDetailsWithId
<1> QED BY <1>2, <1>3

LEMMA RoleNotFoundInv ==
    ASSUME ConfigInv, NEW c \in Calls, RoleNotFound(c)
    PROVE  ConfigInv'
PROOF
<1>1. /\ calls[c].at # "idle" /\ ~Over(c) /\ sequence' \in Nat /\ detailSequence' \in Nat
      /\ UNCHANGED << entities, children, details, configRest >> /\ Ends(c, "rejected")
  BY DEF RoleNotFound, Over, ConfigInv, ConfigTypeOK
<1> QED BY <1>1, EndsInv

LEMMA InsertPermissionsInv ==
    ASSUME ConfigInv, NEW c \in Calls, InsertPermissions(c)
    PROVE  ConfigInv'
PROOF
<1> DEFINE want == calls[c].want
           i == calls[c].id
           news == {Row(c, sequence + l, l) : l \in want}
<1>1. /\ ConfigTypeOK /\ CallHolds(c) /\ calls[c].at = "insert" /\ entity = "role"
      /\ calls[c].at # "idle" /\ ~Over(c) /\ i \in Ids /\ ~calls[c].deletes
      /\ want \in SUBSET Labels /\ want \subseteq calls[c].sent
      /\ calls \in [Calls -> Call] /\ sequence \in Nat
      /\ UNCHANGED << entities, details, detailSequence, configRest >>
  BY CallTypes DEF ConfigInv, ConfigTypeOK, CallHolds, Placed, InsertPermissions, Over, Inserting
<1>2. CASE Orphan(c)
  BY <1>1, <1>2, EndsInv DEF InsertPermissions, ConfigTypeOK
<1>3. CASE ~Orphan(c)
  <2>1. /\ children' = children \cup news
        /\ sequence' = sequence + MaxOf(want)
        /\ calls' = [calls EXCEPT ![c].want = {}]
    BY <1>3 DEF InsertPermissions
  <2>2. \A l \in want : LET r == Row(c, sequence + l, l) IN
           r \in Child /\ r.of = i /\ r.by = c /\ r.label = l
    <3> TAKE l \in want
    <3>1. l \in Labels /\ sequence + l \in Nat
      <4>1. want \in SUBSET Labels /\ sequence \in Nat
        BY <1>1
      <4> HIDE DEF want
      <4>2. l \in Labels
        BY <4>1
      <4>3. l \in Nat
        BY <4>2, ConfigurationAssumption
      <4> QED BY <4>1, <4>2, <4>3
    <3>2. i \in 0..MaxRoleId /\ c \in 0..MaxSaveCalls
      BY <1>1, ConfigurationAssumption DEF Ids, Calls
    <3> QED BY <3>1, <3>2 DEF Row, Child
  <2>3. \A r \in news : r \in Child /\ r.of = i /\ r.by = c /\ r.label \in want
    BY <2>2
  <2>4. /\ {r.label : r \in news} = want
        /\ \A r, s \in news : r.label = s.label => r = s
    BY <2>2
  <2>5. IsFiniteSet(news)
    <3> DEFINE f == [l \in want |-> Row(c, sequence + l, l)]
    <3>1. f \in Surjection(want, news)
      BY DEF Surjection
    <3> QED BY <3>1, WantFinite, FS_Surjection
  <2>6. sequence' \in Nat
    BY <1>1, <2>1, WantFinite, MaxOfBounds
  <2> HIDE DEF news
  <2>7. /\ calls' \in [Calls -> Call] /\ \A b \in Calls \ {c} : calls'[b] = calls[b]
        /\ calls'[c].at = "insert" /\ calls'[c].id = i
        /\ calls'[c].deletes = calls[c].deletes /\ calls'[c].blind = calls[c].blind
        /\ calls'[c].want = {} /\ calls'[c].sent = calls[c].sent
    BY <1>1, <2>1 DEF Call
  <2>8. StepOf(c)
    BY <1>1, <2>1, <2>3, <2>7 DEF StepOf
  <2>9. ConfigTypeOK' /\ EntitiesNamed' /\ NumbersDiffer'
    BY <1>1, <2>1, <2>3, <2>6, <2>7
       DEF ConfigInv, ConfigTypeOK, EntitiesNamed, NumbersDiffer, TablesFinite,
     configRest
  <2>10. TablesFinite'
    BY <1>1, <2>1, <2>5, FS_Union DEF ConfigInv, TablesFinite
  <2>11. Placed(c)'
    BY <1>1, <2>7 DEF CallHolds, Placed, configRest, Inserting
  <2>12. ChildrenOf(i)' = ChildrenOf(i) \cup news
    BY <2>1, <2>3, <2>7 DEF ChildrenOf
  <2>13. SweptClean(c)' /\ NumberFound(c)'
    <3>1. c \notin earlier[c]
      BY <1>1 DEF ConfigInv, InTurn
    <3> QED BY <1>1, <2>3, <2>7, <2>12, <3>1
            DEF CallHolds, SweptClean, OldGone, Inserting, configRest, NumberFound
  <2>14. OnItsWay(c)'
    <3> SUFFICES ASSUME undisturbed[c], ~calls[c].blind
                 PROVE  OnItsWay(c)'
      BY <1>1, <2>7 DEF OnItsWay, configRest
    <3>1. PutIn(c) /\ entities[i] # 0
      BY <1>1 DEF CallHolds, OnItsWay, Inserting
    <3>2. {r.label : r \in ChildrenOf(i)'} = calls[c].sent \ {}
      BY <1>1, <2>4, <2>12, <3>1 DEF PutIn
    <3>3. \A r, s \in ChildrenOf(i)' : r.label = s.label => r = s
      BY <2>3, <2>4, <2>12, <3>1 DEF PutIn
    <3>4. PutIn(c)'
      BY <1>1, <2>7, <3>2, <3>3 DEF PutIn, configRest
    <3> QED BY <1>1, <2>7, <3>1, <3>4 DEF OnItsWay, Inserting, Deleting
  <2> QED BY <2>8, <2>9, <2>10, <2>11, <2>13, <2>14, StepInv DEF CallHolds
<1> QED BY <1>2, <1>3

LEMMA AnswerInv ==
    ASSUME ConfigInv, NEW c \in Calls, AnswerCall(c)
    PROVE  ConfigInv'
PROOF
<1>1. /\ ConfigTypeOK /\ CallHolds(c) /\ calls[c].at = "insert" /\ calls[c].want = {}
      /\ calls[c].at # "idle" /\ ~Over(c) /\ calls[c].id \in Ids /\ ~calls[c].deletes
      /\ UNCHANGED << entities, children, details, detailSequence, sequence, configRest >>
  BY DEF ConfigInv, ConfigTypeOK, CallHolds, Placed, AnswerCall, Over, Inserting
<1>2. /\ calls' \in [Calls -> Call] /\ \A b \in Calls \ {c} : calls'[b] = calls[b]
      /\ calls'[c].at = "answered" /\ calls'[c].id = calls[c].id
      /\ calls'[c].deletes = calls[c].deletes /\ calls'[c].blind = calls[c].blind
      /\ calls'[c].want = {}
      /\ calls'[c].sent = IF undisturbed[c] THEN calls[c].sent ELSE {}
  BY <1>1, EndsFields DEF AnswerCall
<1>3. StepOf(c)
  BY <1>1, <1>2 DEF StepOf
<1>4. ConfigTypeOK' /\ EntitiesNamed' /\ TablesFinite' /\ NumbersDiffer'
  BY <1>1, <1>2 DEF ConfigInv, ConfigTypeOK, EntitiesNamed, NumbersDiffer, TablesFinite,
     configRest
<1>5. Placed(c)'
  BY <1>1, <1>2, FS_EmptySet DEF CallHolds, Placed, configRest, Inserting
<1>6. ChildrenOf(calls[c].id)' = ChildrenOf(calls[c].id)
  BY <1>1, <1>2 DEF ChildrenOf
<1>7. SweptClean(c)' /\ NumberFound(c)'
  BY <1>1, <1>2, <1>6 DEF CallHolds, SweptClean, NumberFound, Inserting, OldGone, configRest
<1>8. OnItsWay(c)'
  <2> SUFFICES ASSUME undisturbed[c], ~calls[c].blind
               PROVE  PutIn(c)'
    BY <1>1, <1>2 DEF OnItsWay, configRest, Inserting, Deleting
  <2>1. PutIn(c)
    BY <1>1 DEF CallHolds, OnItsWay, Inserting
  <2> QED BY <1>1, <1>2, <1>6, <2>1 DEF PutIn, configRest
<1> QED BY <1>3, <1>4, <1>5, <1>7, <1>8, StepInv DEF CallHolds

-------------------------------------------------------------------------------
LEMMA ConfigStutter ==
    ASSUME ConfigInv, UNCHANGED configVars
    PROVE  ConfigInv'
PROOF
<1> USE DEF configVars
<1>1. ConfigTypeOK' /\ EntitiesNamed' /\ TablesFinite' /\ NumbersDiffer'
  BY DEF ConfigInv, ConfigTypeOK, EntitiesNamed, NumbersDiffer, TablesFinite
<1>2. InTurn'
  BY DEF ConfigInv, InTurn, Over
<1>3. ASSUME NEW c \in Calls PROVE CallHolds(c)'
  <2>1. CallHolds(c)
    BY DEF ConfigInv
  <2>2. Placed(c)' /\ NumberFound(c)' /\ SweptClean(c)'
    BY <2>1 DEF CallHolds, Placed, NumberFound, SweptClean, OldGone, ChildrenOf
  <2>3. OnItsWay(c)'
    BY <2>1 DEF CallHolds, OnItsWay, PutIn, LastOfItsEntity, ChildrenOf, IdsOf
  <2> QED BY <2>2, <2>3 DEF CallHolds
<1> QED BY <1>1, <1>2, <1>3 DEF ConfigInv

LEMMA ConfigNextInv ==
    ConfigInv /\ [ConfigNext]_configVars => ConfigInv'
PROOF
<1> SUFFICES ASSUME ConfigInv, [ConfigNext]_configVars
             PROVE  ConfigInv'
  OBVIOUS
<1>1. CASE UNCHANGED configVars
  BY <1>1, ConfigStutter
<1>2. ASSUME NEW c \in Calls, CallStep(c)
      PROVE  ConfigInv'
  BY <1>2, AllocateInv, UpsertEntityInv, ReadChildrenInv, UnseenInv, DeleteDetailsInv,
     DeleteChildrenInv, DeleteRefusedInv, DeleteEntityInv, InsertChildInv, NextIntIdInv,
     InsertWithIdInv, InsertDetailsInv, NextDetailIdInv, InsertDetailsWithIdInv,
     RoleNotFoundInv, InsertPermissionsInv, AnswerInv, DieInv
     DEF CallStep
<1> QED BY <1>1, <1>2, BeginInv DEF ConfigNext

\* A save that ran alone has one child for each label: as many children as labels.
LEMMA AsManyAsSent ==
    ASSUME ConfigInv, NEW c \in Calls, PutIn(c), calls[c].want = {},
           calls[c].at = "answered"
    PROVE  Exactly(c)
PROOF
<1> DEFINE rows == ChildrenOf(calls[c].id)
           f == [r \in rows |-> r.label]
<1>1. /\ {r.label : r \in rows} = calls[c].sent
      /\ \A r, s \in rows : r.label = s.label => r = s
      /\ \A r \in rows : r.label \in Detailed /\ entity # "role" => r.id \in WithDetails
  BY DEF PutIn
<1>2. f \in Bijection(rows, calls[c].sent)
  BY <1>1 DEF Bijection, Injection, Surjection, IsInjective
<1>3. IsFiniteSet(rows)
  BY FS_Subset DEF ConfigInv, TablesFinite, ChildrenOf
<1>4. Cardinality(calls[c].sent) = Cardinality(rows)
  BY <1>2, <1>3, FS_Bijection DEF ExistsBijection
<1> QED BY <1>1, <1>4 DEF Exactly

LEMMA SaveReplacesFollows ==
    ConfigInv => SaveReplaces
PROOF
<1> SUFFICES ASSUME ConfigInv PROVE SaveReplaces
  OBVIOUS
<1>1. NumbersAreFound
  BY DEF NumbersAreFound, ConfigInv, CallHolds, NumberFound
<1>2. ASSUME NEW c \in Calls, Seen(c), ~calls[c].deletes
      PROVE  OldGone(c)
  BY <1>2 DEF Seen, ConfigInv, CallHolds, SweptClean
<1>3. ASSUME NEW c \in Calls, Seen(c), ~calls[c].deletes, undisturbed[c], LastOfItsEntity(c)
      PROVE  Exactly(c)
  BY <1>3, AsManyAsSent DEF Seen, ConfigInv, CallHolds, OnItsWay
<1> QED BY <1>1, <1>2, <1>3 DEF SaveReplaces

\* The entity of a new role is upserted under a number that was free when it was
\* allocated, and nobody else has run since.
LEMMA NameStep ==
    ConfigInv => \A c \in Calls :
        calls[c].at = "upsert" /\ calls'[c].at = "deleteChildren" /\ calls[c].fresh
        /\ undisturbed[c] => entities[calls[c].id] = 0
PROOF
<1> SUFFICES ASSUME ConfigInv, NEW c \in Calls, calls[c].at = "upsert", calls[c].fresh,
                    undisturbed[c]
             PROVE  entities[calls[c].id] = 0
  OBVIOUS
<1>1. Placed(c) /\ OnItsWay(c)
  BY DEF ConfigInv, CallHolds
<1>2. ~calls[c].deletes /\ ~calls[c].blind
  BY <1>1 DEF Placed
<1> QED BY <1>1, <1>2 DEF OnItsWay

-------------------------------------------------------------------------------
\* Entities, children and requests keep their types.
THEOREM ConfigTypes ==
    ConfigSpec => []ConfigTypeOK
PROOF
<1>1. ConfigInv => ConfigTypeOK
  BY DEF ConfigInv
<1> QED BY <1>1, ConfigInitInv, ConfigNextInv, PTL DEF ConfigSpec

\* A save that ends well has replaced the children of its entity; one of a user that runs
\* alone does not fail for want of a number, whether of an assignment or of its scopes.
THEOREM ConfigReplaces ==
    ConfigSpec => []SaveReplaces
BY ConfigInitInv, ConfigNextInv, SaveReplacesFollows, PTL DEF ConfigSpec

\* A new role takes no other role's number.
THEOREM RolesKeepNames ==
    ConfigSpec => RolesKeepTheirName
BY ConfigInitInv, ConfigNextInv, NameStep, PTL DEF ConfigSpec, RolesKeepTheirName
=================================================================================
