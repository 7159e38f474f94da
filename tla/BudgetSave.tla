------------------------------ MODULE BudgetSave ------------------------------
(***************************************************************************)
(* Saving the budget of one hospital unit and year: BudgetHuService with   *)
(* the persist and code-allocation helpers it calls.                       *)
(*                                                                         *)
(* A save walks over the projects and assets of its payload, and for each  *)
(* reads the row, finds a code, upserts by id and, when the code turns out *)
(* to be taken, finds another one: a chain of awaited calls with no        *)
(* transaction around it.  Saves of other browsers run in between.         *)
(*                                                                         *)
(* A code is a prefix and a number: << Hu, n >> for a project, << n, k >>  *)
(* for the k-th asset below project n.  The routine aggregator of the unit *)
(* has the project code << Hu, 0 >> ("RA") and the asset prefix 0 ("00").  *)
(*                                                                         *)
(* Abstracted: the columns that are copied from the payload, the category  *)
(* budgets (upserted by key right after their project), permissions, the   *)
(* default workflow set, and the child rows of a deleted asset, which      *)
(* nothing here reads.                                                     *)
(***************************************************************************)
EXTENDS Naturals, FiniteSets, FiniteSetsExt

CONSTANTS
    Projects, Assets,   \* ids; a client invents them for new rows
    Requests,           \* slots for requests in flight
    Payloads,           \* what clients send
    Hu,                 \* prefix of the project codes
    MaxNumber,          \* bound on the numbers that are handed out
    MaxAttempts,        \* how often an upsert is tried (8 in the code)
    MaxRequests,        \* bound on the requests ever made
    FirstCodes,         \* the codes the rows have at the start
    FirstOwners,        \* and the projects of the assets among them
    Reserved,           \* where the sequences behind the RPCs stand then
    Faults,             \* "abort": a request may die; "rpc": a reservation may
                        \* fail; "read": a select whose error nobody looks at
    None

Numbers == 0..MaxNumber
Codes == ({Hu} \X Numbers) \cup (Numbers \X Numbers)
Routine == << Hu, 0 >>
Prefixes == {Hu} \cup Numbers
Rows == Projects \cup Assets
RequestNumbers == 1..MaxRequests

\* "period" saves a unit (savePeriod), "project" and "asset" one row, "code"
\* only reserves a project code.  sent is the code the client shows for a row,
\* assets the assets of a project in the payload, touched those that changed:
\* where none is named, all of them are taken.
Payload == [kind : {"period", "project", "asset", "code"},
            changed : SUBSET Projects, deleted : SUBSET Projects,
            touched : SUBSET Assets, pipeline : SUBSET Projects,
            assets : [Projects -> SUBSET Assets],
            sent : [Rows -> Codes \cup {None}]]

ASSUME BudgetAssumption ==
    /\ Projects \cap Assets = {}
    /\ Hu \notin Numbers
    /\ None \notin Codes \cup Rows
    /\ MaxNumber \in Nat /\ MaxRequests \in Nat /\ MaxAttempts \in Nat \ {0}
    /\ FirstCodes \in [Rows -> Codes \cup {None}]
    /\ FirstOwners \in [Assets -> Projects \cup {None}]
    /\ Reserved \in [Prefixes -> Numbers]
    /\ Payloads \subseteq Payload
    /\ \A y \in Payloads : \A p \in y.changed : y.sent[p] \in {Hu} \X Numbers
    /\ Faults \subseteq {"abort", "rpc", "read"}

VARIABLES
    code,       \* project_code or asset_code of each row, None if there is no row
    owner,      \* project_id of each asset
    items,      \* project_pipeline_items: the requests that inserted the rows
    savedBy,    \* the request that last wrote a row, 0 for none
    reserved,   \* the last number handed out below each prefix
    made,       \* number of requests made
    pc, req

vars == << code, owner, items, savedBy, reserved, made, pc, req >>
tables == << code, owner, items, savedBy >>

Resting == {"idle", "failed", "exhausted"}
Working == {"loop", "routine", "reserve", "readCodes", "reserveAgain", "upsert",
            "clearItems", "insertItems", "dropAssets"}

Request == [payload : Payloads, sent : [Rows -> Codes \cup {None}],
            number : RequestNumbers, alone : BOOLEAN,
            projects : SUBSET Projects, assets : SUBSET Assets,
            drops : SUBSET Assets, deletes : SUBSET Projects,
            row : Rows \cup {None}, target : Rows \cup {None},
            parent : Projects \cup {None}, prefix : Prefixes,
            want : Codes \cup {None}, exclude : Rows \cup {None},
            force : BOOLEAN, minted : BOOLEAN,
            attempt : 0..MaxAttempts, refused : SUBSET Codes,
            saved : [Projects -> Projects \cup {None}]]

BudgetTypeOK ==
    /\ code \in [Rows -> Codes \cup {None}]
    /\ owner \in [Assets -> Projects \cup {None}]
    /\ items \in [Projects -> SUBSET RequestNumbers]
    /\ savedBy \in [Rows -> 0..MaxRequests]
    /\ reserved \in [Prefixes -> Numbers]
    /\ made \in 0..MaxRequests
    /\ pc \in [Requests -> Resting \cup Working]
    /\ req \in [Requests -> Request \cup {None}]
    /\ \A r \in Requests : pc[r] \in Working => req[r] \in Request

Init ==
    /\ code = FirstCodes
    /\ owner = FirstOwners
    /\ items = [p \in Projects |-> {}]
    /\ savedBy = [x \in Rows |-> 0]
    /\ reserved = Reserved
    /\ made = 0
    /\ pc = [r \in Requests |-> "idle"]
    /\ req = [r \in Requests |-> None]

-------------------------------------------------------------------------------
InFlight(r) == pc[r] \in Working

\* resolveAssetCodePrefix: assets of the aggregator are numbered below "00".
AssetPrefix(c) == IF c = Routine THEN 0 ELSE c[2]

\* remapAssetCodePrefix: an asset numbered below the old code moves below the new.
Remapped(c, old, new) ==
    IF c # None /\ c[1] = AssetPrefix(old) THEN << AssetPrefix(new), c[2] >> ELSE c

Goto(r, to, q) ==
    /\ pc' = [pc EXCEPT ![r] = to]
    /\ req' = [req EXCEPT ![r] = q]
    /\ UNCHANGED made

Answer(r) == Goto(r, "idle", None)

Throw(r, outcome) ==
    /\ pc' = [pc EXCEPT ![r] = outcome]
    /\ req' = [req EXCEPT ![r] = IF outcome = "failed" THEN None ELSE @]
    /\ UNCHANGED made

NewRequest(y) ==
    [payload |-> y, sent |-> y.sent,
     number |-> made + 1, alone |-> ~ \E s \in Requests : InFlight(s),
     projects |-> {}, assets |-> {}, drops |-> {}, deletes |-> {},
     row |-> None, target |-> None, parent |-> None, prefix |-> Hu,
     want |-> None, exclude |-> None, force |-> FALSE, minted |-> FALSE,
     attempt |-> 0, refused |-> {}, saved |-> [p \in Projects |-> None]]

\* Whoever is in flight when a request starts is alone no longer.
Start(r, next, q) ==
    /\ pc[r] \in Resting
    /\ made < MaxRequests
    /\ made' = made + 1
    /\ pc' = [pc EXCEPT ![r] = next]
    /\ req' = [s \in Requests |->
                  CASE s = r -> q
                    [] s # r /\ InFlight(s) -> [req[s] EXCEPT !.alone = FALSE]
                    [] OTHER -> req[s]]
    /\ UNCHANGED << tables, reserved >>

-------------------------------------------------------------------------------
(* The requests *)

Touched(y, p) == IF y.touched = {} THEN y.assets[p] ELSE y.assets[p] \cap y.touched

Live(y) == y.changed \ y.deleted
Gone(y) == y.deleted \cap y.changed
Present(y) == UNION {y.assets[p] : p \in Live(y)}

\* Assets that were touched and are in no project of the payload are deleted.
SavePeriod(r, y) ==
    /\ y.kind = "period"
    /\ Start(r, "loop", [NewRequest(y) EXCEPT
                            !.projects = Live(y),
                            !.drops = y.touched \ Present(y),
                            !.deletes = Gone(y)])

SaveSingleProject(r, y) ==
    /\ y.kind = "project"
    /\ Start(r, "loop", [NewRequest(y) EXCEPT !.projects = y.changed])

\* The project is read first: an asset of a project that is gone is refused.
SaveSingleAsset(r, y) ==
    /\ y.kind = "asset"
    /\ \E p \in y.changed :
          /\ code[p] # None
          /\ Start(r, "loop", [NewRequest(y) EXCEPT
                                  !.assets = y.touched, !.parent = p,
                                  !.prefix = AssetPrefix(code[p])])

AllocateProjectCode(r, y) ==
    /\ y.kind = "code"
    /\ Start(r, "reserve", [NewRequest(y) EXCEPT !.force = TRUE])

-------------------------------------------------------------------------------
(* Finding a code *)

\* What select-by-id tells: an error that nobody looks at reads as "no such row".
Reads(x) == IF "read" \in Faults THEN {code[x] # None, FALSE} ELSE {code[x] # None}

\* A known row keeps the code the client sent if it is free, a new one gets the
\* next number whatever was sent, and the aggregator has a code of its own.
ReadProject(r) ==
    /\ pc[r] = "loop"
    /\ req[r].assets = {}
    /\ \E p \in req[r].projects : \E known \in Reads(p) :
          LET q == [req[r] EXCEPT !.projects = @ \ {p}, !.row = p, !.target = p,
                        !.prefix = Hu, !.attempt = 0, !.refused = {},
                        !.want = req[r].sent[p],
                        !.exclude = IF known THEN p ELSE None,
                        !.force = ~known, !.minted = ~known]
          IN  Goto(r, CASE q.want = Routine /\ known -> "upsert"
                        [] q.want = Routine /\ ~known -> "routine"
                        [] q.want # Routine /\ known -> "readCodes"
                        [] OTHER -> "reserve", q)
    /\ UNCHANGED << tables, reserved >>

\* Mutant: the select for the aggregator lost its filter on the code.
FindRoutineAny(r) ==
    /\ pc[r] = "routine"
    /\ \E x \in {p \in Projects : code[p] # None} :
          Goto(r, "upsert", [req[r] EXCEPT !.target = x])
    /\ UNCHANGED << tables, reserved >>

\* A second aggregator is folded into the row that there is.
FindRoutine(r) ==
    /\ pc[r] = "routine"
    /\ LET there == {p \in Projects : code[p] = Routine} IN
       \E x \in IF there = {} THEN {req[r].row} ELSE there :
          Goto(r, "upsert", [req[r] EXCEPT !.target = x])
    /\ UNCHANGED << tables, reserved >>

ReadAsset(r) ==
    /\ pc[r] = "loop"
    /\ \E a \in req[r].assets : \E known \in Reads(a) :
          Goto(r, IF known THEN "readCodes" ELSE "reserve",
               [req[r] EXCEPT !.assets = @ \ {a}, !.row = a, !.target = a,
                   !.attempt = 0, !.refused = {}, !.want = req[r].sent[a],
                   !.exclude = IF known THEN a ELSE None,
                   !.force = ~known, !.minted = ~known])
    /\ UNCHANGED << tables, reserved >>

\* A code has been found: it is tried, or was the last of too many, or is all
\* that was asked for.
Found(r, q, c) ==
    CASE q.attempt = MaxAttempts -> Throw(r, "exhausted")
      [] q.payload.kind = "code" -> Answer(r)
      [] OTHER -> Goto(r, "upsert", [q EXCEPT !.want = c])

\* Mutant: the number is read and not taken.
ReservePeek(r) ==
    /\ pc[r] \in {"reserve", "reserveAgain"}
    /\ LET x == req[r].prefix IN
       /\ reserved[x] < MaxNumber
       /\ Found(r, req[r], << x, reserved[x] + 1 >>)
    /\ UNCHANGED << tables, reserved >>

\* reserve_next_project_nn and reserve_next_asset_seq.
Reserve(r) ==
    /\ pc[r] \in {"reserve", "reserveAgain"}
    /\ LET x == req[r].prefix IN
       /\ reserved[x] < MaxNumber
       /\ reserved' = [reserved EXCEPT ![x] = @ + 1]
       /\ Found(r, req[r], << x, reserved[x] + 1 >>)
    /\ UNCHANGED tables

ReserveFails(r) ==
    /\ pc[r] = "reserve"
    /\ "rpc" \in Faults
    /\ Goto(r, "readCodes", [req[r] EXCEPT !.want = None, !.minted = FALSE])
    /\ UNCHANGED << tables, reserved >>

ReserveFailsAgain(r) ==
    /\ pc[r] = "reserveAgain"
    /\ "rpc" \in Faults
    /\ Found(r, [req[r] EXCEPT !.minted = FALSE], req[r].want)
    /\ UNCHANGED << tables, reserved >>

\* The rows whose codes are looked at: all projects, or the assets of the project
\* with the code in hand if there is one.
Siblings(q) ==
    IF q.prefix = Hu THEN Projects
    ELSE LET holders == {p \in Projects : code[p] # None /\ AssetPrefix(code[p]) = q.prefix}
         IN  IF holders # {} THEN {x \in Assets : owner[x] \in holders}
             ELSE {x \in Assets : code[x] # None /\ code[x][1] = q.prefix}

UsedCodes(q) == {code[x] : x \in {y \in Siblings(q) : y # q.exclude /\ code[y] # None}}

\* Next after the largest number in use (maxProjectNnFromDb).
NextCode(q) ==
    << q.prefix, 1 + Max({0} \cup {c[2] : c \in {d \in UsedCodes(q) : d[1] = q.prefix}}) >>

ReadCodes(r) ==
    LET q == req[r]
        keep == q.exclude # None /\ q.want # None /\ q.want \notin UsedCodes(q)
    IN  /\ pc[r] = "readCodes"
        /\ NextCode(q) \in Codes
        /\ IF keep THEN Found(r, q, q.want)
           ELSE IF q.force THEN Goto(r, "reserveAgain",
                                     [q EXCEPT !.want = NextCode(q)])
           ELSE Found(r, q, NextCode(q))
        /\ UNCHANGED << tables, reserved >>

-------------------------------------------------------------------------------
(* Writing the rows *)

Taken(q) == \E x \in Rows \ {q.target} : code[x] = q.want

\* 23505: the unique constraint refuses the code, and another one is found.  A
\* project takes the next number, an asset reads the codes of its project again.
UpsertRefused(r) ==
    LET q == req[r] IN
    /\ pc[r] = "upsert"
    /\ Taken(q)
    /\ q.want # Routine
    /\ LET again == [q EXCEPT !.attempt = @ + 1, !.refused = @ \cup {q.want},
                              !.want = None, !.force = TRUE,
                              !.exclude = IF q.target \in Assets THEN q.target ELSE None]
       IN  Goto(r, IF q.target \in Assets THEN "readCodes" ELSE "reserve", again)
    /\ UNCHANGED << tables, reserved >>

RoutineRefused(r) ==
    /\ pc[r] = "upsert"
    /\ req[r].want = Routine /\ Taken(req[r])
    /\ Throw(r, "failed")
    /\ UNCHANGED << tables, reserved >>

SaveRow(q) ==
    /\ code' = [code EXCEPT ![q.target] = q.want]
    /\ savedBy' = [savedBy EXCEPT ![q.target] = q.number]

\* What follows a saved project are its pipeline items and its touched assets,
\* whose codes move with it if it was saved under another code than sent.
UpsertProject(r) ==
    LET q == req[r]
        y == q.payload
        mine == IF y.kind = "period" THEN Touched(y, q.row) ELSE {}
    IN  /\ pc[r] = "upsert"
        /\ q.target \in Projects /\ ~Taken(q)
        /\ SaveRow(q)
        /\ Goto(r, IF q.row \in y.pipeline THEN "clearItems" ELSE "loop",
                [q EXCEPT !.saved[q.row] = q.target, !.parent = q.target,
                          !.prefix = AssetPrefix(q.want), !.assets = mine,
                          !.sent = [x \in Rows |->
                              IF x \in mine THEN Remapped(q.sent[x], q.sent[q.row], q.want)
                              ELSE q.sent[x]]])
        /\ UNCHANGED << owner, items, reserved >>

\* Mutant: the project of an asset is not written.
UpsertAssetInPlace(r) ==
    /\ pc[r] = "upsert"
    /\ req[r].target \in Assets /\ ~Taken(req[r])
    /\ SaveRow(req[r])
    /\ Goto(r, "loop", req[r])
    /\ UNCHANGED << owner, items, reserved >>

UpsertAsset(r) ==
    LET q == req[r] IN
    /\ pc[r] = "upsert"
    /\ q.target \in Assets /\ ~Taken(q)
    /\ SaveRow(q)
    /\ owner' = [owner EXCEPT ![q.target] = q.parent]
    /\ Goto(r, "loop", q)
    /\ UNCHANGED << items, reserved >>

\* persistPipelineItems deletes all rows of the project and inserts the new ones.
ClearItems(r) ==
    /\ pc[r] = "clearItems"
    /\ items' = [items EXCEPT ![req[r].parent] = {}]
    /\ Goto(r, "insertItems", req[r])
    /\ UNCHANGED << code, owner, savedBy, reserved >>

InsertItems(r) ==
    /\ pc[r] = "insertItems"
    /\ items' = [items EXCEPT ![req[r].parent] = @ \cup {req[r].number}]
    /\ Goto(r, "loop", req[r])
    /\ UNCHANGED << code, owner, savedBy, reserved >>

-------------------------------------------------------------------------------
(* Deleting *)

Saving(q) == q.projects # {} \/ q.assets # {}

RemoveRow(x) ==
    /\ code' = [code EXCEPT ![x] = None]
    /\ savedBy' = [savedBy EXCEPT ![x] = 0]

DropAsset(r) ==
    /\ pc[r] = "loop"
    /\ ~Saving(req[r])
    /\ \E a \in req[r].drops :
          /\ RemoveRow(a)
          /\ owner' = [owner EXCEPT ![a] = None]
          /\ Goto(r, "loop", [req[r] EXCEPT !.drops = @ \ {a}])
    /\ UNCHANGED << items, reserved >>

\* deleteProjectCascade works through the assets it read at its start.
ReadDeletedProject(r) ==
    /\ pc[r] = "loop"
    /\ ~Saving(req[r]) /\ req[r].drops = {}
    /\ \E p \in req[r].deletes :
          Goto(r, "dropAssets",
               [req[r] EXCEPT !.deletes = @ \ {p}, !.target = p,
                              !.assets = {a \in Assets : owner[a] = p}])
    /\ UNCHANGED << tables, reserved >>

DropProjectAsset(r) ==
    /\ pc[r] = "dropAssets"
    /\ \E a \in req[r].assets :
          /\ RemoveRow(a)
          /\ owner' = [owner EXCEPT ![a] = None]
          /\ Goto(r, "dropAssets", [req[r] EXCEPT !.assets = @ \ {a}])
    /\ UNCHANGED << items, reserved >>

DropProject(r) ==
    /\ pc[r] = "dropAssets"
    /\ req[r].assets = {}
    /\ RemoveRow(req[r].target)
    /\ items' = [items EXCEPT ![req[r].target] = {}]
    /\ Goto(r, "loop", req[r])
    /\ UNCHANGED << owner, reserved >>

\* The caches of the period are dropped (PeriodCache), and the save is answered.
Invalidate(r) ==
    /\ pc[r] = "loop"
    /\ ~Saving(req[r]) /\ req[r].drops = {} /\ req[r].deletes = {}
    /\ Answer(r)
    /\ UNCHANGED << tables, reserved >>

Abort(r) ==
    /\ "abort" \in Faults
    /\ InFlight(r)
    /\ Throw(r, "failed")
    /\ UNCHANGED << tables, reserved >>

-------------------------------------------------------------------------------
Arrive(r) ==
    \E y \in Payloads : \/ SavePeriod(r, y) \/ SaveSingleProject(r, y)
                        \/ SaveSingleAsset(r, y) \/ AllocateProjectCode(r, y)

FindCode(r) == \/ ReadProject(r) \/ FindRoutine(r) \/ ReadAsset(r)
               \/ Reserve(r) \/ ReserveFails(r)
               \/ ReadCodes(r) \/ ReserveFailsAgain(r)

WriteRows(r) == \/ UpsertRefused(r) \/ RoutineRefused(r)
                \/ UpsertProject(r) \/ UpsertAsset(r)
                \/ ClearItems(r) \/ InsertItems(r)

Delete(r) == DropAsset(r) \/ ReadDeletedProject(r) \/ DropProjectAsset(r) \/ DropProject(r)

Progress(r) == FindCode(r) \/ WriteRows(r) \/ Delete(r) \/ Invalidate(r)

Next == \E r \in Requests : Arrive(r) \/ Progress(r) \/ Abort(r)

Spec == Init /\ [][Next]_vars
-------------------------------------------------------------------------------
(* Properties *)

\* What a period save that nobody interfered with leaves behind is its payload:
\* the projects and touched assets are saved under their ids (an aggregator under
\* the one there was), an asset hangs below a project it was sent in, pipeline
\* items are there once, and what was deleted or taken out is gone.
Whole(q) ==
    LET y == q.payload
    IN  /\ \A p \in Live(y) :
              /\ q.saved[p] # None /\ savedBy[q.saved[p]] = q.number
              /\ q.saved[p] # p => y.sent[p] = Routine
              /\ q.saved[p] \notin y.changed => code[q.saved[p]] = Routine
              /\ p \in y.pipeline => items[q.saved[p]] = {q.number}
              /\ \A a \in Touched(y, p) :
                    /\ savedBy[a] = q.number
                    /\ \E x \in Live(y) : a \in Touched(y, x) /\ owner[a] = q.saved[x]
        /\ \A a \in y.touched \ Present(y) : code[a] = None
        /\ \A p \in Gone(y) :
              code[p] = None /\ items[p] = {} /\ \A a \in Assets : owner[a] # p

\* The page lets nobody delete the aggregator into which another one may be folded.
KeepsAggregator(q) == \A p \in Live(q.payload) : q.saved[p] \notin Gone(q.payload)

AnsweredSaveIsWhole ==
    [][\A r \in Requests :
          /\ InFlight(r) /\ req[r].alone /\ req[r].payload.kind = "period"
          /\ pc'[r] = "idle" /\ KeepsAggregator(req[r])
          => Whole(req[r])]_vars

\* A new row is given up only after that many different codes turned out to be
\* taken: as long as the sequence answers, no attempt is spent on a code that was
\* refused before (the retries of upsertProjectById and persistAssetRow).
GivesUpOnlyWhenCrowded ==
    \A r \in Requests :
        pc[r] = "exhausted" /\ req[r].minted => Cardinality(req[r].refused) = MaxAttempts

SentRows(y) == y.changed \cup y.touched \cup UNION {Touched(y, p) : p \in y.changed}

\* "Persist a project without overwriting a different project's row": a save
\* writes the rows it was sent, and besides them only the routine aggregator, which
\* nobody but another save may have renumbered or deleted meanwhile.
NoForeignOverwrite ==
    [][\A x \in Rows : savedBy'[x] \notin {0, savedBy[x]} =>
          \E r \in Requests :
              /\ InFlight(r) /\ savedBy'[x] = req[r].number
              /\ \/ x \in SentRows(req[r].payload)
                 \/ code'[x] = Routine /\ (req[r].alone => code[x] = Routine)]_vars

===============================================================================
