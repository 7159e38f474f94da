---------------------------- MODULE AssetSaveProofs ----------------------------
(***************************************************************************)
(* Theorems about how assets get saved.                                    *)
(*                                                                         *)
(* BudgetSave, for any number of projects, assets, requests and payloads,  *)
(* whatever fails.  A save is a long chain of steps, so its invariant says *)
(* at every place of the chain what the request is about to write (Aims),  *)
(* which codes were refused to it (Mints), and, as long as it is alone,    *)
(* what it has before it (Ahead), behind it (Behind) and out of the way    *)
(* (Removed).                                                              *)
(*                                                                         *)
(* OrderPages, for any number of assets and pages: every order gets to the *)
(* workflow, and without a page of receipts no quantity changes, for every *)
(* copy on a page has those of the table (QtyInv).                         *)
(*                                                                         *)
(* MultiYearPage, for any number of periods and plans: the page shows what *)
(* is stored and typed.                                                    *)
(*                                                                         *)
(* And the three together, as one instance (MCAssetSaves).                 *)
(***************************************************************************)
EXTENDS MCAssetSaves, FiniteSetTheorems, TLAPS

-------------------------------------------------------------------------------
(* BudgetSave *)

\* The places where a row has been read and is not written yet.
Finding == {"routine", "reserve", "readCodes", "reserveAgain", "upsert"}

\* What a request is about to write was sent, or is the aggregator.
Aims(q, at) ==
    /\ q.projects \subseteq q.payload.changed
    /\ at # "dropAssets" => q.assets \subseteq SentRows(q.payload)
    /\ \A x \in Projects : q.sent[x] = q.payload.sent[x]
    /\ q.payload.kind = "code" =>
          at \in {"reserve", "readCodes", "reserveAgain"} /\ q.attempt = 0
    /\ at \in Finding /\ q.payload.kind # "code" =>
          /\ q.row \in SentRows(q.payload)
          /\ q.row \in Projects => q.row \in q.payload.changed
          /\ \/ q.target = q.row
             \/ /\ at = "upsert" /\ q.want = Routine
                /\ q.row \in Projects /\ q.target \in Projects
    /\ at \in {"upsert", "reserveAgain"} => q.want # None
    /\ at = "upsert" => q.attempt < MaxAttempts
    /\ at = "routine" => /\ q.want = Routine /\ q.attempt = 0 /\ q.refused = {}
                         /\ q.row \in Projects

\* The codes that were refused to a new row are different, as each is a number higher
\* than those before.
Mints(q, at) ==
    at \in Finding \cup {"exhausted"} /\ q.minted =>
       /\ IsFiniteSet(q.refused) /\ Cardinality(q.refused) = q.attempt /\ q.force
       /\ \A c \in q.refused : c[1] = q.prefix /\ c[2] <= reserved[q.prefix]
       /\ at = "exhausted" => q.attempt = MaxAttempts
       /\ at = "readCodes" => q.want = None
       /\ at = "upsert" /\ q.want # Routine =>
             /\ q.want[1] = q.prefix /\ q.want[2] <= reserved[q.prefix]
             /\ q.want \notin q.refused

\* A request that is alone has the tables to itself.
OnlyOne == \A r, s \in Requests : InFlight(r) /\ req[r].alone /\ InFlight(s) => r = s

\* The projects that were saved, and those that an asset was sent in.
Settled(q, at) ==
    {p \in Live(q.payload) : p \notin q.projects /\ ~(at \in Finding /\ q.row = p)}
Homes(q, a) == {q.saved[p] : p \in {x \in Live(q.payload) : a \in Touched(q.payload, x)}}
TakenOut(y) == y.touched \ Present(y)

\* What a save of a period has before it.
Ahead(q, at) ==
    /\ q.projects \subseteq Live(q.payload)
    /\ q.drops \subseteq TakenOut(q.payload) /\ q.deletes \subseteq Gone(q.payload)
    /\ at \in Finding =>
          \/ /\ q.row \in Live(q.payload) \ q.projects
             /\ q.assets = {} /\ q.saved[q.row] = None
             /\ at = "routine" \/ q.target # q.row => q.payload.sent[q.row] = Routine
          \/ /\ q.row \in Assets /\ q.target = q.row
             /\ q.parent \in Homes(q, q.row) /\ q.parent # None
    /\ at # "dropAssets" => \A a \in q.assets : q.parent \in Homes(q, a) /\ q.parent # None
    /\ at \in {"clearItems", "insertItems"} =>
          q.row \in Settled(q, at) /\ q.parent = q.saved[q.row]
    /\ at = "dropAssets" => q.target \in Gone(q.payload) \ q.deletes
    /\ q.drops # TakenOut(q.payload) \/ q.deletes # Gone(q.payload) \/ at = "dropAssets" =>
          q.projects = {} /\ at \in {"loop", "dropAssets"} /\ (at = "loop" => q.assets = {})
    /\ q.deletes # Gone(q.payload) \/ at = "dropAssets" => q.drops = {}
    /\ \A p \in q.projects : q.saved[p] = None
    /\ \A p \in Settled(q, at) :
          q.saved[p] # None /\ (q.saved[p] # p => q.payload.sent[p] = Routine)

\* What it has behind it, as long as no aggregator is deleted that it folded another into.
Behind(q, at) ==
    /\ \A p \in Settled(q, at) :
          /\ savedBy[q.saved[p]] = q.number
          /\ q.saved[p] \notin q.payload.changed => code[q.saved[p]] = Routine
          /\ p \in q.payload.pipeline =>
                \/ items[q.saved[p]] = {q.number}
                \/ at \in {"clearItems", "insertItems"} /\ q.saved[p] = q.parent
          /\ \A a \in Touched(q.payload, p) :
                \/ at # "dropAssets" /\ a \in q.assets
                \/ at \in Finding /\ q.row = a
                \/ savedBy[a] = q.number /\ owner[a] \in Homes(q, a) /\ owner[a] # None
    /\ at = "dropAssets" => \A a \in q.assets : owner[a] = q.target
    /\ at = "insertItems" => items[q.parent] = {}

\* The rows it has taken out.
Removed(q, at) ==
    /\ \A a \in TakenOut(q.payload) \ q.drops : code[a] = None
    /\ \A p \in Gone(q.payload) \ q.deletes :
          IF at = "dropAssets" /\ q.target = p
          THEN \A a \in Assets : owner[a] = p => a \in q.assets
          ELSE code[p] = None /\ items[p] = {} /\ \A a \in Assets : owner[a] # p

SoFar(q, at) ==
    q.alone /\ q.payload.kind = "period" =>
       /\ Ahead(q, at)
       /\ KeepsAggregator(q) => Behind(q, at)
       /\ Removed(q, at)

\* Nobody renumbers the aggregator between its reading and its writing.
Folds(q, at) ==
    q.alone /\ at = "upsert" /\ q.target # q.row => code[q.target] = Routine

At(r, q, at) == pc[r] = at /\ req[r] = q

BudgetInv ==
    /\ BudgetTypeOK
    /\ OnlyOne
    /\ \A r \in Requests, q \in Request, at \in Working :
          At(r, q, at) => Aims(q, at) /\ Mints(q, at) /\ Folds(q, at) /\ SoFar(q, at)
    /\ \A r \in Requests : pc[r] = "exhausted" => req[r] \in Request
    /\ \A r \in Requests, q \in Request : At(r, q, "exhausted") => Mints(q, "exhausted")

-------------------------------------------------------------------------------
(* Codes, payloads and requests *)

\* A code is a prefix and a number; the aggregator's, and those that the sequences
\* hand out, are codes.
LEMMA CodeTypes ==
    /\ Routine \in Codes /\ Hu \in Prefixes
    /\ \A x \in Prefixes, n \in Numbers : << x, n >> \in Codes
    /\ \A c \in Codes : c[1] \in Prefixes /\ c[2] \in Numbers /\ AssetPrefix(c) \in Prefixes
    /\ None \notin Codes /\ None \notin Rows
    /\ \A c \in Codes \cup {None}, d, e \in Codes : Remapped(c, d, e) \in Codes \cup {None}
PROOF
    <1>1. MaxNumber \in Nat /\ None \notin Codes \cup Rows  BY BudgetAssumption
    <1>2. 0 \in Numbers  BY <1>1 DEF Numbers
    <1>3. \A x \in Prefixes, n \in Numbers : << x, n >> \in Codes  BY DEF Prefixes, Codes
    <1>4. \A c \in Codes : c[1] \in Prefixes /\ c[2] \in Numbers  BY DEF Prefixes, Codes
    <1>5. Hu \in Prefixes /\ Numbers \subseteq Prefixes  BY DEF Prefixes
    <1>6. Routine \in Codes  BY <1>2, <1>3, <1>5 DEF Routine
    <1>7. \A c \in Codes : AssetPrefix(c) \in Numbers  BY <1>2, <1>4 DEF AssetPrefix
    <1>8. ASSUME NEW c \in Codes \cup {None}, NEW d \in Codes, NEW e \in Codes
          PROVE  Remapped(c, d, e) \in Codes \cup {None}
        <2>1. CASE c # None /\ c[1] = AssetPrefix(d)
            <3>1. c[2] \in Numbers /\ AssetPrefix(e) \in Prefixes  BY <2>1, <1>4, <1>5, <1>7
            <3>2. << AssetPrefix(e), c[2] >> \in Codes  BY <3>1, <1>3
            <3> QED  BY <2>1, <3>2 DEF Remapped
        <2>2. CASE ~ (c # None /\ c[1] = AssetPrefix(d))  BY <2>2 DEF Remapped
        <2> QED  BY <2>1, <2>2
    <1> QED  BY <1>1, <1>3, <1>4, <1>5, <1>6, <1>7, <1>8

\* The parts of what a client sends, and what of it is where.
LEMMA PayloadTypes ==
    ASSUME NEW y \in Payloads
    PROVE  /\ y.kind \in {"period", "project", "asset", "code"}
           /\ y.changed \subseteq Projects /\ y.deleted \subseteq Projects
           /\ y.touched \subseteq Assets /\ y.pipeline \subseteq Projects
           /\ y.assets \in [Projects -> SUBSET Assets]
           /\ y.sent \in [Rows -> Codes \cup {None}]
           /\ Live(y) \subseteq y.changed /\ Live(y) \subseteq Projects
           /\ Gone(y) \subseteq Projects /\ Live(y) \cap Gone(y) = {}
           /\ TakenOut(y) \subseteq Assets
           /\ \A p \in Projects : Touched(y, p) \subseteq Assets
           /\ \A p \in Live(y) : Touched(y, p) \cap TakenOut(y) = {}
           /\ \A p \in y.changed : Touched(y, p) \subseteq SentRows(y)
           /\ y.changed \subseteq SentRows(y) /\ y.touched \subseteq SentRows(y)
           /\ SentRows(y) \subseteq Rows
PROOF
    <1>1. y \in Payload  BY BudgetAssumption
    <1>2. /\ y.kind \in {"period", "project", "asset", "code"}
          /\ y.changed \subseteq Projects /\ y.deleted \subseteq Projects
          /\ y.touched \subseteq Assets /\ y.pipeline \subseteq Projects
          /\ y.assets \in [Projects -> SUBSET Assets]
          /\ y.sent \in [Rows -> Codes \cup {None}]
        BY <1>1 DEF Payload
    <1>3. /\ Live(y) \subseteq y.changed /\ Live(y) \subseteq Projects
          /\ Gone(y) \subseteq Projects /\ Live(y) \cap Gone(y) = {}
        BY <1>2 DEF Live, Gone
    <1>4. TakenOut(y) \subseteq Assets  BY <1>2 DEF TakenOut
    <1>5. \A p \in Projects : Touched(y, p) \subseteq y.assets[p]  BY DEF Touched
    <1>6. \A p \in Projects : Touched(y, p) \subseteq Assets  BY <1>2, <1>5
    <1>7. \A p \in Live(y) : y.assets[p] \subseteq Present(y)  BY DEF Present
    <1>8. \A p \in Live(y) : Touched(y, p) \cap TakenOut(y) = {}
        BY <1>3, <1>5, <1>7 DEF TakenOut
    <1>9. \A p \in y.changed : Touched(y, p) \subseteq SentRows(y)  BY DEF SentRows
    <1>10. y.changed \subseteq SentRows(y) /\ y.touched \subseteq SentRows(y)  BY DEF SentRows
    <1>11. UNION {Touched(y, p) : p \in y.changed} \subseteq Assets  BY <1>2, <1>6
    <1>12. SentRows(y) \subseteq Rows  BY <1>2, <1>11 DEF SentRows, Rows
    <1> QED  BY <1>2, <1>3, <1>4, <1>6, <1>8, <1>9, <1>10, <1>12

\* The parts of a request.
LEMMA RequestTypes ==
    ASSUME NEW q \in Request
    PROVE  /\ q.payload \in Payloads /\ q.sent \in [Rows -> Codes \cup {None}]
           /\ q.number \in RequestNumbers /\ q.alone \in BOOLEAN
           /\ q.projects \in SUBSET Projects /\ q.assets \in SUBSET Assets
           /\ q.drops \in SUBSET Assets /\ q.deletes \in SUBSET Projects
           /\ q.row \in Rows \cup {None} /\ q.target \in Rows \cup {None}
           /\ q.parent \in Projects \cup {None} /\ q.prefix \in Prefixes
           /\ q.want \in Codes \cup {None} /\ q.exclude \in Rows \cup {None}
           /\ q.force \in BOOLEAN /\ q.minted \in BOOLEAN
           /\ q.attempt \in 0..MaxAttempts /\ q.refused \in SUBSET Codes
           /\ q.saved \in [Projects -> Projects \cup {None}]
PROOF  BY DEF Request

LEMMA ConstantTypes ==
    /\ Projects \cap Assets = {} /\ Projects \subseteq Rows /\ Assets \subseteq Rows
    /\ \A x \in Rows : x \in Projects \/ x \in Assets
    /\ None \notin Rows /\ None \notin Projects /\ None \notin Assets
    /\ MaxNumber \in Nat /\ MaxRequests \in Nat /\ MaxAttempts \in Nat \ {0}
    /\ \A n \in Numbers : n \in Nat
PROOF
    <1>1. Projects \cap Assets = {} /\ None \notin Rows  BY BudgetAssumption
    <1>2. Projects \subseteq Rows /\ Assets \subseteq Rows  BY DEF Rows
    <1>3. \A x \in Rows : x \in Projects \/ x \in Assets  BY DEF Rows
    <1>4. MaxNumber \in Nat /\ MaxRequests \in Nat /\ MaxAttempts \in Nat \ {0}
        BY BudgetAssumption
    <1>5. \A n \in Numbers : n \in Nat  BY <1>4 DEF Numbers
    <1> QED  BY <1>1, <1>2, <1>3, <1>4, <1>5

-------------------------------------------------------------------------------
(* What each step makes of its request *)

SameSave(q, j) == /\ j.payload = q.payload /\ j.number = q.number /\ j.alone = q.alone
SameQueues(q, j) == /\ j.projects = q.projects /\ j.assets = q.assets
                    /\ j.drops = q.drops /\ j.deletes = q.deletes
SameRow(q, j) == /\ j.row = q.row /\ j.target = q.target /\ j.parent = q.parent
                 /\ j.sent = q.sent /\ j.saved = q.saved
SameTries(q, j) == /\ j.prefix = q.prefix /\ j.force = q.force
                   /\ j.attempt = q.attempt /\ j.refused = q.refused

Wants(q, c) == [q EXCEPT !.want = c]

LEMMA WantsFields ==
    ASSUME NEW q \in Request, NEW c \in Codes \cup {None}, NEW j, j = Wants(q, c)
    PROVE  /\ j \in Request /\ j.want = c /\ j.minted = q.minted
           /\ SameSave(q, j) /\ SameQueues(q, j) /\ SameRow(q, j) /\ SameTries(q, j)
PROOF
    <1>1. j \in Request  BY DEF Request, Wants
    <1> QED  BY <1>1 DEF Request, Wants, SameSave, SameQueues, SameRow, SameTries

Unminted(q) == [q EXCEPT !.minted = FALSE]

LEMMA UnmintedFields ==
    ASSUME NEW q \in Request, NEW j, j = Unminted(q)
    PROVE  /\ j \in Request /\ j.want = q.want /\ ~ j.minted
           /\ SameSave(q, j) /\ SameQueues(q, j) /\ SameRow(q, j) /\ SameTries(q, j)
PROOF
    <1>1. j \in Request  BY DEF Request, Unminted
    <1>2. j.minted = FALSE  BY DEF Request, Unminted
    <1> QED  BY <1>1, <1>2 DEF Request, Unminted, SameSave, SameQueues, SameRow, SameTries

Blanked(q) == [q EXCEPT !.want = None, !.minted = FALSE]

LEMMA BlankFields ==
    ASSUME NEW q \in Request, NEW j, j = Blanked(q)
    PROVE  /\ j \in Request /\ j.want = None /\ ~ j.minted
           /\ SameSave(q, j) /\ SameQueues(q, j) /\ SameRow(q, j) /\ SameTries(q, j)
PROOF
    <1>1. j \in Request  BY DEF Request, Blanked
    <1>2. j.minted = FALSE  BY DEF Request, Blanked
    <1> QED  BY <1>1, <1>2 DEF Request, Blanked, SameSave, SameQueues, SameRow, SameTries

Again(q) == [q EXCEPT !.attempt = @ + 1, !.refused = @ \cup {q.want}, !.want = None,
                      !.force = TRUE, !.exclude = IF q.target \in Assets THEN q.target ELSE None]

LEMMA AgainFields ==
    ASSUME NEW q \in Request, q.want \in Codes, q.attempt < MaxAttempts, NEW j, j = Again(q)
    PROVE  /\ j \in Request /\ j.want = None /\ j.minted = q.minted
           /\ j.attempt = q.attempt + 1 /\ j.refused = q.refused \cup {q.want}
           /\ j.force /\ j.prefix = q.prefix
           /\ SameSave(q, j) /\ SameQueues(q, j) /\ SameRow(q, j)
PROOF
    <1>1. q.attempt + 1 \in 0..MaxAttempts  BY ConstantTypes, RequestTypes
    <1>2. q.refused \cup {q.want} \in SUBSET Codes  BY RequestTypes
    <1>3. (IF q.target \in Assets THEN q.target ELSE None) \in Rows \cup {None}
        BY ConstantTypes
    <1>4. j \in Request  BY <1>1, <1>2, <1>3 DEF Request, Again
    <1>5. j.force = TRUE  BY DEF Request, Again
    <1> QED  BY <1>4, <1>5 DEF Request, Again, SameSave, SameQueues, SameRow

Aimed(q, x) == [q EXCEPT !.target = x]

LEMMA AimedFields ==
    ASSUME NEW q \in Request, NEW x \in Rows, NEW j, j = Aimed(q, x)
    PROVE  /\ j \in Request /\ j.target = x /\ j.row = q.row /\ j.parent = q.parent
           /\ j.sent = q.sent /\ j.saved = q.saved /\ j.want = q.want /\ j.minted = q.minted
           /\ SameSave(q, j) /\ SameQueues(q, j) /\ SameTries(q, j)
PROOF
    <1>1. j \in Request  BY DEF Request, Aimed
    <1> QED  BY <1>1 DEF Request, Aimed, SameSave, SameQueues, SameTries

KnownProject(q, p) ==
    [q EXCEPT !.projects = @ \ {p}, !.row = p, !.target = p, !.prefix = Hu,
              !.attempt = 0, !.refused = {}, !.want = q.sent[p],
              !.exclude = p, !.force = FALSE, !.minted = FALSE]

LEMMA KnownProjectFields ==
    ASSUME NEW q \in Request, NEW p \in Projects, NEW j, j = KnownProject(q, p)
    PROVE  /\ j \in Request /\ j.projects = q.projects \ {p} /\ j.row = p /\ j.target = p
           /\ j.prefix = Hu /\ j.attempt = 0 /\ j.refused = {} /\ j.want = q.sent[p]
           /\ ~ j.force /\ ~ j.minted
           /\ j.assets = q.assets /\ j.drops = q.drops /\ j.deletes = q.deletes
           /\ j.parent = q.parent /\ j.sent = q.sent /\ j.saved = q.saved
           /\ SameSave(q, j)
PROOF
    <1>1. q.projects \ {p} \in SUBSET Projects /\ 0 \in 0..MaxAttempts /\ p \in Rows
        BY ConstantTypes, RequestTypes
    <1>2. q.sent[p] \in Codes \cup {None} /\ Hu \in Prefixes  BY <1>1, RequestTypes, CodeTypes
    <1>3. j \in Request  BY <1>1, <1>2 DEF Request, KnownProject
    <1>4. j.force = FALSE /\ j.minted = FALSE  BY DEF Request, KnownProject
    <1>5. SameSave(q, j)  BY DEF Request, KnownProject, SameSave
    <1>6. /\ j.row = p /\ j.target = p /\ j.prefix = Hu
          /\ j.attempt = 0 /\ j.want = q.sent[p]
        BY DEF Request, KnownProject
    <1>7. j.refused = {}  BY DEF Request, KnownProject
    <1>8. j.projects = q.projects \ {p}  BY DEF Request, KnownProject
    <1>9. /\ j.assets = q.assets /\ j.drops = q.drops /\ j.deletes = q.deletes
          /\ j.parent = q.parent /\ j.sent = q.sent /\ j.saved = q.saved
        BY DEF Request, KnownProject
    <1> QED  BY <1>3, <1>4, <1>5, <1>6, <1>7, <1>8, <1>9

NewProject(q, p) ==
    [q EXCEPT !.projects = @ \ {p}, !.row = p, !.target = p, !.prefix = Hu,
              !.attempt = 0, !.refused = {}, !.want = q.sent[p],
              !.exclude = None, !.force = TRUE, !.minted = TRUE]

LEMMA NewProjectFields ==
    ASSUME NEW q \in Request, NEW p \in Projects, NEW j, j = NewProject(q, p)
    PROVE  /\ j \in Request /\ j.projects = q.projects \ {p} /\ j.row = p /\ j.target = p
           /\ j.prefix = Hu /\ j.attempt = 0 /\ j.refused = {} /\ j.want = q.sent[p]
           /\ j.force /\ j.minted
           /\ j.assets = q.assets /\ j.drops = q.drops /\ j.deletes = q.deletes
           /\ j.parent = q.parent /\ j.sent = q.sent /\ j.saved = q.saved
           /\ SameSave(q, j)
PROOF
    <1>1. q.projects \ {p} \in SUBSET Projects /\ 0 \in 0..MaxAttempts /\ p \in Rows
        BY ConstantTypes, RequestTypes
    <1>2. q.sent[p] \in Codes \cup {None} /\ Hu \in Prefixes  BY <1>1, RequestTypes, CodeTypes
    <1>3. j \in Request  BY <1>1, <1>2 DEF Request, NewProject
    <1>4. j.force = TRUE /\ j.minted = TRUE  BY DEF Request, NewProject
    <1>5. SameSave(q, j)  BY DEF Request, NewProject, SameSave
    <1>6. /\ j.row = p /\ j.target = p /\ j.prefix = Hu
          /\ j.attempt = 0 /\ j.want = q.sent[p]
        BY DEF Request, NewProject
    <1>7. j.refused = {}  BY DEF Request, NewProject
    <1>8. j.projects = q.projects \ {p}  BY DEF Request, NewProject
    <1>9. /\ j.assets = q.assets /\ j.drops = q.drops /\ j.deletes = q.deletes
          /\ j.parent = q.parent /\ j.sent = q.sent /\ j.saved = q.saved
        BY DEF Request, NewProject
    <1> QED  BY <1>3, <1>4, <1>5, <1>6, <1>7, <1>8, <1>9

KnownAsset(q, a) ==
    [q EXCEPT !.assets = @ \ {a}, !.row = a, !.target = a,
              !.attempt = 0, !.refused = {}, !.want = q.sent[a],
              !.exclude = a, !.force = FALSE, !.minted = FALSE]

LEMMA KnownAssetFields ==
    ASSUME NEW q \in Request, NEW a \in Assets, NEW j, j = KnownAsset(q, a)
    PROVE  /\ j \in Request /\ j.assets = q.assets \ {a} /\ j.row = a /\ j.target = a
           /\ j.prefix = q.prefix /\ j.attempt = 0 /\ j.refused = {} /\ j.want = q.sent[a]
           /\ ~ j.force /\ ~ j.minted
           /\ j.projects = q.projects /\ j.drops = q.drops /\ j.deletes = q.deletes
           /\ j.parent = q.parent /\ j.sent = q.sent /\ j.saved = q.saved
           /\ SameSave(q, j)
PROOF
    <1>1. q.assets \ {a} \in SUBSET Assets /\ 0 \in 0..MaxAttempts /\ a \in Rows
        BY ConstantTypes, RequestTypes
    <1>2. q.sent[a] \in Codes \cup {None} /\ Hu \in Prefixes  BY <1>1, RequestTypes, CodeTypes
    <1>3. j \in Request  BY <1>1, <1>2 DEF Request, KnownAsset
    <1>4. j.force = FALSE /\ j.minted = FALSE  BY DEF Request, KnownAsset
    <1>5. SameSave(q, j)  BY DEF Request, KnownAsset, SameSave
    <1>6. /\ j.row = a /\ j.target = a /\ j.prefix = q.prefix
          /\ j.attempt = 0 /\ j.want = q.sent[a]
        BY DEF Request, KnownAsset
    <1>7. j.refused = {}  BY DEF Request, KnownAsset
    <1>8. j.assets = q.assets \ {a}  BY DEF Request, KnownAsset
    <1>9. /\ j.projects = q.projects /\ j.drops = q.drops /\ j.deletes = q.deletes
          /\ j.parent = q.parent /\ j.sent = q.sent /\ j.saved = q.saved
        BY DEF Request, KnownAsset
    <1> QED  BY <1>3, <1>4, <1>5, <1>6, <1>7, <1>8, <1>9

NewlyPlaced(q, a) ==
    [q EXCEPT !.assets = @ \ {a}, !.row = a, !.target = a,
              !.attempt = 0, !.refused = {}, !.want = q.sent[a],
              !.exclude = None, !.force = TRUE, !.minted = TRUE]

LEMMA NewAssetFields ==
    ASSUME NEW q \in Request, NEW a \in Assets, NEW j, j = NewlyPlaced(q, a)
    PROVE  /\ j \in Request /\ j.assets = q.assets \ {a} /\ j.row = a /\ j.target = a
           /\ j.prefix = q.prefix /\ j.attempt = 0 /\ j.refused = {} /\ j.want = q.sent[a]
           /\ j.force /\ j.minted
           /\ j.projects = q.projects /\ j.drops = q.drops /\ j.deletes = q.deletes
           /\ j.parent = q.parent /\ j.sent = q.sent /\ j.saved = q.saved
           /\ SameSave(q, j)
PROOF
    <1>1. q.assets \ {a} \in SUBSET Assets /\ 0 \in 0..MaxAttempts /\ a \in Rows
        BY ConstantTypes, RequestTypes
    <1>2. q.sent[a] \in Codes \cup {None} /\ Hu \in Prefixes  BY <1>1, RequestTypes, CodeTypes
    <1>3. j \in Request  BY <1>1, <1>2 DEF Request, NewlyPlaced
    <1>4. j.force = TRUE /\ j.minted = TRUE  BY DEF Request, NewlyPlaced
    <1>5. SameSave(q, j)  BY DEF Request, NewlyPlaced, SameSave
    <1>6. /\ j.row = a /\ j.target = a /\ j.prefix = q.prefix
          /\ j.attempt = 0 /\ j.want = q.sent[a]
        BY DEF Request, NewlyPlaced
    <1>7. j.refused = {}  BY DEF Request, NewlyPlaced
    <1>8. j.assets = q.assets \ {a}  BY DEF Request, NewlyPlaced
    <1>9. /\ j.projects = q.projects /\ j.drops = q.drops /\ j.deletes = q.deletes
          /\ j.parent = q.parent /\ j.sent = q.sent /\ j.saved = q.saved
        BY DEF Request, NewlyPlaced
    <1> QED  BY <1>3, <1>4, <1>5, <1>6, <1>7, <1>8, <1>9

\* Of what follows a saved project, mine are the assets.
Resent(q, mine) ==
    [x \in Rows |-> IF x \in mine THEN Remapped(q.sent[x], q.sent[q.row], q.want) ELSE q.sent[x]]
ProjectSaved(q, mine) ==
    [q EXCEPT !.saved[q.row] = q.target, !.parent = q.target,
              !.prefix = AssetPrefix(q.want), !.assets = mine, !.sent = Resent(q, mine)]

LEMMA ProjectSavedFields ==
    ASSUME NEW q \in Request, NEW mine \in SUBSET Assets, q.row \in Projects,
           q.sent[q.row] \in Codes, q.target \in Projects, q.want \in Codes,
           NEW j, j = ProjectSaved(q, mine)
    PROVE  /\ j \in Request /\ j.assets = mine /\ j.parent = q.target
           /\ j.saved = [q.saved EXCEPT ![q.row] = q.target]
           /\ \A x \in Projects : j.sent[x] = q.sent[x]
           /\ j.projects = q.projects /\ j.drops = q.drops /\ j.deletes = q.deletes
           /\ j.row = q.row /\ j.target = q.target /\ SameSave(q, j)
PROOF
    <1>1. q.sent \in [Rows -> Codes \cup {None}] /\ q.saved \in [Projects -> Projects \cup {None}]
        BY RequestTypes
    <1>2. PICK t : t = Resent(q, mine)  OBVIOUS
    <1>3. PICK v : v = [q.saved EXCEPT ![q.row] = q.target]  OBVIOUS
    <1>4. v \in [Projects -> Projects \cup {None}]  BY <1>1, <1>3
    <1>5. \A x \in Rows : q.sent[x] \in Codes \cup {None}  BY <1>1
    <1>6. \A x \in Rows : Remapped(q.sent[x], q.sent[q.row], q.want) \in Codes \cup {None}
        BY <1>5, CodeTypes
    <1>7. t \in [Rows -> Codes \cup {None}]  BY <1>2, <1>5, <1>6 DEF Resent
    <1>8. \A x \in Projects : t[x] = q.sent[x]  BY <1>2, ConstantTypes DEF Resent
    <1>9. AssetPrefix(q.want) \in Prefixes  BY CodeTypes
    <1>10. j = [q EXCEPT !.saved = v, !.parent = q.target,
                         !.prefix = AssetPrefix(q.want), !.assets = mine, !.sent = t]
        BY <1>2, <1>3 DEF ProjectSaved, Request
    <1>15. q.target \in Projects \cup {None}  OBVIOUS
    <1>11. j \in Request  BY <1>4, <1>7, <1>9, <1>10, <1>15, ZenonT(60) DEF Request
    <1>12. SameSave(q, j)  BY <1>10 DEF Request, SameSave
    <1>13. j.sent = t /\ j.saved = v /\ j.assets = mine /\ j.parent = q.target
        BY <1>10 DEF Request
    <1>14. /\ j.projects = q.projects /\ j.drops = q.drops /\ j.deletes = q.deletes
           /\ j.row = q.row /\ j.target = q.target
        BY <1>10 DEF Request
    <1> QED  BY <1>3, <1>8, <1>11, <1>12, <1>13, <1>14

Dropped(q, a) == [q EXCEPT !.drops = @ \ {a}]

LEMMA DroppedFields ==
    ASSUME NEW q \in Request, NEW a, NEW j, j = Dropped(q, a)
    PROVE  /\ j \in Request /\ j.drops = q.drops \ {a} /\ j.projects = q.projects
           /\ j.assets = q.assets /\ j.deletes = q.deletes
           /\ SameSave(q, j) /\ SameRow(q, j)
PROOF
    <1>1. q.drops \ {a} \in SUBSET Assets  BY RequestTypes
    <1>2. j \in Request  BY <1>1 DEF Request, Dropped
    <1> QED  BY <1>2 DEF Request, Dropped, SameSave, SameRow

Deleting(q, p, mine) == [q EXCEPT !.deletes = @ \ {p}, !.target = p, !.assets = mine]

LEMMA DeletingFields ==
    ASSUME NEW q \in Request, NEW p \in Projects, NEW mine \in SUBSET Assets,
           NEW j, j = Deleting(q, p, mine)
    PROVE  /\ j \in Request /\ j.deletes = q.deletes \ {p} /\ j.target = p
           /\ j.assets = mine /\ j.projects = q.projects /\ j.drops = q.drops
           /\ j.row = q.row /\ j.parent = q.parent /\ j.sent = q.sent /\ j.saved = q.saved
           /\ SameSave(q, j)
PROOF
    <1>1. q.deletes \ {p} \in SUBSET Projects /\ p \in Rows  BY RequestTypes, ConstantTypes
    <1>2. j \in Request  BY <1>1 DEF Request, Deleting
    <1> QED  BY <1>2 DEF Request, Deleting, SameSave

AssetDropped(q, a) == [q EXCEPT !.assets = @ \ {a}]

LEMMA AssetDroppedFields ==
    ASSUME NEW q \in Request, NEW a, NEW j, j = AssetDropped(q, a)
    PROVE  /\ j \in Request /\ j.assets = q.assets \ {a} /\ j.projects = q.projects
           /\ j.drops = q.drops /\ j.deletes = q.deletes
           /\ SameSave(q, j) /\ SameRow(q, j)
PROOF
    <1>1. q.assets \ {a} \in SUBSET Assets  BY RequestTypes
    <1>2. j \in Request  BY <1>1 DEF Request, AssetDropped
    <1> QED  BY <1>2 DEF Request, AssetDropped, SameSave, SameRow

NotAlone(q) == [q EXCEPT !.alone = FALSE]

LEMMA NotAloneFields ==
    ASSUME NEW q \in Request, NEW j, j = NotAlone(q)
    PROVE  /\ j \in Request /\ ~ j.alone /\ j.payload = q.payload
           /\ j.want = q.want /\ j.minted = q.minted
           /\ SameQueues(q, j) /\ SameRow(q, j) /\ SameTries(q, j)
PROOF
    <1>1. j \in Request  BY DEF Request, NotAlone
    <1>2. j.alone = FALSE  BY DEF Request, NotAlone
    <1> QED  BY <1>1, <1>2 DEF Request, NotAlone, SameQueues, SameRow, SameTries

-------------------------------------------------------------------------------
(* What a step of one request is for the others *)

TablesOK ==
    /\ code \in [Rows -> Codes \cup {None}]
    /\ owner \in [Assets -> Projects \cup {None}]
    /\ items \in [Projects -> SUBSET RequestNumbers]
    /\ savedBy \in [Rows -> 0..MaxRequests]

SequencesGrow ==
    /\ reserved' \in [Prefixes -> Numbers]
    /\ \A x \in Prefixes : reserved[x] <= reserved'[x]

LEMMA TypesAre ==
    ASSUME BudgetTypeOK
    PROVE  /\ TablesOK /\ reserved \in [Prefixes -> Numbers] /\ made \in 0..MaxRequests
           /\ pc \in [Requests -> Resting \cup Working] /\ req \in [Requests -> Request \cup {None}]
           /\ \A r \in Requests : pc[r] \in Working => req[r] \in Request
PROOF  BY DEF BudgetTypeOK, TablesOK

LEMMA SequencesStay ==
    ASSUME BudgetTypeOK, UNCHANGED reserved
    PROVE  SequencesGrow
PROOF
    <1>1. reserved \in [Prefixes -> Numbers]  BY TypesAre
    <1>2. \A x \in Prefixes : reserved[x] \in Nat  BY <1>1, ConstantTypes
    <1>3. \A x \in Prefixes : reserved[x] <= reserved[x]  BY <1>2
    <1> QED  BY <1>1, <1>3 DEF SequencesGrow

LEMMA TablesStay ==
    ASSUME TablesOK, UNCHANGED tables
    PROVE  /\ TablesOK'
           /\ \A q, at : SoFar(q, at) => SoFar(q, at)'
           /\ \A q, at : Folds(q, at) => Folds(q, at)'
PROOF
    <1>1. code' = code /\ owner' = owner /\ items' = items /\ savedBy' = savedBy  BY DEF tables
    <1>2. TablesOK'  BY <1>1 DEF TablesOK
    <1>3. \A q, at : Folds(q, at) => Folds(q, at)'  BY <1>1 DEF Folds
    <1>4. \A q, at : Behind(q, at) => Behind(q, at)'
        <2>1. TAKE q, at
        <2>2. HAVE Behind(q, at)
        <2>3. \A p \in Settled(q, at) :
                 /\ savedBy'[q.saved[p]] = q.number
                 /\ q.saved[p] \notin q.payload.changed => code'[q.saved[p]] = Routine
                 /\ p \in q.payload.pipeline =>
                       \/ items'[q.saved[p]] = {q.number}
                       \/ at \in {"clearItems", "insertItems"} /\ q.saved[p] = q.parent
                 /\ \A a \in Touched(q.payload, p) :
                       \/ at # "dropAssets" /\ a \in q.assets
                       \/ at \in Finding /\ q.row = a
                       \/ savedBy'[a] = q.number /\ owner'[a] \in Homes(q, a) /\ owner'[a] # None
            BY <1>1, <2>2 DEF Behind
        <2>4. at = "dropAssets" => \A a \in q.assets : owner'[a] = q.target
            BY <1>1, <2>2 DEF Behind
        <2>5. at = "insertItems" => items'[q.parent] = {}  BY <1>1, <2>2 DEF Behind
        <2> QED  BY <2>3, <2>4, <2>5 DEF Behind
    <1>5. \A q, at : Removed(q, at) => Removed(q, at)'  BY <1>1 DEF Removed
    <1>6. \A q, at : SoFar(q, at) => SoFar(q, at)'  BY <1>4, <1>5 DEF SoFar
    <1> QED  BY <1>2, <1>3, <1>6

LEMMA MintsLater ==
    ASSUME NEW q \in Request, NEW at, Mints(q, at), SequencesGrow,
           reserved \in [Prefixes -> Numbers], at = "upsert" => q.want # None
    PROVE  Mints(q, at)'
PROOF
    <1>1. q.prefix \in Prefixes /\ q.refused \subseteq Codes /\ q.want \in Codes \cup {None}
        BY RequestTypes
    <1>2. reserved[q.prefix] \in Nat /\ reserved'[q.prefix] \in Nat
        BY <1>1, ConstantTypes DEF SequencesGrow
    <1>3. reserved[q.prefix] <= reserved'[q.prefix]  BY <1>1 DEF SequencesGrow
    <1>4. SUFFICES ASSUME at \in Finding \cup {"exhausted"}, q.minted
                   PROVE  Mints(q, at)'
        BY DEF Mints
    <1>5. /\ IsFiniteSet(q.refused) /\ Cardinality(q.refused) = q.attempt /\ q.force
          /\ at = "exhausted" => q.attempt = MaxAttempts
          /\ at = "readCodes" => q.want = None
        BY <1>4 DEF Mints
    <1>6. \A c \in q.refused : c[1] = q.prefix /\ c[2] <= reserved'[q.prefix]
        <2>1. TAKE c \in q.refused
        <2>2. c[1] = q.prefix /\ c[2] <= reserved[q.prefix]  BY <1>4 DEF Mints
        <2>3. c[2] \in Nat  BY <1>1, CodeTypes, ConstantTypes
        <2> QED  BY <1>2, <1>3, <2>2, <2>3
    <1>7. at = "upsert" /\ q.want # Routine =>
             /\ q.want[1] = q.prefix /\ q.want[2] <= reserved'[q.prefix]
             /\ q.want \notin q.refused
        <2>1. HAVE at = "upsert" /\ q.want # Routine
        <2>2. /\ q.want[1] = q.prefix /\ q.want[2] <= reserved[q.prefix]
              /\ q.want \notin q.refused
            BY <1>4, <2>1 DEF Mints
        <2>3. q.want[2] \in Nat  BY <1>1, <2>1, CodeTypes, ConstantTypes
        <2> QED  BY <1>2, <1>3, <2>2, <2>3
    <1> QED  BY <1>5, <1>6, <1>7 DEF Mints

\* A request that steps on leaves the others as they are: none of them is alone.
LEMMA GotoKeeps ==
    ASSUME BudgetInv, NEW r \in Requests, NEW k \in Request, NEW at \in Working, At(r, k, at),
           NEW to \in Working, NEW q \in Request, Goto(r, to, q), q.alone = k.alone,
           TablesOK', SequencesGrow,
           Aims(q, to), Mints(q, to)', Folds(q, to)', SoFar(q, to)'
    PROVE  BudgetInv'
PROOF
    <1>1. /\ reserved \in [Prefixes -> Numbers] /\ made \in 0..MaxRequests
          /\ pc \in [Requests -> Resting \cup Working]
          /\ req \in [Requests -> Request \cup {None}]
          /\ \A s \in Requests : pc[s] \in Working => req[s] \in Request
        BY TypesAre DEF BudgetInv
    <1>2. pc[r] = at /\ req[r] = k  BY DEF At
    <1>3. /\ pc' = [pc EXCEPT ![r] = to] /\ req' = [req EXCEPT ![r] = q] /\ made' = made
        BY DEF Goto
    <1>4. /\ pc' \in [Requests -> Resting \cup Working]
          /\ req' \in [Requests -> Request \cup {None}]
          /\ pc'[r] = to /\ req'[r] = q
          /\ \A s \in Requests : s # r => pc'[s] = pc[s] /\ req'[s] = req[s]
        BY <1>1, <1>3
    <1>5. \A s \in Requests : pc'[s] \in Working => req'[s] \in Request  BY <1>1, <1>4
    <1>6. reserved' \in [Prefixes -> Numbers]  BY DEF SequencesGrow
    <1>7. BudgetTypeOK'  BY <1>1, <1>3, <1>4, <1>5, <1>6 DEF BudgetTypeOK, TablesOK
    <1>8. \A s \in Requests : s # r /\ pc[s] \in Working => ~ req[s].alone /\ ~ k.alone
        BY <1>2 DEF BudgetInv, OnlyOne, InFlight
    <1>9. OnlyOne'
        <2>1. SUFFICES ASSUME NEW s \in Requests, NEW t \in Requests,
                              pc'[s] \in Working, req'[s].alone, pc'[t] \in Working, s # t
                       PROVE  FALSE
            BY DEF OnlyOne, InFlight
        <2>2. CASE s = r  BY <2>1, <2>2, <1>4, <1>8
        <2>3. CASE s # r  BY <2>1, <2>3, <1>4, <1>8
        <2> QED  BY <2>2, <2>3
    <1>10. \A s \in Requests, j \in Request, a \in Working :
              At(s, j, a)' => Aims(j, a) /\ Mints(j, a)' /\ Folds(j, a)' /\ SoFar(j, a)'
        <2>1. TAKE s \in Requests, j \in Request, a \in Working
        <2>2. SUFFICES ASSUME pc'[s] = a, req'[s] = j
                       PROVE  Aims(j, a) /\ Mints(j, a)' /\ Folds(j, a)' /\ SoFar(j, a)'
            BY DEF At
        <2>3. CASE s = r
            <3>1. j = q /\ a = to  BY <2>2, <2>3, <1>4
            <3> QED  BY <3>1
        <2>4. CASE s # r
            <3>1. pc[s] = a /\ req[s] = j  BY <2>2, <2>4, <1>4
            <3>2. Aims(j, a) /\ Mints(j, a)  BY <3>1 DEF BudgetInv, At
            <3>3. ~ j.alone  BY <3>1, <2>4, <1>8
            <3>4. Folds(j, a)' /\ SoFar(j, a)'  BY <3>3 DEF Folds, SoFar
            <3>5. a = "upsert" => j.want # None  BY <3>2 DEF Aims
            <3>6. Mints(j, a)'  BY <3>2, <3>5, <1>1, MintsLater
            <3> QED  BY <3>2, <3>4, <3>6
        <2> QED  BY <2>3, <2>4
    <1>11. \A s \in Requests : pc'[s] = "exhausted" => req'[s] \in Request
        BY <1>4 DEF BudgetInv, Working
    <1>12. \A s \in Requests, j \in Request : At(s, j, "exhausted")' => Mints(j, "exhausted")'
        <2>1. TAKE s \in Requests, j \in Request
        <2>2. SUFFICES ASSUME pc'[s] = "exhausted", req'[s] = j
                       PROVE  Mints(j, "exhausted")'
            BY DEF At
        <2>3. s # r  BY <2>2, <1>4 DEF Working
        <2>4. pc[s] = "exhausted" /\ req[s] = j  BY <2>2, <2>3, <1>4
        <2>5. Mints(j, "exhausted")  BY <2>4 DEF BudgetInv, At
        <2> QED  BY <2>5, <1>1, MintsLater
    <1> QED  BY <1>7, <1>9, <1>10, <1>11, <1>12 DEF BudgetInv, Aims

\* A request that ends: answered, failed, or given up.
LEMMA LeaveKeeps ==
    ASSUME BudgetInv, NEW r \in Requests, NEW k \in Request, NEW at \in Working, At(r, k, at),
           NEW out \in Resting, NEW q \in Request \cup {None},
           pc' = [pc EXCEPT ![r] = out], req' = [req EXCEPT ![r] = q], made' = made,
           TablesOK', SequencesGrow,
           out = "exhausted" => q \in Request /\ Mints(q, out)'
    PROVE  BudgetInv'
PROOF
    <1>1. /\ reserved \in [Prefixes -> Numbers] /\ made \in 0..MaxRequests
          /\ pc \in [Requests -> Resting \cup Working]
          /\ req \in [Requests -> Request \cup {None}]
          /\ \A s \in Requests : pc[s] \in Working => req[s] \in Request
        BY TypesAre DEF BudgetInv
    <1>2. pc[r] = at /\ req[r] = k  BY DEF At
    <1>3. out \notin Working  BY DEF Resting, Working
    <1>4. /\ pc' \in [Requests -> Resting \cup Working]
          /\ req' \in [Requests -> Request \cup {None}]
          /\ pc'[r] = out /\ req'[r] = q
          /\ \A s \in Requests : s # r => pc'[s] = pc[s] /\ req'[s] = req[s]
        BY <1>1
    <1>5. \A s \in Requests : pc'[s] \in Working => req'[s] \in Request  BY <1>1, <1>3, <1>4
    <1>6. reserved' \in [Prefixes -> Numbers]  BY DEF SequencesGrow
    <1>7. BudgetTypeOK'  BY <1>1, <1>4, <1>5, <1>6 DEF BudgetTypeOK, TablesOK
    <1>8. \A s \in Requests : s # r /\ pc[s] \in Working => ~ req[s].alone
        BY <1>2 DEF BudgetInv, OnlyOne, InFlight
    <1>9. OnlyOne'  BY <1>3, <1>4, <1>8 DEF OnlyOne, InFlight
    <1>10. \A s \in Requests, j \in Request, a \in Working :
              At(s, j, a)' => Aims(j, a) /\ Mints(j, a)' /\ Folds(j, a)' /\ SoFar(j, a)'
        <2>1. TAKE s \in Requests, j \in Request, a \in Working
        <2>2. SUFFICES ASSUME pc'[s] = a, req'[s] = j
                       PROVE  Aims(j, a) /\ Mints(j, a)' /\ Folds(j, a)' /\ SoFar(j, a)'
            BY DEF At
        <2>3. s # r  BY <2>2, <1>3, <1>4
        <2>4. pc[s] = a /\ req[s] = j  BY <2>2, <2>3, <1>4
        <2>5. Aims(j, a) /\ Mints(j, a)  BY <2>4 DEF BudgetInv, At
        <2>6. ~ j.alone  BY <2>3, <2>4, <1>8
        <2>7. Folds(j, a)' /\ SoFar(j, a)'  BY <2>6 DEF Folds, SoFar
        <2>8. a = "upsert" => j.want # None  BY <2>5 DEF Aims
        <2>9. Mints(j, a)'  BY <2>5, <2>8, <1>1, MintsLater
        <2> QED  BY <2>5, <2>7, <2>9
    <1>11. \A s \in Requests : pc'[s] = "exhausted" => req'[s] \in Request
        BY <1>4 DEF BudgetInv
    <1>12. \A s \in Requests, j \in Request : At(s, j, "exhausted")' => Mints(j, "exhausted")'
        <2>1. TAKE s \in Requests, j \in Request
        <2>2. SUFFICES ASSUME pc'[s] = "exhausted", req'[s] = j
                       PROVE  Mints(j, "exhausted")'
            BY DEF At
        <2>3. CASE s = r
            <3>1. out = "exhausted" /\ q = j  BY <2>2, <2>3, <1>4
            <3> QED  BY <3>1
        <2>4. CASE s # r
            <3>1. pc[s] = "exhausted" /\ req[s] = j  BY <2>2, <2>4, <1>4
            <3>2. Mints(j, "exhausted")  BY <3>1 DEF BudgetInv, At
            <3> QED  BY <3>2, <1>1, MintsLater
        <2> QED  BY <2>3, <2>4
    <1> QED  BY <1>7, <1>9, <1>10, <1>11, <1>12 DEF BudgetInv, Aims

\* A request that arrives finds nobody, or is not alone, and neither is anyone else.
LEMMA StartKeeps ==
    ASSUME BudgetInv, NEW r \in Requests, NEW to \in Working, NEW q \in Request, Start(r, to, q),
           q.alone => \A s \in Requests : ~ InFlight(s),
           Aims(q, to), Mints(q, to), Folds(q, to), SoFar(q, to)
    PROVE  BudgetInv'
PROOF
    <1>1. /\ TablesOK /\ reserved \in [Prefixes -> Numbers] /\ made \in 0..MaxRequests
          /\ pc \in [Requests -> Resting \cup Working]
          /\ req \in [Requests -> Request \cup {None}]
          /\ \A s \in Requests : pc[s] \in Working => req[s] \in Request
        BY TypesAre DEF BudgetInv
    <1>2. /\ made' = made + 1 /\ made < MaxRequests /\ UNCHANGED tables /\ UNCHANGED reserved
          /\ pc' = [pc EXCEPT ![r] = to] /\ pc[r] \in Resting
        BY DEF Start
    <1>3. SequencesGrow  BY <1>2, SequencesStay DEF BudgetInv
    <1>4. TablesOK' /\ Folds(q, to)' /\ SoFar(q, to)'  BY <1>1, <1>2, TablesStay
    <1>5. pc' \in [Requests -> Resting \cup Working] /\ pc'[r] = to
          /\ \A s \in Requests : s # r => pc'[s] = pc[s]
        BY <1>1, <1>2
    <1>6. /\ req'[r] = q
          /\ \A s \in Requests : s # r /\ InFlight(s) => req'[s] = NotAlone(req[s])
          /\ \A s \in Requests : s # r /\ ~ InFlight(s) => req'[s] = req[s]
        BY DEF Start, NotAlone
    <1>7. \A s \in Requests : s # r /\ InFlight(s) => req'[s] \in Request /\ ~ req'[s].alone
        BY <1>1, <1>6, NotAloneFields DEF InFlight
    <1>8. \A s \in Requests : req'[s] \in Request \cup {None}  BY <1>1, <1>6, <1>7
    <1>9. req' \in [Requests -> Request \cup {None}]  BY <1>8 DEF Start
    <1>10. \A s \in Requests : pc'[s] \in Working => req'[s] \in Request
        BY <1>5, <1>6, <1>7 DEF InFlight
    <1>11. made' \in 0..MaxRequests  BY <1>1, <1>2, ConstantTypes
    <1>12. reserved' \in [Prefixes -> Numbers]  BY <1>3 DEF SequencesGrow
    <1>13. BudgetTypeOK'  BY <1>4, <1>5, <1>9, <1>10, <1>11, <1>12 DEF BudgetTypeOK, TablesOK
    <1>14. OnlyOne'
        <2>1. SUFFICES ASSUME NEW s \in Requests, NEW t \in Requests,
                              pc'[s] \in Working, req'[s].alone, pc'[t] \in Working, s # t
                       PROVE  FALSE
            BY DEF OnlyOne, InFlight
        <2>2. CASE s = r
            <3>1. InFlight(t)  BY <2>1, <2>2, <1>5 DEF InFlight
            <3> QED  BY <2>1, <2>2, <3>1, <1>6
        <2>3. CASE s # r
            <3>1. InFlight(s)  BY <2>1, <2>3, <1>5 DEF InFlight
            <3>2. ~ req'[s].alone  BY <2>3, <3>1, <1>7
            <3> QED  BY <2>1, <3>2
        <2> QED  BY <2>2, <2>3
    <1>15. \A s \in Requests, j \in Request, a \in Working :
              At(s, j, a)' => Aims(j, a) /\ Mints(j, a)' /\ Folds(j, a)' /\ SoFar(j, a)'
        <2>1. TAKE s \in Requests, j \in Request, a \in Working
        <2>2. SUFFICES ASSUME pc'[s] = a, req'[s] = j
                       PROVE  Aims(j, a) /\ Mints(j, a)' /\ Folds(j, a)' /\ SoFar(j, a)'
            BY DEF At
        <2>3. CASE s = r
            <3>1. j = q /\ a = to  BY <2>2, <2>3, <1>5, <1>6
            <3>2. a = "upsert" => j.want # None  BY <3>1 DEF Aims
            <3>3. Mints(j, a)'  BY <3>1, <3>2, <1>1, <1>3, MintsLater
            <3> QED  BY <3>1, <3>3, <1>4
        <2>4. CASE s # r
            <3>1. pc[s] = a /\ InFlight(s)  BY <2>2, <2>4, <1>5 DEF InFlight
            <3>2. PICK k \in Request : k = req[s]  BY <3>1, <1>1
            <3>3. j = NotAlone(k)  BY <2>2, <2>4, <3>1, <3>2, <1>6
            <3>4. /\ j.payload = k.payload /\ j.want = k.want /\ j.minted = k.minted
                  /\ SameQueues(k, j) /\ SameRow(k, j) /\ SameTries(k, j)
                BY <3>3, NotAloneFields
            <3>5. Aims(k, a) /\ Mints(k, a)  BY <3>1, <3>2 DEF BudgetInv, At
            <3>6. Aims(j, a)  BY <3>4, <3>5 DEF Aims, SameQueues, SameRow, SameTries
            <3>7. Mints(j, a)  BY <3>4, <3>5 DEF Mints, SameTries
            <3>8. a = "upsert" => j.want # None  BY <3>6 DEF Aims
            <3>9. Mints(j, a)'  BY <3>7, <3>8, <1>1, <1>3, MintsLater
            <3>10. ~ j.alone  BY <3>3, NotAloneFields
            <3>11. Folds(j, a)' /\ SoFar(j, a)'  BY <3>10 DEF Folds, SoFar
            <3> QED  BY <3>6, <3>9, <3>11
        <2> QED  BY <2>3, <2>4
    <1>16. \A s \in Requests : pc'[s] = "exhausted" => s # r /\ pc[s] = "exhausted" /\ req'[s] = req[s]
        BY <1>5, <1>6 DEF Working, InFlight
    <1>17. \A s \in Requests : pc'[s] = "exhausted" => req'[s] \in Request
        BY <1>16 DEF BudgetInv
    <1>18. \A s \in Requests, j \in Request : At(s, j, "exhausted")' => Mints(j, "exhausted")'
        <2>1. TAKE s \in Requests, j \in Request
        <2>2. SUFFICES ASSUME pc'[s] = "exhausted", req'[s] = j
                       PROVE  Mints(j, "exhausted")'
            BY DEF At
        <2>3. pc[s] = "exhausted" /\ req[s] = j  BY <2>2, <1>16
        <2>4. Mints(j, "exhausted")  BY <2>3 DEF BudgetInv, At
        <2> QED  BY <2>4, <1>1, <1>3, MintsLater
    <1> QED  BY <1>13, <1>14, <1>15, <1>17, <1>18 DEF BudgetInv, Aims

-------------------------------------------------------------------------------
(* Arriving *)

LEMMA NewRequestFields ==
    ASSUME NEW y \in Payloads, made \in 0..MaxRequests, made < MaxRequests,
           NEW n, n = NewRequest(y)
    PROVE  /\ n \in Request /\ n.payload = y /\ n.sent = y.sent
           /\ n.projects = {} /\ n.assets = {} /\ n.drops = {} /\ n.deletes = {}
           /\ n.saved = [p \in Projects |-> None] /\ ~ n.minted /\ n.attempt = 0
           /\ n.alone => \A s \in Requests : ~ InFlight(s)
PROOF
    <1>1. PICK m \in RequestNumbers : m = made + 1
        BY ConstantTypes DEF RequestNumbers
    <1>2. PICK v \in [Projects -> Projects \cup {None}] : v = [p \in Projects |-> None]
        OBVIOUS
    <1>3. y.sent \in [Rows -> Codes \cup {None}] /\ Hu \in Prefixes /\ 0 \in 0..MaxAttempts
        BY PayloadTypes, CodeTypes, ConstantTypes
    <1>4. PICK t \in [Rows -> Codes \cup {None}] : t = y.sent  BY <1>3
    <1>5. n = [payload |-> y, sent |-> t, number |-> m,
               alone |-> ~ \E s \in Requests : InFlight(s),
               projects |-> {}, assets |-> {}, drops |-> {}, deletes |-> {},
               row |-> None, target |-> None, parent |-> None, prefix |-> Hu,
               want |-> None, exclude |-> None, force |-> FALSE, minted |-> FALSE,
               attempt |-> 0, refused |-> {}, saved |-> v]
        BY <1>1, <1>2, <1>4 DEF NewRequest
    <1>8. n \in Request  BY <1>3, <1>5 DEF Request
    <1>9. n.alone => \A s \in Requests : ~ InFlight(s)
        <2>1. SUFFICES ASSUME NEW s \in Requests, InFlight(s)
                       PROVE  n.alone = FALSE
            OBVIOUS
        <2>2. (~ \E x \in Requests : InFlight(x)) = FALSE  BY <2>1
        <2>3. n = [payload |-> y, sent |-> t, number |-> m, alone |-> FALSE,
                   projects |-> {}, assets |-> {}, drops |-> {}, deletes |-> {},
                   row |-> None, target |-> None, parent |-> None, prefix |-> Hu,
                   want |-> None, exclude |-> None, force |-> FALSE, minted |-> FALSE,
                   attempt |-> 0, refused |-> {}, saved |-> v]
            BY <1>5, <2>2
        <2> QED  BY <2>3
    <1>10. /\ n.payload = y /\ n.sent = t /\ n.projects = {} /\ n.assets = {} /\ n.drops = {}
           /\ n.deletes = {} /\ n.saved = v /\ n.minted = FALSE /\ n.attempt = 0
        BY <1>5
    <1> QED  BY <1>2, <1>4, <1>8, <1>9, <1>10

PeriodRequest(n, y) ==
    [n EXCEPT !.projects = Live(y), !.drops = y.touched \ Present(y), !.deletes = Gone(y)]

LEMMA PeriodRequestFields ==
    ASSUME NEW n \in Request, NEW y \in Payloads, NEW q, q = PeriodRequest(n, y)
    PROVE  /\ q \in Request /\ q.projects = Live(y) /\ q.drops = TakenOut(y)
           /\ q.deletes = Gone(y) /\ q.assets = n.assets /\ q.payload = n.payload
           /\ q.sent = n.sent /\ q.saved = n.saved /\ q.minted = n.minted /\ q.alone = n.alone
PROOF
    <1>1. PICK d \in SUBSET Assets : d = y.touched \ Present(y)  BY PayloadTypes
    <1>2. PICK l \in SUBSET Projects : l = Live(y)  BY PayloadTypes
    <1>3. PICK g \in SUBSET Projects : g = Gone(y)  BY PayloadTypes
    <1>4. q = [n EXCEPT !.projects = l, !.drops = d, !.deletes = g]
        BY <1>1, <1>2, <1>3 DEF PeriodRequest
    <1>5. q \in Request  BY <1>4 DEF Request
    <1>6. q.projects = l /\ q.drops = d /\ q.deletes = g  BY <1>4 DEF Request
    <1>7. /\ q.assets = n.assets /\ q.payload = n.payload /\ q.sent = n.sent
          /\ q.saved = n.saved /\ q.minted = n.minted /\ q.alone = n.alone
        BY <1>4 DEF Request
    <1> QED  BY <1>1, <1>2, <1>3, <1>5, <1>6, <1>7 DEF TakenOut

ProjectRequest(n, y) == [n EXCEPT !.projects = y.changed]

LEMMA ProjectRequestFields ==
    ASSUME NEW n \in Request, NEW y \in Payloads, NEW q, q = ProjectRequest(n, y)
    PROVE  /\ q \in Request /\ q.projects = y.changed /\ q.assets = n.assets
           /\ q.payload = n.payload /\ q.sent = n.sent /\ q.alone = n.alone
PROOF
    <1>1. PICK l \in SUBSET Projects : l = y.changed  BY PayloadTypes
    <1>2. q = [n EXCEPT !.projects = l]  BY <1>1 DEF ProjectRequest
    <1>3. q \in Request  BY <1>2 DEF Request
    <1> QED  BY <1>1, <1>2, <1>3 DEF Request

AssetRequest(n, y, p, h) == [n EXCEPT !.assets = y.touched, !.parent = p, !.prefix = h]

LEMMA AssetRequestFields ==
    ASSUME NEW n \in Request, NEW y \in Payloads, NEW p \in Projects, NEW h \in Prefixes,
           NEW q, q = AssetRequest(n, y, p, h)
    PROVE  /\ q \in Request /\ q.projects = n.projects /\ q.assets = y.touched
           /\ q.payload = n.payload /\ q.sent = n.sent /\ q.alone = n.alone
PROOF
    <1>1. PICK l \in SUBSET Assets : l = y.touched  BY PayloadTypes
    <1>2. q = [n EXCEPT !.assets = l, !.parent = p, !.prefix = h]  BY <1>1 DEF AssetRequest
    <1>3. p \in Projects \cup {None}  OBVIOUS
    <1>4. q \in Request  BY <1>2, <1>3 DEF Request
    <1> QED  BY <1>1, <1>2, <1>4 DEF Request

CodeRequest(n) == [n EXCEPT !.force = TRUE]

LEMMA CodeRequestFields ==
    ASSUME NEW n \in Request, NEW q, q = CodeRequest(n)
    PROVE  /\ q \in Request /\ q.projects = n.projects /\ q.assets = n.assets
           /\ q.payload = n.payload /\ q.sent = n.sent /\ q.minted = n.minted
           /\ q.alone = n.alone /\ q.attempt = n.attempt
PROOF
    <1>1. q \in Request  BY DEF Request, CodeRequest
    <1> QED  BY <1>1 DEF Request, CodeRequest

LEMMA SavePeriodKeeps ==
    ASSUME BudgetInv, NEW r \in Requests, NEW y \in Payloads, SavePeriod(r, y)
    PROVE  BudgetInv'
PROOF
    <1>1. made \in 0..MaxRequests  BY TypesAre DEF BudgetInv
    <1>2. PICK n : n = NewRequest(y)  OBVIOUS
    <1>3. PICK q : q = PeriodRequest(n, y)  OBVIOUS
    <1>4. Start(r, "loop", q) /\ y.kind = "period"
        BY <1>2, <1>3 DEF SavePeriod, PeriodRequest
    <1>5. made < MaxRequests  BY <1>4 DEF Start
    <1>6. /\ n \in Request /\ n.payload = y /\ n.sent = y.sent /\ n.assets = {}
          /\ n.saved = [p \in Projects |-> None]
          /\ n.alone => \A s \in Requests : ~ InFlight(s)
        BY <1>1, <1>2, <1>5, NewRequestFields
    <1>7. /\ q \in Request /\ q.projects = Live(y) /\ q.drops = TakenOut(y)
          /\ q.deletes = Gone(y) /\ q.assets = {} /\ q.payload = y
          /\ q.sent = y.sent /\ q.saved = n.saved /\ q.alone = n.alone
        BY <1>3, <1>6, PeriodRequestFields
    <1>8. Aims(q, "loop")  BY <1>4, <1>7, PayloadTypes DEF Aims, Finding
    <1>9. Mints(q, "loop")  BY DEF Mints, Finding
    <1>10. Folds(q, "loop")  BY DEF Folds
    <1>11. Settled(q, "loop") = {}  BY <1>7 DEF Settled
    <1>12. \A p \in Projects : q.saved[p] = None  BY <1>6, <1>7
    <1>13. Ahead(q, "loop")
        BY <1>7, <1>11, <1>12, PayloadTypes DEF Ahead, Finding
    <1>14. Behind(q, "loop")  BY <1>11 DEF Behind
    <1>15. Removed(q, "loop")  BY <1>7 DEF Removed
    <1>16. SoFar(q, "loop")  BY <1>13, <1>14, <1>15 DEF SoFar
    <1> QED  BY <1>4, <1>6, <1>7, <1>8, <1>9, <1>10, <1>16, StartKeeps DEF Working

\* A request that saves a single row, or only reserves a code, owes nothing of a period.
LEMMA SaveRowKeeps ==
    ASSUME BudgetInv, NEW r \in Requests, NEW y \in Payloads,
           SaveSingleProject(r, y) \/ SaveSingleAsset(r, y) \/ AllocateProjectCode(r, y)
    PROVE  BudgetInv'
PROOF
    <1>1. /\ made \in 0..MaxRequests /\ code \in [Rows -> Codes \cup {None}]
        BY TypesAre DEF BudgetInv, TablesOK
    <1>2. PICK n : n = NewRequest(y)  OBVIOUS
    <1>3. ASSUME made < MaxRequests
          PROVE  /\ n \in Request /\ n.payload = y /\ n.sent = y.sent
                 /\ n.projects = {} /\ n.assets = {} /\ ~ n.minted /\ n.attempt = 0
                 /\ n.alone => \A s \in Requests : ~ InFlight(s)
        BY <1>1, <1>2, <1>3, NewRequestFields
    <1>4. CASE SaveSingleProject(r, y)
        <2>1. PICK q : q = ProjectRequest(n, y)  OBVIOUS
        <2>2. Start(r, "loop", q) /\ y.kind = "project"
            BY <1>2, <1>4, <2>1 DEF SaveSingleProject, ProjectRequest
        <2>3. made < MaxRequests  BY <2>2 DEF Start
        <2>4. /\ q \in Request /\ q.projects = y.changed /\ q.assets = {}
              /\ q.payload = y /\ q.sent = y.sent /\ q.alone = n.alone
            BY <2>1, <2>3, <1>3, ProjectRequestFields
        <2>5. Aims(q, "loop")  BY <2>2, <2>4 DEF Aims, Finding
        <2>6. Mints(q, "loop") /\ Folds(q, "loop")  BY DEF Mints, Folds, Finding
        <2>7. SoFar(q, "loop")  BY <2>2, <2>4 DEF SoFar
        <2> QED  BY <1>3, <2>2, <2>3, <2>4, <2>5, <2>6, <2>7, StartKeeps DEF Working
    <1>5. CASE SaveSingleAsset(r, y)
        <2>1. PICK p \in y.changed :
                 /\ code[p] # None
                 /\ Start(r, "loop", AssetRequest(n, y, p, AssetPrefix(code[p])))
            BY <1>2, <1>5 DEF SaveSingleAsset, AssetRequest
        <2>2. PICK h : h = AssetPrefix(code[p])  OBVIOUS
        <2>3. p \in Projects /\ p \in Rows  BY PayloadTypes, ConstantTypes
        <2>4. h \in Prefixes  BY <1>1, <2>1, <2>2, <2>3, CodeTypes
        <2>5. PICK q : q = AssetRequest(n, y, p, h)  OBVIOUS
        <2>6. Start(r, "loop", q) /\ y.kind = "asset"
            BY <1>5, <2>1, <2>2, <2>5 DEF SaveSingleAsset
        <2>7. made < MaxRequests  BY <2>6 DEF Start
        <2>8. /\ q \in Request /\ q.projects = {} /\ q.assets = y.touched
              /\ q.payload = y /\ q.sent = y.sent /\ q.alone = n.alone
            BY <2>3, <2>4, <2>5, <2>7, <1>3, AssetRequestFields
        <2>9. Aims(q, "loop")  BY <2>6, <2>8, PayloadTypes DEF Aims, Finding
        <2>10. Mints(q, "loop") /\ Folds(q, "loop")  BY DEF Mints, Folds, Finding
        <2>11. SoFar(q, "loop")  BY <2>6, <2>8 DEF SoFar
        <2> QED  BY <1>3, <2>6, <2>7, <2>8, <2>9, <2>10, <2>11, StartKeeps DEF Working
    <1>6. CASE AllocateProjectCode(r, y)
        <2>1. PICK q : q = CodeRequest(n)  OBVIOUS
        <2>2. Start(r, "reserve", q) /\ y.kind = "code"
            BY <1>2, <1>6, <2>1 DEF AllocateProjectCode, CodeRequest
        <2>3. made < MaxRequests  BY <2>2 DEF Start
        <2>4. /\ q \in Request /\ q.projects = {} /\ q.assets = {}
              /\ q.payload = y /\ q.sent = y.sent /\ q.alone = n.alone /\ ~ q.minted /\ q.attempt = 0
            BY <2>1, <2>3, <1>3, CodeRequestFields
        <2>5. Aims(q, "reserve")  BY <2>2, <2>4 DEF Aims
        <2>6. Mints(q, "reserve") /\ Folds(q, "reserve")  BY <2>4 DEF Mints, Folds
        <2>7. SoFar(q, "reserve")  BY <2>2, <2>4 DEF SoFar
        <2> QED  BY <1>3, <2>2, <2>3, <2>4, <2>5, <2>6, <2>7, StartKeeps DEF Working
    <1> QED  BY <1>4, <1>5, <1>6

-------------------------------------------------------------------------------
(* Finding a code *)

\* What is known of a request in flight.
LEMMA WhereKnown ==
    ASSUME BudgetInv, NEW r \in Requests, NEW at \in Working, pc[r] = at, NEW k, k = req[r]
    PROVE  /\ k \in Request /\ At(r, k, at)
           /\ Aims(k, at) /\ Mints(k, at) /\ Folds(k, at) /\ SoFar(k, at)
           /\ TablesOK /\ reserved \in [Prefixes -> Numbers]
PROOF
    <1>1. k \in Request /\ TablesOK /\ reserved \in [Prefixes -> Numbers]
        BY TypesAre DEF BudgetInv
    <1>2. At(r, k, at)  BY DEF At
    <1> QED  BY <1>1, <1>2 DEF BudgetInv

LEMMA SteadyKeeps ==
    ASSUME BudgetInv, NEW r \in Requests, NEW k \in Request, NEW at \in Working, At(r, k, at),
           NEW to \in Working, NEW q \in Request, Goto(r, to, q), q.alone = k.alone,
           UNCHANGED tables, UNCHANGED reserved,
           Aims(q, to), Mints(q, to), Folds(q, to), SoFar(q, to)
    PROVE  BudgetInv'
PROOF
    <1>1. BudgetTypeOK /\ TablesOK /\ reserved \in [Prefixes -> Numbers]
        BY TypesAre DEF BudgetInv
    <1>2. SequencesGrow  BY <1>1, SequencesStay
    <1>3. TablesOK' /\ Folds(q, to)' /\ SoFar(q, to)'  BY <1>1, TablesStay
    <1>4. to = "upsert" => q.want # None  BY DEF Aims
    <1>5. Mints(q, to)'  BY <1>1, <1>2, <1>4, MintsLater
    <1> QED  BY <1>2, <1>3, <1>5, GotoKeeps

LEMMA HomesSame ==
    ASSUME NEW k, NEW q, q.payload = k.payload, q.saved = k.saved
    PROVE  \A a : Homes(q, a) = Homes(k, a)
PROOF  BY DEF Homes

\* A project is taken from those that are to be saved.
LEMMA ProjectPicked ==
    ASSUME NEW k \in Request, NEW q \in Request, SoFar(k, "loop"), NEW p \in k.projects,
           k.assets = {}, SameSave(k, q), q.projects = k.projects \ {p}, q.assets = k.assets,
           q.drops = k.drops, q.deletes = k.deletes, q.row = p, q.target = p,
           q.saved = k.saved, NEW to \in Finding,
           to = "routine" => k.payload.sent[p] = Routine
    PROVE  SoFar(q, to)
PROOF
    <1>1. SUFFICES ASSUME q.alone, q.payload.kind = "period"
                   PROVE  /\ Ahead(q, to) /\ Removed(q, to)
                          /\ KeepsAggregator(q) => Behind(q, to)
        BY DEF SoFar
    <1>2. q.payload = k.payload /\ q.number = k.number  BY DEF SameSave
    <1>3. /\ Ahead(k, "loop") /\ Removed(k, "loop")
          /\ KeepsAggregator(k) => Behind(k, "loop")
        BY <1>1 DEF SoFar, SameSave
    <1>4. k.projects \subseteq Live(k.payload) /\ k.drops = TakenOut(k.payload)
          /\ k.deletes = Gone(k.payload) /\ k.saved[p] = None
        BY <1>3 DEF Ahead
    <1>5. Settled(q, to) = Settled(k, "loop")  BY <1>2, <1>4 DEF Settled, Finding
    <1>6. \A a : Homes(q, a) = Homes(k, a)  BY <1>2, HomesSame
    <1>7. to \notin {"clearItems", "insertItems", "dropAssets"}  BY DEF Finding
    <1>8. Ahead(q, to)
        <2>1. /\ q.projects \subseteq Live(q.payload)
              /\ q.drops = TakenOut(q.payload) /\ q.deletes = Gone(q.payload)
            BY <1>2, <1>4
        <2>2. /\ q.row \in Live(q.payload) \ q.projects
              /\ q.assets = {} /\ q.saved[q.row] = None
              /\ to = "routine" \/ q.target # q.row => q.payload.sent[q.row] = Routine
            BY <1>2, <1>4
        <2>3. \A x \in q.projects : q.saved[x] = None  BY <1>3 DEF Ahead
        <2>4. \A x \in Settled(q, to) :
                 q.saved[x] # None /\ (q.saved[x] # x => q.payload.sent[x] = Routine)
            BY <1>2, <1>3, <1>5 DEF Ahead
        <2> QED  BY <1>7, <2>1, <2>2, <2>3, <2>4 DEF Ahead
    <1>9. Removed(q, to)  BY <1>2, <1>4, <1>7 DEF Removed
    <1>10. KeepsAggregator(q) => Behind(q, to)
        <2>1. HAVE KeepsAggregator(q)
        <2>2. KeepsAggregator(k)  BY <2>1, <1>2 DEF KeepsAggregator
        <2>3. Behind(k, "loop")  BY <2>2, <1>3
        <2> QED  BY <2>3, <1>2, <1>5, <1>6, <1>7 DEF Behind, Finding
    <1> QED  BY <1>8, <1>9, <1>10

\* An asset is taken from those that are to be saved.
LEMMA AssetPicked ==
    ASSUME NEW k \in Request, NEW q \in Request, SoFar(k, "loop"), NEW b \in k.assets,
           SameSave(k, q), q.assets = k.assets \ {b}, q.projects = k.projects,
           q.drops = k.drops, q.deletes = k.deletes, q.row = b, q.target = b,
           q.parent = k.parent, q.saved = k.saved, NEW to \in Finding
    PROVE  SoFar(q, to)
PROOF
    <1>1. SUFFICES ASSUME q.alone, q.payload.kind = "period"
                   PROVE  /\ Ahead(q, to) /\ Removed(q, to)
                          /\ KeepsAggregator(q) => Behind(q, to)
        BY DEF SoFar
    <1>2. q.payload = k.payload /\ q.number = k.number  BY DEF SameSave
    <1>3. /\ Ahead(k, "loop") /\ Removed(k, "loop")
          /\ KeepsAggregator(k) => Behind(k, "loop")
        BY <1>1 DEF SoFar, SameSave
    <1>4. k.projects \subseteq Live(k.payload) /\ k.drops = TakenOut(k.payload)
          /\ k.deletes = Gone(k.payload)
        BY <1>3 DEF Ahead
    <1>5. b \in Assets /\ k.payload \in Payloads  BY RequestTypes
    <1>6. b \notin Live(k.payload)  BY <1>5, PayloadTypes, ConstantTypes
    <1>7. Settled(q, to) = Settled(k, "loop")  BY <1>2, <1>6 DEF Settled, Finding
    <1>8. \A a : Homes(q, a) = Homes(k, a)  BY <1>2, HomesSame
    <1>9. to \notin {"clearItems", "insertItems", "dropAssets"}  BY DEF Finding
    <1>10. \A a \in k.assets : k.parent \in Homes(k, a) /\ k.parent # None
        BY <1>3 DEF Ahead
    <1>11. Ahead(q, to)
        <2>1. /\ q.projects \subseteq Live(q.payload)
              /\ q.drops = TakenOut(q.payload) /\ q.deletes = Gone(q.payload)
            BY <1>2, <1>4
        <2>2. /\ q.row \in Assets /\ q.target = q.row
              /\ q.parent \in Homes(q, q.row) /\ q.parent # None
            BY <1>5, <1>8, <1>10
        <2>3. \A a \in q.assets : q.parent \in Homes(q, a) /\ q.parent # None
            BY <1>8, <1>10
        <2>4. \A x \in q.projects : q.saved[x] = None  BY <1>3 DEF Ahead
        <2>5. \A x \in Settled(q, to) :
                 q.saved[x] # None /\ (q.saved[x] # x => q.payload.sent[x] = Routine)
            BY <1>2, <1>3, <1>7 DEF Ahead
        <2> QED  BY <1>9, <2>1, <2>2, <2>3, <2>4, <2>5 DEF Ahead
    <1>12. Removed(q, to)  BY <1>2, <1>4, <1>9 DEF Removed
    <1>13. KeepsAggregator(q) => Behind(q, to)
        <2>1. HAVE KeepsAggregator(q)
        <2>2. KeepsAggregator(k)  BY <2>1, <1>2 DEF KeepsAggregator
        <2>3. Behind(k, "loop")  BY <2>2, <1>3
        <2>4. \A p \in Settled(q, to) : \A a :
                 \/ "loop" # "dropAssets" /\ a \in k.assets
                 \/ "loop" \in Finding /\ k.row = a
                 \/ savedBy[a] = k.number /\ owner[a] \in Homes(k, a) /\ owner[a] # None
                 => \/ to # "dropAssets" /\ a \in q.assets
                    \/ to \in Finding /\ q.row = a
                    \/ savedBy[a] = q.number /\ owner[a] \in Homes(q, a) /\ owner[a] # None
            BY <1>2, <1>8, <1>9 DEF Finding
        <2> QED  BY <2>3, <2>4, <1>2, <1>7, <1>9 DEF Behind, Finding
    <1> QED  BY <1>11, <1>12, <1>13

\* Looking for another code changes nothing of what is saved.
LEMMA StillFinding ==
    ASSUME NEW k \in Request, NEW q \in Request, NEW at \in Finding, SoFar(k, at),
           SameSave(k, q), SameQueues(k, q), q.row = k.row, q.parent = k.parent,
           q.saved = k.saved, NEW to \in Finding \ {"routine"},
           \/ q.target = k.target
           \/ at = "routine" /\ q.row \in Projects
    PROVE  SoFar(q, to)
PROOF
    <1>1. SUFFICES ASSUME q.alone, q.payload.kind = "period"
                   PROVE  /\ Ahead(q, to) /\ Removed(q, to)
                          /\ KeepsAggregator(q) => Behind(q, to)
        BY DEF SoFar
    <1>2. /\ q.payload = k.payload /\ q.number = k.number
          /\ q.projects = k.projects /\ q.assets = k.assets
          /\ q.drops = k.drops /\ q.deletes = k.deletes
        BY DEF SameSave, SameQueues
    <1>3. /\ Ahead(k, at) /\ Removed(k, at)
          /\ KeepsAggregator(k) => Behind(k, at)
        BY <1>1 DEF SoFar, SameSave
    <1>4. at \notin {"clearItems", "insertItems", "dropAssets", "loop"}  BY DEF Finding
    <1>5. to \notin {"clearItems", "insertItems", "dropAssets", "loop"}  BY DEF Finding
    <1>6. k.drops = TakenOut(k.payload) /\ k.deletes = Gone(k.payload)
        BY <1>3, <1>4 DEF Ahead
    <1>7. Settled(q, to) = Settled(k, at)  BY <1>2 DEF Settled
    <1>8. \A a : Homes(q, a) = Homes(k, a)  BY <1>2, HomesSame
    <1>9. Ahead(q, to)
        <2>1. /\ q.projects \subseteq Live(q.payload)
              /\ q.drops = TakenOut(q.payload) /\ q.deletes = Gone(q.payload)
            BY <1>2, <1>3, <1>6 DEF Ahead
        <2>2. \/ /\ q.row \in Live(q.payload) \ q.projects
                 /\ q.assets = {} /\ q.saved[q.row] = None
                 /\ q.target # q.row => q.payload.sent[q.row] = Routine
              \/ /\ q.row \in Assets /\ q.target = q.row
                 /\ q.parent \in Homes(q, q.row) /\ q.parent # None
            <3>1. CASE /\ k.row \in Live(k.payload) \ k.projects
                       /\ k.assets = {} /\ k.saved[k.row] = None
                       /\ at = "routine" \/ k.target # k.row => k.payload.sent[k.row] = Routine
                BY <3>1, <1>2
            <3>2. CASE /\ k.row \in Assets /\ k.target = k.row
                       /\ k.parent \in Homes(k, k.row) /\ k.parent # None
                BY <3>2, <1>8, ConstantTypes
            <3> QED  BY <3>1, <3>2, <1>3 DEF Ahead
        <2>3. \A a \in q.assets : q.parent \in Homes(q, a) /\ q.parent # None
            BY <1>2, <1>3, <1>4, <1>8 DEF Ahead
        <2>4. \A x \in q.projects : q.saved[x] = None  BY <1>2, <1>3 DEF Ahead
        <2>5. \A x \in Settled(q, to) :
                 q.saved[x] # None /\ (q.saved[x] # x => q.payload.sent[x] = Routine)
            BY <1>2, <1>3, <1>7 DEF Ahead
        <2> QED  BY <1>5, <2>1, <2>2, <2>3, <2>4, <2>5 DEF Ahead
    <1>10. Removed(q, to)  BY <1>2, <1>5, <1>6 DEF Removed
    <1>11. KeepsAggregator(q) => Behind(q, to)
        <2>1. HAVE KeepsAggregator(q)
        <2>2. KeepsAggregator(k)  BY <2>1, <1>2 DEF KeepsAggregator
        <2>3. Behind(k, at)  BY <2>2, <1>3
        <2> QED  BY <2>3, <1>2, <1>4, <1>5, <1>7, <1>8 DEF Behind
    <1> QED  BY <1>9, <1>10, <1>11

LEMMA ReadProjectIs ==
    ASSUME NEW r \in Requests, ReadProject(r), NEW k \in Request, k = req[r]
    PROVE  /\ pc[r] = "loop" /\ k.assets = {} /\ UNCHANGED tables /\ UNCHANGED reserved
           /\ \E p \in k.projects :
                 \/ Goto(r, IF k.sent[p] = Routine THEN "upsert" ELSE "readCodes",
                         KnownProject(k, p))
                 \/ Goto(r, IF k.sent[p] = Routine THEN "routine" ELSE "reserve",
                         NewProject(k, p))
PROOF
    <1>1. pc[r] = "loop" /\ k.assets = {} /\ UNCHANGED tables /\ UNCHANGED reserved
        BY DEF ReadProject
    <1>2. PICK p \in req[r].projects : \E known \in Reads(p) :
             LET q == [req[r] EXCEPT !.projects = @ \ {p}, !.row = p, !.target = p,
                           !.prefix = Hu, !.attempt = 0, !.refused = {},
                           !.want = req[r].sent[p],
                           !.exclude = IF known THEN p ELSE None,
                           !.force = ~known, !.minted = ~known]
             IN  Goto(r, CASE q.want = Routine /\ known -> "upsert"
                           [] q.want = Routine /\ ~known -> "routine"
                           [] q.want # Routine /\ known -> "readCodes"
                           [] OTHER -> "reserve", q)
        BY DEF ReadProject
    <1>3. PICK known \in Reads(p) :
             LET q == [req[r] EXCEPT !.projects = @ \ {p}, !.row = p, !.target = p,
                           !.prefix = Hu, !.attempt = 0, !.refused = {},
                           !.want = req[r].sent[p],
                           !.exclude = IF known THEN p ELSE None,
                           !.force = ~known, !.minted = ~known]
             IN  Goto(r, CASE q.want = Routine /\ known -> "upsert"
                           [] q.want = Routine /\ ~known -> "routine"
                           [] q.want # Routine /\ known -> "readCodes"
                           [] OTHER -> "reserve", q)
        BY <1>2
    <1>4. known = TRUE \/ known = FALSE  BY DEF Reads
    <1>5. p \in Projects  BY RequestTypes
    <1>6. CASE known = TRUE
        <2>1. PICK q : q = KnownProject(k, p)  OBVIOUS
        <2>2. q.want = k.sent[p]  BY <2>1, <1>5, KnownProjectFields
        <2>3. q = [k EXCEPT !.projects = @ \ {p}, !.row = p, !.target = p,
                            !.prefix = Hu, !.attempt = 0, !.refused = {},
                            !.want = k.sent[p],
                            !.exclude = IF TRUE THEN p ELSE None,
                            !.force = ~TRUE, !.minted = ~TRUE]
            BY <2>1 DEF KnownProject
        <2>4. Goto(r, CASE q.want = Routine /\ TRUE -> "upsert"
                        [] q.want = Routine /\ ~TRUE -> "routine"
                        [] q.want # Routine /\ TRUE -> "readCodes"
                        [] OTHER -> "reserve", q)
            BY <1>3, <1>6, <2>3
        <2>5. Goto(r, IF k.sent[p] = Routine THEN "upsert" ELSE "readCodes", q)
            BY <2>2, <2>4
        <2> QED  BY <1>1, <2>1, <2>5
    <1>7. CASE known = FALSE
        <2>1. PICK q : q = NewProject(k, p)  OBVIOUS
        <2>2. q.want = k.sent[p]  BY <2>1, <1>5, NewProjectFields
        <2>3. q = [k EXCEPT !.projects = @ \ {p}, !.row = p, !.target = p,
                            !.prefix = Hu, !.attempt = 0, !.refused = {},
                            !.want = k.sent[p],
                            !.exclude = IF FALSE THEN p ELSE None,
                            !.force = ~FALSE, !.minted = ~FALSE]
            BY <2>1 DEF NewProject
        <2>4. Goto(r, CASE q.want = Routine /\ FALSE -> "upsert"
                        [] q.want = Routine /\ ~FALSE -> "routine"
                        [] q.want # Routine /\ FALSE -> "readCodes"
                        [] OTHER -> "reserve", q)
            BY <1>3, <1>7, <2>3
        <2>5. Goto(r, IF k.sent[p] = Routine THEN "routine" ELSE "reserve", q)
            BY <2>2, <2>4
        <2> QED  BY <1>1, <2>1, <2>5
    <1> QED  BY <1>4, <1>6, <1>7

LEMMA ReadAssetIs ==
    ASSUME NEW r \in Requests, ReadAsset(r), NEW k \in Request, k = req[r]
    PROVE  /\ pc[r] = "loop" /\ UNCHANGED tables /\ UNCHANGED reserved
           /\ \E a \in k.assets : \/ Goto(r, "readCodes", KnownAsset(k, a))
                                  \/ Goto(r, "reserve", NewlyPlaced(k, a))
PROOF
    <1>1. pc[r] = "loop" /\ UNCHANGED tables /\ UNCHANGED reserved  BY DEF ReadAsset
    <1>2. PICK a \in req[r].assets : \E known \in Reads(a) :
             Goto(r, IF known THEN "readCodes" ELSE "reserve",
                  [req[r] EXCEPT !.assets = @ \ {a}, !.row = a, !.target = a,
                       !.attempt = 0, !.refused = {}, !.want = req[r].sent[a],
                       !.exclude = IF known THEN a ELSE None,
                       !.force = ~known, !.minted = ~known])
        BY DEF ReadAsset
    <1>3. PICK known \in Reads(a) :
             Goto(r, IF known THEN "readCodes" ELSE "reserve",
                  [req[r] EXCEPT !.assets = @ \ {a}, !.row = a, !.target = a,
                       !.attempt = 0, !.refused = {}, !.want = req[r].sent[a],
                       !.exclude = IF known THEN a ELSE None,
                       !.force = ~known, !.minted = ~known])
        BY <1>2
    <1>4. known = TRUE \/ known = FALSE  BY DEF Reads
    <1>5. CASE known = TRUE
        <2>1. PICK q : q = KnownAsset(k, a)  OBVIOUS
        <2>2. q = [k EXCEPT !.assets = @ \ {a}, !.row = a, !.target = a,
                            !.attempt = 0, !.refused = {}, !.want = k.sent[a],
                            !.exclude = IF TRUE THEN a ELSE None,
                            !.force = ~TRUE, !.minted = ~TRUE]
            BY <2>1 DEF KnownAsset
        <2>3. Goto(r, IF TRUE THEN "readCodes" ELSE "reserve", q)  BY <1>3, <1>5, <2>2
        <2>4. Goto(r, "readCodes", q)  BY <2>3
        <2> QED  BY <1>1, <2>1, <2>4
    <1>6. CASE known = FALSE
        <2>1. PICK q : q = NewlyPlaced(k, a)  OBVIOUS
        <2>2. q = [k EXCEPT !.assets = @ \ {a}, !.row = a, !.target = a,
                            !.attempt = 0, !.refused = {}, !.want = k.sent[a],
                            !.exclude = IF FALSE THEN a ELSE None,
                            !.force = ~FALSE, !.minted = ~FALSE]
            BY <2>1 DEF NewlyPlaced
        <2>3. Goto(r, IF FALSE THEN "readCodes" ELSE "reserve", q)  BY <1>3, <1>6, <2>2
        <2>4. Goto(r, "reserve", q)  BY <2>3
        <2> QED  BY <1>1, <2>1, <2>4
    <1> QED  BY <1>4, <1>5, <1>6

LEMMA ReadProjectKeeps ==
    ASSUME BudgetInv, NEW r \in Requests, ReadProject(r)
    PROVE  BudgetInv'
PROOF
    <1>1. PICK k : k = req[r]  OBVIOUS
    <1>2. pc[r] = "loop"  BY DEF ReadProject
    <1>3. /\ k \in Request /\ At(r, k, "loop")
          /\ Aims(k, "loop") /\ SoFar(k, "loop")
        BY <1>1, <1>2, WhereKnown DEF Working
    <1>4. /\ k.assets = {} /\ UNCHANGED tables /\ UNCHANGED reserved
        BY <1>1, <1>3, ReadProjectIs
    <1>5. PICK p \in k.projects :
             \/ Goto(r, IF k.sent[p] = Routine THEN "upsert" ELSE "readCodes",
                     KnownProject(k, p))
             \/ Goto(r, IF k.sent[p] = Routine THEN "routine" ELSE "reserve",
                     NewProject(k, p))
        BY <1>1, <1>3, ReadProjectIs
    <1>6. p \in Projects /\ k.payload \in Payloads  BY <1>3, RequestTypes
    <1>7. /\ k.projects \subseteq k.payload.changed /\ k.payload.kind # "code"
          /\ k.sent[p] = k.payload.sent[p] /\ \A x \in Projects : k.sent[x] = k.payload.sent[x]
        BY <1>3, <1>6 DEF Aims
    <1>8. p \in k.payload.changed /\ p \in SentRows(k.payload)  BY <1>6, <1>7, PayloadTypes
    <1>9. Routine # None /\ 0 < MaxAttempts  BY CodeTypes, ConstantTypes
    <1>10. ASSUME NEW q \in Request, NEW to \in Finding \ {"reserveAgain"}, SameSave(k, q),
                  q.projects = k.projects \ {p}, q.assets = k.assets, q.drops = k.drops,
                  q.deletes = k.deletes, q.row = p, q.target = p, q.parent = k.parent,
                  q.sent = k.sent, q.saved = k.saved, q.want = k.sent[p], q.attempt = 0,
                  q.refused = {}, to \in {"routine", "upsert"} => q.want = Routine
           PROVE  Aims(q, to) /\ Folds(q, to) /\ SoFar(q, to) /\ to \in Working
                  /\ q.alone = k.alone
        <2>1. q.payload = k.payload /\ q.alone = k.alone  BY <1>10 DEF SameSave
        <2>2. Aims(q, to)
            <3>1. q.projects \subseteq q.payload.changed /\ q.assets = {}
                  /\ \A x \in Projects : q.sent[x] = q.payload.sent[x]
                BY <1>4, <1>7, <1>10, <2>1
            <3>2. q.row \in SentRows(q.payload) /\ q.row \in q.payload.changed
                  /\ q.target = q.row /\ q.row \in Projects
                BY <1>6, <1>8, <1>10, <2>1
            <3>3. to = "upsert" => q.want # None /\ q.attempt < MaxAttempts
                BY <1>9, <1>10
            <3>4. to # "reserveAgain" /\ q.payload.kind # "code"  BY <1>7, <2>1
            <3> QED  BY <1>10, <3>1, <3>2, <3>3, <3>4 DEF Aims
        <2>3. Folds(q, to)  BY <1>10 DEF Folds
        <2>4. SoFar(q, to)  BY <1>3, <1>4, <1>7, <1>10, ProjectPicked
        <2> QED  BY <2>1, <2>2, <2>3, <2>4 DEF Finding, Working
    <1>11. CASE Goto(r, IF k.sent[p] = Routine THEN "upsert" ELSE "readCodes",
                     KnownProject(k, p))
        <2>1. PICK q : q = KnownProject(k, p)  OBVIOUS
        <2>2. PICK to : to = IF k.sent[p] = Routine THEN "upsert" ELSE "readCodes"  OBVIOUS
        <2>3. /\ q \in Request /\ q.projects = k.projects \ {p} /\ q.row = p /\ q.target = p
              /\ q.attempt = 0 /\ q.refused = {} /\ q.want = k.sent[p] /\ ~ q.minted
              /\ q.assets = k.assets /\ q.drops = k.drops /\ q.deletes = k.deletes
              /\ q.parent = k.parent /\ q.sent = k.sent /\ q.saved = k.saved /\ SameSave(k, q)
            BY <2>1, <1>3, <1>6, KnownProjectFields
        <2>4. to \in Finding \ {"reserveAgain"} /\ to # "routine"
              /\ (to = "upsert" => q.want = Routine)
            BY <2>2, <2>3 DEF Finding
        <2>5. Aims(q, to) /\ Folds(q, to) /\ SoFar(q, to) /\ to \in Working /\ q.alone = k.alone
            BY <2>3, <2>4, <1>10
        <2>6. Mints(q, to)  BY <2>3 DEF Mints
        <2>7. Goto(r, to, q)  BY <1>11, <2>1, <2>2
        <2> QED  BY <1>3, <1>4, <2>3, <2>5, <2>6, <2>7, SteadyKeeps DEF Working
    <1>12. CASE Goto(r, IF k.sent[p] = Routine THEN "routine" ELSE "reserve",
                     NewProject(k, p))
        <2>1. PICK q : q = NewProject(k, p)  OBVIOUS
        <2>2. PICK to : to = IF k.sent[p] = Routine THEN "routine" ELSE "reserve"  OBVIOUS
        <2>3. /\ q \in Request /\ q.projects = k.projects \ {p} /\ q.row = p /\ q.target = p
              /\ q.attempt = 0 /\ q.refused = {} /\ q.want = k.sent[p] /\ q.force
              /\ q.assets = k.assets /\ q.drops = k.drops /\ q.deletes = k.deletes
              /\ q.parent = k.parent /\ q.sent = k.sent /\ q.saved = k.saved /\ SameSave(k, q)
            BY <2>1, <1>3, <1>6, NewProjectFields
        <2>4. to \in Finding \ {"reserveAgain"} /\ to # "upsert" /\ to # "readCodes"
              /\ (to = "routine" => q.want = Routine)
            BY <2>2, <2>3 DEF Finding
        <2>5. Aims(q, to) /\ Folds(q, to) /\ SoFar(q, to) /\ to \in Working /\ q.alone = k.alone
            BY <2>3, <2>4, <1>10
        <2>6. Mints(q, to)  BY <2>3, <2>4, FS_EmptySet DEF Mints, Finding
        <2>7. Goto(r, to, q)  BY <1>12, <2>1, <2>2
        <2> QED  BY <1>3, <1>4, <2>3, <2>5, <2>6, <2>7, SteadyKeeps DEF Working
    <1> QED  BY <1>5, <1>11, <1>12

LEMMA ReadAssetKeeps ==
    ASSUME BudgetInv, NEW r \in Requests, ReadAsset(r)
    PROVE  BudgetInv'
PROOF
    <1>1. PICK k : k = req[r]  OBVIOUS
    <1>2. pc[r] = "loop"  BY DEF ReadAsset
    <1>3. /\ k \in Request /\ At(r, k, "loop")
          /\ Aims(k, "loop") /\ SoFar(k, "loop")
        BY <1>1, <1>2, WhereKnown DEF Working
    <1>4. UNCHANGED tables /\ UNCHANGED reserved  BY <1>1, <1>3, ReadAssetIs
    <1>5. PICK a \in k.assets : \/ Goto(r, "readCodes", KnownAsset(k, a))
                                \/ Goto(r, "reserve", NewlyPlaced(k, a))
        BY <1>1, <1>3, ReadAssetIs
    <1>6. a \in Assets /\ a \notin Projects  BY <1>3, RequestTypes, ConstantTypes
    <1>7. /\ k.assets \subseteq SentRows(k.payload) /\ k.payload.kind # "code"
          /\ k.projects \subseteq k.payload.changed
          /\ \A x \in Projects : k.sent[x] = k.payload.sent[x]
        BY <1>3 DEF Aims
    <1>8. ASSUME NEW q \in Request, NEW to \in {"readCodes", "reserve"}, SameSave(k, q),
                 q.assets = k.assets \ {a}, q.projects = k.projects, q.drops = k.drops,
                 q.deletes = k.deletes, q.row = a, q.target = a, q.parent = k.parent,
                 q.sent = k.sent, q.saved = k.saved
          PROVE  Aims(q, to) /\ Folds(q, to) /\ SoFar(q, to) /\ to \in Working
                 /\ q.alone = k.alone
        <2>1. q.payload = k.payload /\ q.alone = k.alone  BY <1>8 DEF SameSave
        <2>2. /\ q.row \in SentRows(q.payload) /\ q.row \notin Projects
              /\ q.assets \subseteq SentRows(q.payload)
            BY <1>6, <1>7, <1>8, <2>1
        <2>3. Aims(q, to)  BY <1>7, <1>8, <2>1, <2>2 DEF Aims
        <2>4. Folds(q, to)  BY <1>8 DEF Folds
        <2>5. SoFar(q, to)  BY <1>3, <1>8, AssetPicked DEF Finding
        <2> QED  BY <2>1, <2>3, <2>4, <2>5 DEF Working
    <1>9. CASE Goto(r, "readCodes", KnownAsset(k, a))
        <2>1. PICK q : q = KnownAsset(k, a)  OBVIOUS
        <2>2. /\ q \in Request /\ q.assets = k.assets \ {a} /\ q.row = a /\ q.target = a
              /\ ~ q.minted
              /\ q.projects = k.projects /\ q.drops = k.drops /\ q.deletes = k.deletes
              /\ q.parent = k.parent /\ q.sent = k.sent /\ q.saved = k.saved /\ SameSave(k, q)
            BY <2>1, <1>3, <1>6, KnownAssetFields
        <2>3. /\ Aims(q, "readCodes") /\ Folds(q, "readCodes") /\ SoFar(q, "readCodes")
              /\ q.alone = k.alone
            BY <2>2, <1>8
        <2>4. Mints(q, "readCodes")  BY <2>2 DEF Mints
        <2>5. Goto(r, "readCodes", q)  BY <1>9, <2>1
        <2> QED  BY <1>3, <1>4, <2>2, <2>3, <2>4, <2>5, SteadyKeeps DEF Working
    <1>10. CASE Goto(r, "reserve", NewlyPlaced(k, a))
        <2>1. PICK q : q = NewlyPlaced(k, a)  OBVIOUS
        <2>2. /\ q \in Request /\ q.assets = k.assets \ {a} /\ q.row = a /\ q.target = a
              /\ q.attempt = 0 /\ q.refused = {} /\ q.force
              /\ q.projects = k.projects /\ q.drops = k.drops /\ q.deletes = k.deletes
              /\ q.parent = k.parent /\ q.sent = k.sent /\ q.saved = k.saved /\ SameSave(k, q)
            BY <2>1, <1>3, <1>6, NewAssetFields
        <2>3. /\ Aims(q, "reserve") /\ Folds(q, "reserve") /\ SoFar(q, "reserve")
              /\ q.alone = k.alone
            BY <2>2, <1>8
        <2>4. Mints(q, "reserve")  BY <2>2, FS_EmptySet DEF Mints
        <2>5. Goto(r, "reserve", q)  BY <1>10, <2>1
        <2> QED  BY <1>3, <1>4, <2>2, <2>3, <2>4, <2>5, SteadyKeeps DEF Working
    <1> QED  BY <1>5, <1>9, <1>10

LEMMA FindRoutineKeeps ==
    ASSUME BudgetInv, NEW r \in Requests, FindRoutine(r)
    PROVE  BudgetInv'
PROOF
    <1>1. PICK k : k = req[r]  OBVIOUS
    <1>2. /\ pc[r] = "routine" /\ UNCHANGED tables /\ UNCHANGED reserved  BY DEF FindRoutine
    <1>3. /\ k \in Request /\ At(r, k, "routine")
          /\ Aims(k, "routine") /\ Mints(k, "routine") /\ SoFar(k, "routine")
        BY <1>1, <1>2, WhereKnown DEF Working
    <1>4. /\ k.payload.kind # "code" /\ k.want = Routine /\ k.attempt = 0 /\ k.refused = {}
          /\ k.row \in Projects /\ k.row \in SentRows(k.payload) /\ k.row \in k.payload.changed
        BY <1>3 DEF Aims, Finding
    <1>5. PICK x \in IF {p \in Projects : code[p] = Routine} = {} THEN {k.row}
                     ELSE {p \in Projects : code[p] = Routine} :
             Goto(r, "upsert", Aimed(k, x))
        BY <1>1 DEF FindRoutine, Aimed
    <1>6. x \in Projects /\ (x # k.row => code[x] = Routine)  BY <1>4
    <1>7. PICK q : q = Aimed(k, x)  OBVIOUS
    <1>8. /\ q \in Request /\ q.target = x /\ q.row = k.row /\ q.parent = k.parent
          /\ q.sent = k.sent /\ q.saved = k.saved /\ q.want = k.want /\ q.minted = k.minted
          /\ SameSave(k, q) /\ SameQueues(k, q) /\ SameTries(k, q)
        BY <1>3, <1>6, <1>7, AimedFields, ConstantTypes
    <1>9. q.payload = k.payload /\ q.alone = k.alone  BY <1>8 DEF SameSave
    <1>10. Aims(q, "upsert")
        <2>1. /\ q.projects = k.projects /\ q.assets = k.assets
              /\ q.attempt = 0 /\ q.refused = {}
            BY <1>4, <1>8 DEF SameQueues, SameTries
        <2>2. /\ k.projects \subseteq k.payload.changed /\ k.assets \subseteq SentRows(k.payload)
              /\ \A z \in Projects : k.sent[z] = k.payload.sent[z]
            BY <1>3 DEF Aims
        <2>3. q.want # None /\ q.attempt < MaxAttempts
            BY <1>4, <1>8, <2>1, CodeTypes, ConstantTypes
        <2> QED  BY <1>4, <1>6, <1>8, <1>9, <2>1, <2>2, <2>3 DEF Aims
    <1>11. Mints(q, "upsert")
        BY <1>3, <1>4, <1>8 DEF Mints, SameTries, Finding
    <1>12. Folds(q, "upsert")  BY <1>6, <1>8 DEF Folds
    <1>13. q.row \in Projects  BY <1>4, <1>8
    <1>14. SoFar(q, "upsert")  BY <1>3, <1>8, <1>13, StillFinding DEF Finding
    <1>15. Goto(r, "upsert", q)  BY <1>5, <1>7
    <1> QED  BY <1>2, <1>3, <1>8, <1>9, <1>10, <1>11, <1>12, <1>14, <1>15, SteadyKeeps DEF Working

\* A code that was looked for: q is the request k with other tries.
LEMMA FoundKeeps ==
    ASSUME BudgetInv, NEW r \in Requests, NEW k \in Request,
           NEW at \in {"reserve", "reserveAgain", "readCodes"}, At(r, k, at),
           NEW q \in Request, SameSave(k, q), SameQueues(k, q), SameRow(k, q), SameTries(k, q),
           q.minted => k.minted, NEW c \in Codes, Found(r, q, c),
           UNCHANGED tables, SequencesGrow,
           q.minted => /\ c[1] = q.prefix /\ c[2] <= reserved'[q.prefix]
                       /\ c \notin q.refused
    PROVE  BudgetInv'
PROOF
    <1>1. pc[r] = at /\ req[r] = k  BY DEF At
    <1>2. at \in Working /\ at \in Finding  BY DEF Working, Finding
    <1>3. /\ Aims(k, at) /\ Mints(k, at) /\ Folds(k, at) /\ SoFar(k, at)
          /\ TablesOK /\ reserved \in [Prefixes -> Numbers]
        BY <1>1, <1>2, WhereKnown
    <1>4. TablesOK'  BY <1>3, TablesStay
    <1>5. /\ q.payload = k.payload /\ q.alone = k.alone /\ q.attempt = k.attempt
        BY DEF SameSave, SameTries
    <1>6. CASE q.attempt = MaxAttempts
        <2>5. q.payload.kind # "code"  BY <1>3, <1>5, <1>6, ConstantTypes DEF Aims
        <2>1. Throw(r, "exhausted")  BY <1>6, <2>5 DEF Found
        <2>2. /\ pc' = [pc EXCEPT ![r] = "exhausted"] /\ req' = [req EXCEPT ![r] = k]
              /\ made' = made
            BY <2>1, <1>1 DEF Throw
        <2>3. Mints(k, "exhausted")  BY <1>2, <1>3, <1>5, <1>6 DEF Mints
        <2>4. Mints(k, "exhausted")'  BY <2>3, <1>3, MintsLater
        <2> QED  BY <1>2, <1>4, <2>2, <2>4, LeaveKeeps DEF Resting
    <1>7. CASE q.attempt # MaxAttempts /\ q.payload.kind = "code"
        <2>1. Answer(r)  BY <1>7 DEF Found
        <2>2. /\ pc' = [pc EXCEPT ![r] = "idle"] /\ req' = [req EXCEPT ![r] = None]
              /\ made' = made
            BY <2>1 DEF Answer, Goto
        <2> QED  BY <1>2, <1>4, <2>2, LeaveKeeps DEF Resting
    <1>8. CASE q.attempt # MaxAttempts /\ q.payload.kind # "code"
        <2>1. PICK j : j = Wants(q, c)  OBVIOUS
        <2>2. Goto(r, "upsert", j)  BY <1>8, <2>1 DEF Found, Wants
        <2>3. /\ j \in Request /\ j.want = c /\ j.minted = q.minted
              /\ SameSave(q, j) /\ SameQueues(q, j) /\ SameRow(q, j) /\ SameTries(q, j)
            BY <2>1, WantsFields
        <2>4. /\ SameSave(k, j) /\ SameQueues(k, j) /\ SameRow(k, j) /\ SameTries(k, j)
            BY <2>3 DEF SameSave, SameQueues, SameRow, SameTries
        <2>5. /\ j.payload = k.payload /\ j.alone = k.alone /\ j.row = k.row
              /\ j.target = k.target /\ j.sent = k.sent /\ j.attempt = k.attempt
              /\ j.projects = k.projects /\ j.assets = k.assets /\ j.parent = k.parent
              /\ j.saved = k.saved
            BY <2>4 DEF SameSave, SameQueues, SameRow, SameTries
        <2>6. j.attempt < MaxAttempts
            <3>1. k.attempt \in 0..MaxAttempts /\ k.attempt # MaxAttempts
                BY <1>5, <1>8, RequestTypes
            <3> QED  BY <3>1, <2>5, ConstantTypes
        <2>7. k.target = k.row /\ k.row \in SentRows(k.payload)
              /\ (k.row \in Projects => k.row \in k.payload.changed)
            BY <1>2, <1>3, <1>5, <1>8 DEF Aims
        <2>8. Aims(j, "upsert")
            <3>1. /\ k.projects \subseteq k.payload.changed /\ k.assets \subseteq SentRows(k.payload)
                  /\ \A z \in Projects : k.sent[z] = k.payload.sent[z]
                BY <1>3 DEF Aims
            <3> QED  BY <1>5, <1>8, <2>3, <2>5, <2>6, <2>7, <3>1, CodeTypes DEF Aims
        <2>9. Mints(j, "upsert")'
            <3>1. SUFFICES ASSUME j.minted
                           PROVE  Mints(j, "upsert")'
                BY DEF Mints
            <3>2. k.minted /\ q.minted  BY <2>3, <3>1
            <3>3. Mints(k, at)'  BY <1>3, MintsLater
            <3>4. /\ IsFiniteSet(k.refused) /\ Cardinality(k.refused) = k.attempt /\ k.force
                  /\ \A d \in k.refused : d[1] = k.prefix /\ d[2] <= reserved'[k.prefix]
                BY <1>2, <3>2, <3>3 DEF Mints
            <3>5. /\ q.prefix = k.prefix /\ q.refused = k.refused
                  /\ j.prefix = k.prefix /\ j.refused = k.refused /\ j.force = k.force
                  /\ j.attempt = k.attempt
                BY <2>4 DEF SameTries
            <3> QED  BY <2>3, <3>2, <3>4, <3>5 DEF Mints
        <2>10. Folds(j, "upsert")  BY <2>5, <2>7 DEF Folds
        <2>11. SoFar(j, "upsert")
            BY <1>2, <1>3, <2>3, <2>4, <2>5, StillFinding DEF Finding
        <2>12. Folds(j, "upsert")' /\ SoFar(j, "upsert")'  BY <1>3, <2>10, <2>11, TablesStay
        <2> QED  BY <1>2, <1>4, <2>2, <2>3, <2>5, <2>8, <2>9, <2>12, GotoKeeps DEF Working
    <1> QED  BY <1>6, <1>7, <1>8

\* A request that looks further: k with other tries.
LEMMA SeekKeeps ==
    ASSUME BudgetInv, NEW r \in Requests, NEW k \in Request,
           NEW at \in Finding \ {"routine"}, At(r, k, at),
           NEW q \in Request, SameSave(k, q), SameQueues(k, q), SameRow(k, q),
           NEW to \in {"reserve", "reserveAgain", "readCodes"}, Goto(r, to, q),
           UNCHANGED tables, UNCHANGED reserved, Mints(q, to), k.want # Routine \/ at # "upsert",
           to = "reserveAgain" => q.want # None,
           k.payload.kind = "code" => q.attempt = k.attempt
    PROVE  BudgetInv'
PROOF
    <1>1. pc[r] = at /\ req[r] = k  BY DEF At
    <1>2. at \in Working /\ to \in Finding /\ to \in Working  BY DEF Working, Finding
    <1>3. Aims(k, at) /\ SoFar(k, at)  BY <1>1, <1>2, WhereKnown
    <1>4. /\ q.payload = k.payload /\ q.alone = k.alone /\ q.row = k.row
          /\ q.target = k.target /\ q.sent = k.sent /\ q.parent = k.parent
          /\ q.projects = k.projects /\ q.assets = k.assets /\ q.saved = k.saved
        BY DEF SameSave, SameQueues, SameRow
    <1>5. k.payload.kind # "code" =>
             /\ k.target = k.row /\ k.row \in SentRows(k.payload)
             /\ (k.row \in Projects => k.row \in k.payload.changed)
        BY <1>3 DEF Aims
    <1>6. /\ k.projects \subseteq k.payload.changed /\ k.assets \subseteq SentRows(k.payload)
          /\ \A z \in Projects : k.sent[z] = k.payload.sent[z]
          /\ k.payload.kind = "code" => k.attempt = 0
        BY <1>3 DEF Aims, Finding
    <1>7. Aims(q, to)  BY <1>4, <1>5, <1>6 DEF Aims
    <1>8. Folds(q, to)  BY DEF Folds
    <1>9. SoFar(q, to)  BY <1>2, <1>3, <1>4, StillFinding
    <1> QED  BY <1>2, <1>4, <1>7, <1>8, <1>9, SteadyKeeps

LEMMA ReserveKeeps ==
    ASSUME BudgetInv, NEW r \in Requests, Reserve(r)
    PROVE  BudgetInv'
PROOF
    <1>1. PICK k : k = req[r]  OBVIOUS
    <1>2. PICK at \in {"reserve", "reserveAgain"} : at = pc[r]  BY DEF Reserve
    <1>3. /\ k \in Request /\ At(r, k, at) /\ Mints(k, at)
          /\ TablesOK /\ reserved \in [Prefixes -> Numbers]
        BY <1>1, <1>2, WhereKnown DEF Working
    <1>4. PICK x \in Prefixes : x = k.prefix  BY <1>3, RequestTypes
    <1>5. PICK n : n = reserved[x] + 1  OBVIOUS
    <1>6. /\ reserved[x] < MaxNumber /\ reserved' = [reserved EXCEPT ![x] = @ + 1]
          /\ Found(r, k, << x, n >>) /\ UNCHANGED tables
        BY <1>1, <1>4, <1>5 DEF Reserve
    <1>7. reserved[x] \in Nat /\ MaxNumber \in Nat  BY <1>3, ConstantTypes
    <1>8. n \in Numbers  BY <1>5, <1>6, <1>7 DEF Numbers
    <1>9. PICK c \in Codes : c = << x, n >>  BY <1>8, CodeTypes
    <1>10. c[1] = x /\ c[2] = n  BY <1>9
    <1>11. reserved' = [reserved EXCEPT ![x] = n]  BY <1>3, <1>5, <1>6
    <1>12. reserved'[x] = n /\ reserved' \in [Prefixes -> Numbers]  BY <1>3, <1>8, <1>11
    <1>13. SequencesGrow
        <2>1. \A z \in Prefixes : reserved[z] <= reserved'[z]
            <3>1. TAKE z \in Prefixes
            <3>2. reserved[z] \in Nat  BY <1>3, ConstantTypes
            <3>3. CASE z = x  BY <3>3, <1>5, <1>7, <1>12
            <3>4. CASE z # x
                <4>1. reserved'[z] = reserved[z]  BY <3>4, <1>3, <1>11
                <4> QED  BY <3>2, <4>1
            <3> QED  BY <3>3, <3>4
        <2> QED  BY <2>1, <1>12 DEF SequencesGrow
    <1>14. k.minted => c[1] = k.prefix /\ c[2] <= reserved'[k.prefix] /\ c \notin k.refused
        <2>1. HAVE k.minted
        <2>2. \A d \in k.refused : d[2] <= reserved[x]
            BY <2>1, <1>2, <1>3, <1>4 DEF Mints, Finding
        <2>3. c \notin k.refused  BY <2>2, <1>5, <1>7, <1>10
        <2>4. n <= n  BY <1>8, ConstantTypes
        <2> QED  BY <2>3, <2>4, <1>4, <1>10, <1>12
    <1>15. SameSave(k, k) /\ SameQueues(k, k) /\ SameRow(k, k) /\ SameTries(k, k)
        BY DEF SameSave, SameQueues, SameRow, SameTries
    <1>16. Found(r, k, c)  BY <1>6, <1>9
    <1> QED  BY <1>2, <1>3, <1>6, <1>13, <1>14, <1>15, <1>16, FoundKeeps

LEMMA ReserveFailsKeeps ==
    ASSUME BudgetInv, NEW r \in Requests, ReserveFails(r)
    PROVE  BudgetInv'
PROOF
    <1>1. PICK k : k = req[r]  OBVIOUS
    <1>2. pc[r] = "reserve" /\ UNCHANGED tables /\ UNCHANGED reserved  BY DEF ReserveFails
    <1>3. k \in Request /\ At(r, k, "reserve")  BY <1>1, <1>2, WhereKnown DEF Working
    <1>4. PICK q : q = Blanked(k)  OBVIOUS
    <1>5. Goto(r, "readCodes", q)  BY <1>1, <1>4 DEF ReserveFails, Blanked
    <1>6. /\ q \in Request /\ ~ q.minted
          /\ SameSave(k, q) /\ SameQueues(k, q) /\ SameRow(k, q) /\ SameTries(k, q)
        BY <1>3, <1>4, BlankFields
    <1>7. Mints(q, "readCodes")  BY <1>6 DEF Mints
    <1>8. q.attempt = k.attempt  BY <1>6 DEF SameTries
    <1> QED  BY <1>2, <1>3, <1>5, <1>6, <1>7, <1>8, SeekKeeps DEF Finding

LEMMA ReserveFailsAgainKeeps ==
    ASSUME BudgetInv, NEW r \in Requests, ReserveFailsAgain(r)
    PROVE  BudgetInv'
PROOF
    <1>1. PICK k : k = req[r]  OBVIOUS
    <1>2. pc[r] = "reserveAgain" /\ UNCHANGED tables /\ UNCHANGED reserved
        BY DEF ReserveFailsAgain
    <1>3. k \in Request /\ At(r, k, "reserveAgain") /\ Aims(k, "reserveAgain")
        BY <1>1, <1>2, WhereKnown DEF Working
    <1>4. k.want \in Codes  BY <1>3, RequestTypes DEF Aims
    <1>5. PICK q : q = Unminted(k)  OBVIOUS
    <1>6. Found(r, q, k.want)  BY <1>1, <1>5 DEF ReserveFailsAgain, Unminted
    <1>7. /\ q \in Request /\ ~ q.minted
          /\ SameSave(k, q) /\ SameQueues(k, q) /\ SameRow(k, q) /\ SameTries(k, q)
        BY <1>3, <1>5, UnmintedFields
    <1>8. SequencesGrow  BY <1>2, SequencesStay DEF BudgetInv
    <1> QED  BY <1>2, <1>3, <1>4, <1>6, <1>7, <1>8, FoundKeeps

LEMMA ReadCodesKeeps ==
    ASSUME BudgetInv, NEW r \in Requests, ReadCodes(r)
    PROVE  BudgetInv'
PROOF
    <1>1. PICK k : k = req[r]  OBVIOUS
    <1>2. pc[r] = "readCodes" /\ UNCHANGED tables /\ UNCHANGED reserved  BY DEF ReadCodes
    <1>3. /\ k \in Request /\ At(r, k, "readCodes") /\ Mints(k, "readCodes")
        BY <1>1, <1>2, WhereKnown DEF Working
    <1>4. PICK c : c = NextCode(k)  OBVIOUS
    <1>5. PICK keep \in BOOLEAN :
             keep <=> k.exclude # None /\ k.want # None /\ k.want \notin UsedCodes(k)
        OBVIOUS
    <1>6. /\ c \in Codes
          /\ keep => Found(r, k, k.want)
          /\ ~ keep /\ k.force => Goto(r, "reserveAgain", Wants(k, c))
          /\ ~ keep /\ ~ k.force => Found(r, k, c)
        BY <1>1, <1>4, <1>5 DEF ReadCodes, Wants
    <1>7. k.minted => k.force /\ k.want = None  BY <1>3 DEF Mints, Finding
    <1>8. SequencesGrow  BY <1>2, SequencesStay DEF BudgetInv
    <1>9. SameSave(k, k) /\ SameQueues(k, k) /\ SameRow(k, k) /\ SameTries(k, k)
        BY DEF SameSave, SameQueues, SameRow, SameTries
    <1>10. CASE keep
        <2>1. k.want \in Codes /\ ~ k.minted  BY <1>3, <1>5, <1>7, <1>10, RequestTypes
        <2> QED  BY <1>2, <1>3, <1>6, <1>8, <1>9, <1>10, <2>1, FoundKeeps
    <1>11. CASE ~ keep /\ k.force
        <2>1. PICK q : q = Wants(k, c)  OBVIOUS
        <2>2. Goto(r, "reserveAgain", q)  BY <1>6, <1>11, <2>1
        <2>3. /\ q \in Request /\ q.want = c /\ q.minted = k.minted
              /\ SameSave(k, q) /\ SameQueues(k, q) /\ SameRow(k, q) /\ SameTries(k, q)
            BY <1>3, <1>6, <2>1, WantsFields
        <2>4. Mints(q, "reserveAgain")
            BY <1>3, <2>3 DEF Mints, SameTries, Finding
        <2>5. q.want # None  BY <1>6, <2>3, CodeTypes
        <2>6. q.attempt = k.attempt  BY <2>3 DEF SameTries
        <2> QED  BY <1>2, <1>3, <2>2, <2>3, <2>4, <2>5, <2>6, SeekKeeps DEF Finding
    <1>12. CASE ~ keep /\ ~ k.force
        <2>1. ~ k.minted  BY <1>7, <1>12
        <2> QED  BY <1>2, <1>3, <1>6, <1>8, <1>9, <1>12, <2>1, FoundKeeps
    <1> QED  BY <1>10, <1>11, <1>12

\* Each refused code is another one.
LEMMA UpsertRefusedKeeps ==
    ASSUME BudgetInv, NEW r \in Requests, UpsertRefused(r)
    PROVE  BudgetInv'
PROOF
    <1>1. PICK k : k = req[r]  OBVIOUS
    <1>2. /\ pc[r] = "upsert" /\ k.want # Routine /\ UNCHANGED tables /\ UNCHANGED reserved
        BY <1>1 DEF UpsertRefused
    <1>3. /\ k \in Request /\ At(r, k, "upsert") /\ Aims(k, "upsert") /\ Mints(k, "upsert")
        BY <1>1, <1>2, WhereKnown DEF Working
    <1>4. /\ k.want \in Codes /\ k.attempt < MaxAttempts /\ k.payload.kind # "code"
        BY <1>3, RequestTypes DEF Aims
    <1>5. PICK q : q = Again(k)  OBVIOUS
    <1>6. PICK to : to = IF k.target \in Assets THEN "readCodes" ELSE "reserve"  OBVIOUS
    <1>7. Goto(r, to, q)  BY <1>1, <1>5, <1>6 DEF UpsertRefused, Again
    <1>8. /\ q \in Request /\ q.want = None /\ q.minted = k.minted
          /\ q.attempt = k.attempt + 1 /\ q.refused = k.refused \cup {k.want}
          /\ q.force /\ q.prefix = k.prefix
          /\ SameSave(k, q) /\ SameQueues(k, q) /\ SameRow(k, q)
        BY <1>3, <1>4, <1>5, AgainFields
    <1>9. to \in {"reserve", "readCodes"}  BY <1>6
    <1>10. Mints(q, to)
        <2>1. SUFFICES ASSUME q.minted  PROVE Mints(q, to)  BY DEF Mints
        <2>2. /\ IsFiniteSet(k.refused) /\ Cardinality(k.refused) = k.attempt
              /\ \A c \in k.refused : c[1] = k.prefix /\ c[2] <= reserved[k.prefix]
              /\ k.want[1] = k.prefix /\ k.want[2] <= reserved[k.prefix]
              /\ k.want \notin k.refused
            BY <1>2, <1>3, <1>8, <2>1 DEF Mints, Finding
        <2>3. IsFiniteSet(q.refused) /\ Cardinality(q.refused) = k.attempt + 1
            <3>1. PICK S, c : S = k.refused /\ c = k.want  OBVIOUS
            <3>2. IsFiniteSet(S) /\ Cardinality(S) = k.attempt /\ c \notin S  BY <2>2, <3>1
            <3>3. IsFiniteSet(S \cup {c}) /\ Cardinality(S \cup {c}) = Cardinality(S) + 1
                BY <3>2, FS_AddElement
            <3>4. q.refused = S \cup {c}  BY <1>8, <3>1
            <3> QED  BY <3>2, <3>3, <3>4
        <2>4. \A c \in q.refused : c[1] = k.prefix /\ c[2] <= reserved[k.prefix]
            BY <1>8, <2>2
        <2> QED  BY <1>8, <1>9, <2>3, <2>4 DEF Mints
    <1> QED  BY <1>2, <1>3, <1>4, <1>7, <1>8, <1>9, <1>10, SeekKeeps DEF Finding

\* A request that fails or is answered leaves the tables.
LEMMA EndsKeeps ==
    ASSUME BudgetInv, NEW r \in Requests, RoutineRefused(r) \/ Invalidate(r) \/ Abort(r)
    PROVE  BudgetInv'
PROOF
    <1>1. PICK k : k = req[r]  OBVIOUS
    <1>2. PICK at : at = pc[r]  OBVIOUS
    <1>3. /\ at \in Working /\ UNCHANGED tables /\ UNCHANGED reserved
        BY <1>2 DEF RoutineRefused, Invalidate, Abort, InFlight, Working
    <1>4. k \in Request /\ At(r, k, at) /\ TablesOK  BY <1>1, <1>2, <1>3, WhereKnown
    <1>5. TablesOK' /\ SequencesGrow
        BY <1>3, <1>4, TablesStay, SequencesStay DEF BudgetInv
    <1>6. PICK out \in {"idle", "failed"} :
             /\ pc' = [pc EXCEPT ![r] = out] /\ req' = [req EXCEPT ![r] = None]
             /\ made' = made
        BY DEF RoutineRefused, Invalidate, Abort, Throw, Answer, Goto
    <1> QED  BY <1>3, <1>4, <1>5, <1>6, LeaveKeeps DEF Resting

-------------------------------------------------------------------------------
(* Writing *)

LEMMA WriteKeeps ==
    ASSUME BudgetInv, NEW r \in Requests, NEW k \in Request, NEW at \in Working, At(r, k, at),
           NEW to \in {"loop", "clearItems", "insertItems", "dropAssets"}, NEW q \in Request,
           Goto(r, to, q), SameSave(k, q), TablesOK', UNCHANGED reserved,
           Aims(q, to), SoFar(q, to)'
    PROVE  BudgetInv'
PROOF
    <1>1. SequencesGrow  BY SequencesStay DEF BudgetInv
    <1>2. Mints(q, to)'  BY DEF Mints, Finding
    <1>3. Folds(q, to)'  BY DEF Folds
    <1>4. q.alone = k.alone /\ to \in Working  BY DEF SameSave, Working
    <1> QED  BY <1>1, <1>2, <1>3, <1>4, GotoKeeps

\* After a project come its pipeline items and its touched assets.
LEMMA ProjectWritten ==
    ASSUME NEW k \in Request, NEW q \in Request, SoFar(k, "upsert"), TablesOK,
           k.row \in Projects, k.target \in Projects,
           k.target # k.row => k.want = Routine,
           code' = [code EXCEPT ![k.target] = k.want],
           savedBy' = [savedBy EXCEPT ![k.target] = k.number],
           owner' = owner, items' = items, SameSave(k, q),
           k.payload.kind = "period" => q.assets = Touched(k.payload, k.row),
           q.parent = k.target, q.saved = [k.saved EXCEPT ![k.row] = k.target],
           q.projects = k.projects, q.drops = k.drops, q.deletes = k.deletes,
           q.row = k.row, NEW to, to = IF k.row \in k.payload.pipeline THEN "clearItems" ELSE "loop"
    PROVE  SoFar(q, to)'
PROOF
    <1>1. SUFFICES ASSUME q.alone, q.payload.kind = "period"
                   PROVE  /\ Ahead(q, to) /\ Removed(q, to)'
                          /\ KeepsAggregator(q) => Behind(q, to)'
        BY DEF SoFar
    <1>2. q.payload = k.payload /\ q.number = k.number  BY DEF SameSave
    <1>3. PICK y \in Payloads : y = k.payload  BY RequestTypes
    <1>4. PICK p \in Projects : p = k.row  OBVIOUS
    <1>5. PICK t \in Projects : t = k.target  OBVIOUS
    <1>6. /\ Ahead(k, "upsert") /\ Removed(k, "upsert")
          /\ KeepsAggregator(k) => Behind(k, "upsert")
        BY <1>1 DEF SoFar, SameSave
    <1>7. /\ p \in Live(y) \ k.projects /\ k.assets = {} /\ k.saved[p] = None
          /\ t # p => y.sent[p] = Routine
        BY <1>3, <1>4, <1>5, <1>6, ConstantTypes DEF Ahead, Finding
    <1>8. /\ k.projects \subseteq Live(y) /\ k.drops = TakenOut(y) /\ k.deletes = Gone(y)
          /\ \A x \in k.projects : k.saved[x] = None
          /\ \A x \in Settled(k, "upsert") :
                k.saved[x] # None /\ (k.saved[x] # x => y.sent[x] = Routine)
        BY <1>3, <1>6 DEF Ahead
    <1>9. k.saved \in [Projects -> Projects \cup {None}]  BY RequestTypes
    <1>10. q.saved[p] = t /\ \A x \in Projects : x # p => q.saved[x] = k.saved[x]
        BY <1>4, <1>5, <1>9
    <1>11. Live(y) \subseteq Projects /\ \A x \in Live(y) : Touched(y, x) \subseteq Assets
        BY PayloadTypes
    <1>12. to \notin Finding /\ to # "insertItems" /\ to # "dropAssets"  BY DEF Finding
    <1>13. Settled(q, to) = Settled(k, "upsert") \cup {p}
        BY <1>2, <1>3, <1>4, <1>7, <1>12 DEF Settled, Finding
    <1>14. \A x \in Settled(k, "upsert") : x \in Live(y) /\ x # p
        BY <1>3, <1>4 DEF Settled, Finding
    <1>15. \A a : \A h \in Homes(k, a) : h # None => h \in Homes(q, a)
        <2>1. SUFFICES ASSUME NEW a, NEW h \in Homes(k, a), h # None
                       PROVE  h \in Homes(q, a)
            OBVIOUS
        <2>2. PICK x \in Live(y) : a \in Touched(y, x) /\ h = k.saved[x]  BY <1>3 DEF Homes
        <2>3. q.saved[x] = h  BY <2>1, <2>2, <1>7, <1>10, <1>11
        <2> QED  BY <2>2, <2>3, <1>2, <1>3 DEF Homes
    <1>16. \A a \in Touched(y, p) : t \in Homes(q, a)
        BY <1>2, <1>3, <1>7, <1>10 DEF Homes
    <1>17. t # None  BY ConstantTypes
    <1>18. q.assets = Touched(y, p)  BY <1>1, <1>2, <1>3, <1>4
    <1>19. Ahead(q, to)
        <2>1. /\ q.projects \subseteq Live(q.payload)
              /\ q.drops = TakenOut(q.payload) /\ q.deletes = Gone(q.payload)
            BY <1>2, <1>3, <1>8
        <2>2. \A a \in q.assets : q.parent \in Homes(q, a) /\ q.parent # None
            BY <1>5, <1>16, <1>17, <1>18
        <2>3. q.row \in Settled(q, to) /\ q.parent = q.saved[q.row]
            BY <1>4, <1>5, <1>10, <1>13
        <2>4. \A x \in q.projects : q.saved[x] = None
            BY <1>7, <1>8, <1>10, <1>11
        <2>5. \A x \in Settled(q, to) :
                 q.saved[x] # None /\ (q.saved[x] # x => q.payload.sent[x] = Routine)
            BY <1>2, <1>3, <1>7, <1>8, <1>10, <1>11, <1>13, <1>14, <1>17
        <2> QED  BY <1>12, <2>1, <2>2, <2>3, <2>4, <2>5 DEF Ahead
    <1>20. Removed(q, to)'  BY <1>2, <1>3, <1>8, <1>12 DEF Removed
    <1>21. KeepsAggregator(q) => Behind(q, to)'
        <2>1. HAVE KeepsAggregator(q)
        <2>2. KeepsAggregator(k)
            <3>1. SUFFICES ASSUME NEW x \in Live(y)  PROVE k.saved[x] \notin Gone(y)
                BY <1>3 DEF KeepsAggregator
            <3>2. q.saved[x] \notin Gone(y)  BY <2>1, <1>2, <1>3 DEF KeepsAggregator
            <3>3. None \notin Gone(y)  BY PayloadTypes, ConstantTypes
            <3> QED  BY <3>2, <3>3, <1>7, <1>10, <1>11
        <2>3. Behind(k, "upsert")  BY <2>2, <1>6
        <2>4. /\ savedBy \in [Rows -> 0..MaxRequests] /\ code \in [Rows -> Codes \cup {None}]
            BY DEF TablesOK
        <2>5. t \in Rows /\ \A x \in Assets : x \in Rows /\ x # t  BY ConstantTypes
        <2>6. /\ savedBy'[t] = q.number /\ code'[t] = k.want
              /\ \A x \in Rows : x # t => savedBy'[x] = savedBy[x] /\ code'[x] = code[x]
            BY <1>2, <1>5, <2>4, <2>5
        <2>7. ASSUME NEW x \in Settled(k, "upsert")
              PROVE  /\ savedBy'[q.saved[x]] = q.number
                     /\ q.saved[x] \notin q.payload.changed => code'[q.saved[x]] = Routine
                     /\ x \in q.payload.pipeline => items'[q.saved[x]] = {q.number}
                     /\ \A a \in Touched(q.payload, x) :
                           savedBy'[a] = q.number /\ owner'[a] \in Homes(q, a) /\ owner'[a] # None
            <3>1. PICK s : s = k.saved[x]  OBVIOUS
            <3>2. x \in Projects /\ q.saved[x] = s /\ s \in Projects /\ s \in Rows
                BY <3>1, <1>8, <1>9, <1>10, <1>11, <1>14, ConstantTypes
            <3>3. /\ savedBy[s] = q.number
                  /\ s \notin y.changed => code[s] = Routine
                  /\ x \in y.pipeline => items[s] = {q.number}
                  /\ \A a \in Touched(y, x) :
                        savedBy[a] = q.number /\ owner[a] \in Homes(k, a) /\ owner[a] # None
                <4>1. \A a \in Touched(y, x) : a \in Assets /\ a # k.row /\ a \notin k.assets
                    BY <1>4, <1>7, <1>11, <1>14, ConstantTypes
                <4> QED  BY <2>3, <3>1, <4>1, <1>2, <1>3 DEF Behind
            <3>4. savedBy'[s] = q.number  BY <3>2, <3>3, <2>6
            <3>5. s \notin y.changed => code'[s] = Routine
                <4>1. HAVE s \notin y.changed
                <4>2. CASE s = t
                    <5>1. t # p  BY <4>1, <4>2, <1>7, PayloadTypes
                    <5> QED  BY <4>2, <5>1, <2>6, <1>4, <1>5
                <4>3. CASE s # t  BY <4>1, <4>3, <3>2, <3>3, <2>6
                <4> QED  BY <4>2, <4>3
            <3>6. \A a \in Touched(y, x) :
                     savedBy'[a] = q.number /\ owner'[a] \in Homes(q, a) /\ owner'[a] # None
                BY <3>3, <2>5, <2>6, <1>11, <1>14, <1>15
            <3> QED  BY <3>2, <3>3, <3>4, <3>5, <3>6, <1>2, <1>3
        <2>8. /\ savedBy'[q.saved[p]] = q.number
              /\ q.saved[p] \notin q.payload.changed => code'[q.saved[p]] = Routine
              /\ p \in q.payload.pipeline => to = "clearItems" /\ q.saved[p] = q.parent
              /\ \A a \in Touched(q.payload, p) : to # "dropAssets" /\ a \in q.assets
            <3>1. t \notin y.changed => t # p  BY <1>7, PayloadTypes
            <3> QED  BY <3>1, <2>6, <1>2, <1>3, <1>4, <1>5, <1>10, <1>12, <1>18
        <2> QED  BY <2>7, <2>8, <1>12, <1>13 DEF Behind
    <1> QED  BY <1>19, <1>20, <1>21

LEMMA UpsertProjectKeeps ==
    ASSUME BudgetInv, NEW r \in Requests, UpsertProject(r)
    PROVE  BudgetInv'
PROOF
    <1>1. PICK k : k = req[r]  OBVIOUS
    <1>2. PICK mine : mine = IF k.payload.kind = "period" THEN Touched(k.payload, k.row) ELSE {}
        OBVIOUS
    <1>3. PICK to : to = IF k.row \in k.payload.pipeline THEN "clearItems" ELSE "loop"  OBVIOUS
    <1>4. PICK q : q = ProjectSaved(k, mine)  OBVIOUS
    <1>5. /\ pc[r] = "upsert" /\ k.target \in Projects /\ SaveRow(k)
          /\ owner' = owner /\ items' = items /\ UNCHANGED reserved
        BY <1>1 DEF UpsertProject
    <1>6. Goto(r, to, q)
        BY <1>1, <1>2, <1>3, <1>4 DEF UpsertProject, ProjectSaved, Resent
    <1>7. /\ k \in Request /\ At(r, k, "upsert") /\ Aims(k, "upsert") /\ SoFar(k, "upsert")
          /\ TablesOK
        BY <1>1, <1>5, WhereKnown DEF Working
    <1>8. /\ k.payload.kind # "code" /\ k.row \in SentRows(k.payload) /\ k.want # None
          /\ k.row \in Projects => k.row \in k.payload.changed
          /\ k.target # k.row => k.want = Routine /\ k.row \in Projects
        BY <1>7 DEF Aims, Finding
    <1>9. k.row \in Projects /\ k.payload \in Payloads /\ k.want \in Codes /\ k.row \in Rows
        BY <1>5, <1>7, <1>8, RequestTypes, ConstantTypes
    <1>10. k.sent[k.row] \in Codes
        <2>1. k.payload.sent[k.row] \in {Hu} \X Numbers  BY <1>8, <1>9, BudgetAssumption
        <2>2. k.sent[k.row] = k.payload.sent[k.row]  BY <1>7, <1>9 DEF Aims
        <2> QED  BY <2>1, <2>2 DEF Codes
    <1>11. mine \in SUBSET Assets /\ mine \subseteq SentRows(k.payload)
        BY <1>2, <1>8, <1>9, PayloadTypes
    <1>12. /\ q \in Request /\ q.assets = mine /\ q.parent = k.target
           /\ q.saved = [k.saved EXCEPT ![k.row] = k.target]
           /\ \A x \in Projects : q.sent[x] = k.sent[x]
           /\ q.projects = k.projects /\ q.drops = k.drops /\ q.deletes = k.deletes
           /\ q.row = k.row /\ q.target = k.target /\ SameSave(k, q)
        BY <1>4, <1>5, <1>7, <1>9, <1>10, <1>11, ProjectSavedFields
    <1>13. to \in {"loop", "clearItems"}  BY <1>3
    <1>14. q.payload = k.payload  BY <1>12 DEF SameSave
    <1>15. Aims(q, to)
        <2>1. /\ k.projects \subseteq k.payload.changed
              /\ \A x \in Projects : k.sent[x] = k.payload.sent[x]
            BY <1>7 DEF Aims
        <2> QED  BY <2>1, <1>8, <1>11, <1>12, <1>13, <1>14 DEF Aims, Finding
    <1>16. /\ code' = [code EXCEPT ![k.target] = k.want]
           /\ savedBy' = [savedBy EXCEPT ![k.target] = k.number]
        BY <1>5 DEF SaveRow
    <1>17. SoFar(q, to)'
        BY <1>2, <1>3, <1>5, <1>7, <1>8, <1>9, <1>12, <1>16, ProjectWritten
    <1>18. TablesOK'
        <2>1. k.number \in 0..MaxRequests  BY <1>7, RequestTypes, ConstantTypes DEF RequestNumbers
        <2> QED  BY <2>1, <1>5, <1>7, <1>9, <1>16 DEF TablesOK
    <1> QED  BY <1>5, <1>6, <1>7, <1>12, <1>13, <1>15, <1>17, <1>18, WriteKeeps DEF Working

\* An asset is written below the project that it was sent in.
LEMMA AssetWritten ==
    ASSUME NEW k \in Request, SoFar(k, "upsert"), TablesOK,
           k.target = k.row, NEW b \in Assets, b = k.target,
           code' = [code EXCEPT ![b] = k.want],
           savedBy' = [savedBy EXCEPT ![b] = k.number],
           owner' = [owner EXCEPT ![b] = k.parent], items' = items
    PROVE  SoFar(k, "loop")'
PROOF
    <1>1. SUFFICES ASSUME k.alone, k.payload.kind = "period"
                   PROVE  /\ Ahead(k, "loop") /\ Removed(k, "loop")'
                          /\ KeepsAggregator(k) => Behind(k, "loop")'
        BY DEF SoFar
    <1>2. PICK y \in Payloads : y = k.payload  BY RequestTypes
    <1>3. /\ Ahead(k, "upsert") /\ Removed(k, "upsert")
          /\ KeepsAggregator(k) => Behind(k, "upsert")
        BY <1>1 DEF SoFar
    <1>4. Live(y) \subseteq Projects /\ \A x \in Live(y) : Touched(y, x) \subseteq Assets
        BY PayloadTypes
    <1>5. b \notin Projects /\ b \in Rows  BY ConstantTypes
    <1>6. k.parent \in Homes(k, b) /\ k.parent # None
        BY <1>2, <1>3, <1>4, <1>5 DEF Ahead, Finding
    <1>7. /\ k.projects \subseteq Live(y) /\ k.drops = TakenOut(y) /\ k.deletes = Gone(y)
          /\ \A x \in k.projects : k.saved[x] = None
          /\ \A a \in k.assets : k.parent \in Homes(k, a) /\ k.parent # None
          /\ \A x \in Settled(k, "upsert") :
                k.saved[x] # None /\ (k.saved[x] # x => y.sent[x] = Routine)
        BY <1>2, <1>3 DEF Ahead
    <1>8. Settled(k, "loop") = Settled(k, "upsert")
        BY <1>2, <1>4, <1>5 DEF Settled, Finding
    <1>9. Ahead(k, "loop")  BY <1>2, <1>7, <1>8 DEF Ahead, Finding
    <1>10. Removed(k, "loop")'  BY <1>2, <1>7 DEF Removed
    <1>11. KeepsAggregator(k) => Behind(k, "loop")'
        <2>1. HAVE KeepsAggregator(k)
        <2>2. Behind(k, "upsert")  BY <2>1, <1>3
        <2>3. /\ savedBy \in [Rows -> 0..MaxRequests] /\ code \in [Rows -> Codes \cup {None}]
              /\ owner \in [Assets -> Projects \cup {None}]
            BY DEF TablesOK
        <2>4. /\ savedBy'[b] = k.number /\ owner'[b] = k.parent
              /\ \A x \in Rows : x # b => savedBy'[x] = savedBy[x] /\ code'[x] = code[x]
              /\ \A x \in Assets : x # b => owner'[x] = owner[x]
            BY <1>5, <2>3
        <2>5. k.saved \in [Projects -> Projects \cup {None}]  BY RequestTypes
        <2>6. ASSUME NEW x \in Settled(k, "upsert")
              PROVE  /\ savedBy'[k.saved[x]] = k.number
                     /\ k.saved[x] \notin k.payload.changed => code'[k.saved[x]] = Routine
                     /\ x \in k.payload.pipeline => items'[k.saved[x]] = {k.number}
                     /\ \A a \in Touched(k.payload, x) :
                           \/ a \in k.assets
                           \/ savedBy'[a] = k.number /\ owner'[a] \in Homes(k, a) /\ owner'[a] # None
            <3>1. PICK s : s = k.saved[x]  OBVIOUS
            <3>2. x \in Live(y)  BY <1>2 DEF Settled
            <3>3. s \in Projects /\ s \in Rows /\ s # b
                BY <3>1, <3>2, <1>4, <1>5, <1>7, <2>5, ConstantTypes
            <3>4. /\ savedBy[s] = k.number
                  /\ s \notin y.changed => code[s] = Routine
                  /\ x \in y.pipeline => items[s] = {k.number}
                  /\ \A a \in Touched(y, x) :
                        \/ a \in k.assets
                        \/ a = b
                        \/ savedBy[a] = k.number /\ owner[a] \in Homes(k, a) /\ owner[a] # None
                BY <2>2, <3>1, <1>2 DEF Behind
            <3>5. \A a \in Touched(y, x) : a \in Assets /\ a \in Rows
                BY <3>2, <1>4, ConstantTypes
            <3>6. \A a \in Touched(y, x) :
                     \/ a \in k.assets
                     \/ savedBy'[a] = k.number /\ owner'[a] \in Homes(k, a) /\ owner'[a] # None
                BY <3>4, <3>5, <2>4, <1>6
            <3> QED  BY <3>1, <3>3, <3>4, <3>6, <2>4, <1>2
        <2> QED  BY <2>6, <1>8 DEF Behind
    <1> QED  BY <1>9, <1>10, <1>11

LEMMA UpsertAssetKeeps ==
    ASSUME BudgetInv, NEW r \in Requests, UpsertAsset(r)
    PROVE  BudgetInv'
PROOF
    <1>1. PICK k : k = req[r]  OBVIOUS
    <1>2. /\ pc[r] = "upsert" /\ k.target \in Assets /\ SaveRow(k)
          /\ owner' = [owner EXCEPT ![k.target] = k.parent] /\ items' = items
          /\ UNCHANGED reserved /\ Goto(r, "loop", k)
        BY <1>1 DEF UpsertAsset
    <1>3. /\ k \in Request /\ At(r, k, "upsert") /\ Aims(k, "upsert") /\ SoFar(k, "upsert")
          /\ TablesOK
        BY <1>1, <1>2, WhereKnown DEF Working
    <1>4. k.target = k.row  BY <1>2, <1>3, ConstantTypes DEF Aims, Finding
    <1>5. Aims(k, "loop")  BY <1>3 DEF Aims, Finding
    <1>6. PICK b \in Assets : b = k.target  BY <1>2
    <1>7. /\ code' = [code EXCEPT ![b] = k.want]
          /\ savedBy' = [savedBy EXCEPT ![b] = k.number]
          /\ owner' = [owner EXCEPT ![b] = k.parent]
        BY <1>2, <1>6 DEF SaveRow
    <1>8. SoFar(k, "loop")'  BY <1>2, <1>3, <1>4, <1>6, <1>7, AssetWritten
    <1>9. TablesOK'
        <2>1. k.number \in 0..MaxRequests  BY <1>3, RequestTypes, ConstantTypes DEF RequestNumbers
        <2>2. k.parent \in Projects \cup {None} /\ k.want \in Codes \cup {None}
            BY <1>3, RequestTypes
        <2> QED  BY <2>1, <2>2, <1>2, <1>3, <1>7 DEF TablesOK
    <1>10. SameSave(k, k)  BY DEF SameSave
    <1> QED  BY <1>2, <1>3, <1>5, <1>8, <1>9, <1>10, WriteKeeps DEF Working

\* The pipeline items are deleted, then inserted.
LEMMA ItemsWritten ==
    ASSUME NEW k \in Request, TablesOK, NEW n, NEW at, NEW to,
           \/ at = "clearItems" /\ to = "insertItems" /\ n = {}
           \/ at = "insertItems" /\ to = "loop" /\ n = items[k.parent] \cup {k.number},
           SoFar(k, at), items' = [items EXCEPT ![k.parent] = n],
           code' = code, owner' = owner, savedBy' = savedBy
    PROVE  SoFar(k, to)'
PROOF
    <1>1. SUFFICES ASSUME k.alone, k.payload.kind = "period"
                   PROVE  /\ Ahead(k, to) /\ Removed(k, to)'
                          /\ KeepsAggregator(k) => Behind(k, to)'
        BY DEF SoFar
    <1>2. /\ Ahead(k, at) /\ Removed(k, at)
          /\ KeepsAggregator(k) => Behind(k, at)
        BY <1>1 DEF SoFar
    <1>3. at \notin Finding /\ to \notin Finding  BY DEF Finding
    <1>4. Settled(k, to) = Settled(k, at)  BY <1>3 DEF Settled
    <1>5. /\ k.drops = TakenOut(k.payload) /\ k.deletes = Gone(k.payload)
          /\ k.row \in Settled(k, at) /\ k.parent = k.saved[k.row]
        BY <1>2 DEF Ahead
    <1>6. Ahead(k, to)  BY <1>2, <1>3, <1>4, <1>5 DEF Ahead
    <1>7. Removed(k, to)'  BY <1>5 DEF Removed
    <1>8. KeepsAggregator(k) => Behind(k, to)'
        <2>1. HAVE KeepsAggregator(k)
        <2>2. Behind(k, at)  BY <2>1, <1>2
        <2>3. k.payload \in Payloads /\ k.saved \in [Projects -> Projects \cup {None}]
            BY RequestTypes
        <2>4. \A x \in Settled(k, at) : x \in Projects /\ k.saved[x] # None
            BY <1>2, <2>3, PayloadTypes DEF Settled, Ahead
        <2>5. k.parent \in Projects  BY <1>5, <2>3, <2>4
        <2>6. items \in [Projects -> SUBSET RequestNumbers]  BY DEF TablesOK
        <2>7. items'[k.parent] = n /\ \A x \in Projects : x # k.parent => items'[x] = items[x]
            BY <2>5, <2>6
        <2>8. at = "insertItems" => n = {k.number}
            BY <2>2 DEF Behind
        <2>9. ASSUME NEW x \in Settled(k, at)
              PROVE  /\ savedBy'[k.saved[x]] = k.number
                     /\ k.saved[x] \notin k.payload.changed => code'[k.saved[x]] = Routine
                     /\ x \in k.payload.pipeline =>
                           \/ items'[k.saved[x]] = {k.number}
                           \/ to = "insertItems" /\ k.saved[x] = k.parent
                     /\ \A a \in Touched(k.payload, x) :
                           \/ to # "dropAssets" /\ a \in k.assets
                           \/ savedBy'[a] = k.number /\ owner'[a] \in Homes(k, a) /\ owner'[a] # None
            <3>1. k.saved[x] \in Projects  BY <2>3, <2>4
            <3>2. x \in k.payload.pipeline =>
                     items[k.saved[x]] = {k.number} \/ k.saved[x] = k.parent
                BY <2>2 DEF Behind
            <3>3. x \in k.payload.pipeline =>
                     \/ items'[k.saved[x]] = {k.number}
                     \/ to = "insertItems" /\ k.saved[x] = k.parent
                <4>1. CASE k.saved[x] = k.parent  BY <4>1, <2>7, <2>8
                <4>2. CASE k.saved[x] # k.parent  BY <4>2, <2>7, <3>1, <3>2
                <4> QED  BY <4>1, <4>2
            <3>4. /\ savedBy[k.saved[x]] = k.number
                  /\ k.saved[x] \notin k.payload.changed => code[k.saved[x]] = Routine
                  /\ \A a \in Touched(k.payload, x) :
                        \/ a \in k.assets
                        \/ savedBy[a] = k.number /\ owner[a] \in Homes(k, a) /\ owner[a] # None
                BY <2>2, <1>3 DEF Behind
            <3> QED  BY <3>3, <3>4
        <2> QED  BY <2>7, <2>9, <1>4 DEF Behind
    <1> QED  BY <1>6, <1>7, <1>8

LEMMA ItemsKeep ==
    ASSUME BudgetInv, NEW r \in Requests, ClearItems(r) \/ InsertItems(r)
    PROVE  BudgetInv'
PROOF
    <1>1. PICK k : k = req[r]  OBVIOUS
    <1>2. PICK at \in {"clearItems", "insertItems"} : at = pc[r]
        BY DEF ClearItems, InsertItems
    <1>3. PICK to : to = IF at = "clearItems" THEN "insertItems" ELSE "loop"  OBVIOUS
    <1>4. PICK n : n = IF at = "clearItems" THEN {} ELSE items[k.parent] \cup {k.number}
        OBVIOUS
    <1>5. /\ k \in Request /\ At(r, k, at) /\ Aims(k, at) /\ SoFar(k, at) /\ TablesOK
        BY <1>1, <1>2, WhereKnown DEF Working
    <1>6. /\ code' = code /\ owner' = owner /\ savedBy' = savedBy /\ UNCHANGED reserved
          /\ Goto(r, to, k)
        BY <1>1, <1>2, <1>3 DEF ClearItems, InsertItems
    <1>7. items \in [Projects -> SUBSET RequestNumbers]  BY <1>5 DEF TablesOK
    <1>8. items' = [items EXCEPT ![k.parent] = n]
        <2>1. CASE ClearItems(r)  BY <2>1, <1>1, <1>2, <1>4 DEF ClearItems
        <2>2. CASE InsertItems(r)
            <3>1. items' = [items EXCEPT ![k.parent] = @ \cup {k.number}] /\ at = "insertItems"
                BY <2>2, <1>1, <1>2 DEF InsertItems
            <3>2. n = items[k.parent] \cup {k.number}  BY <3>1, <1>4
            <3> QED  BY <3>1, <3>2, <1>7
        <2> QED  BY <2>1, <2>2
    <1>9. SoFar(k, to)'  BY <1>2, <1>3, <1>4, <1>5, <1>6, <1>8, ItemsWritten
    <1>10. Aims(k, to)  BY <1>2, <1>3, <1>5 DEF Aims, Finding
    <1>11. TablesOK'
        <2>1. k.parent \in Projects => n \in SUBSET RequestNumbers
            BY <1>4, <1>5, <1>7, RequestTypes
        <2>2. items' \in [Projects -> SUBSET RequestNumbers]  BY <2>1, <1>7, <1>8
        <2> QED  BY <2>2, <1>5, <1>6 DEF TablesOK
    <1>12. SameSave(k, k)  BY DEF SameSave
    <1>13. at \in Working /\ to \in {"loop", "clearItems", "insertItems", "dropAssets"}
        BY <1>2, <1>3 DEF Working
    <1> QED  BY <1>5, <1>6, <1>9, <1>10, <1>11, <1>12, <1>13, WriteKeeps

-------------------------------------------------------------------------------
(* Deleting *)

\* What is deleted of the assets is no asset that was saved: it was taken out of the
\* payload, or hangs below a project that is deleted.
LEMMA AssetRemoved ==
    ASSUME NEW k \in Request, NEW q \in Request, TablesOK, NEW b \in Assets,
           NEW at \in {"loop", "dropAssets"}, SoFar(k, at),
           SameSave(k, q), SameRow(k, q), q.projects = k.projects, q.deletes = k.deletes,
           IF at = "loop"
           THEN /\ b \in k.drops /\ k.projects = {} /\ k.assets = {}
                /\ q.drops = k.drops \ {b} /\ q.assets = k.assets
           ELSE b \in k.assets /\ q.assets = k.assets \ {b} /\ q.drops = k.drops,
           code' = [code EXCEPT ![b] = None], savedBy' = [savedBy EXCEPT ![b] = 0],
           owner' = [owner EXCEPT ![b] = None], items' = items
    PROVE  SoFar(q, at)'
PROOF
    <1>1. SUFFICES ASSUME q.alone, q.payload.kind = "period"
                   PROVE  /\ Ahead(q, at) /\ Removed(q, at)'
                          /\ KeepsAggregator(q) => Behind(q, at)'
        BY DEF SoFar
    <1>2. /\ q.payload = k.payload /\ q.number = k.number /\ q.target = k.target
          /\ q.saved = k.saved /\ q.parent = k.parent /\ q.row = k.row
        BY DEF SameSave, SameRow
    <1>3. /\ Ahead(k, at) /\ Removed(k, at)
          /\ KeepsAggregator(k) => Behind(k, at)
        BY <1>1 DEF SoFar, SameSave
    <1>4. PICK y \in Payloads : y = k.payload  BY RequestTypes
    <1>5. at \notin Finding /\ at \notin {"clearItems", "insertItems"}  BY DEF Finding
    <1>6. Settled(q, at) = Settled(k, at)  BY <1>2, <1>5 DEF Settled
    <1>7. \A a : Homes(q, a) = Homes(k, a)  BY <1>2, HomesSame
    <1>8. /\ k.projects \subseteq Live(y) /\ k.drops \subseteq TakenOut(y)
          /\ k.deletes \subseteq Gone(y)
          /\ at = "dropAssets" => /\ k.target \in Gone(y) \ k.deletes
                                  /\ k.drops = {} /\ k.projects = {}
          /\ \A x \in k.projects : k.saved[x] = None
          /\ \A x \in Settled(k, at) :
                k.saved[x] # None /\ (k.saved[x] # x => y.sent[x] = Routine)
        BY <1>3, <1>4 DEF Ahead
    <1>9. at = "loop" => k.deletes = Gone(y)  BY <1>3, <1>4 DEF Ahead
    <1>10. Ahead(q, at)
        <2>1. /\ q.projects \subseteq Live(q.payload) /\ q.drops \subseteq TakenOut(q.payload)
              /\ q.deletes \subseteq Gone(q.payload)
              /\ at = "dropAssets" => q.target \in Gone(q.payload) \ q.deletes
              /\ \A x \in q.projects : q.saved[x] = None
            BY <1>2, <1>4, <1>8
        <2>2. at = "loop" => q.assets = {} /\ q.projects = {} /\ q.deletes = Gone(q.payload)
            BY <1>2, <1>4, <1>9
        <2>3. at = "dropAssets" => q.drops = {} /\ q.projects = {}  BY <1>8
        <2>4. \A x \in Settled(q, at) :
                 q.saved[x] # None /\ (q.saved[x] # x => q.payload.sent[x] = Routine)
            BY <1>2, <1>4, <1>6, <1>8
        <2> QED  BY <1>5, <2>1, <2>2, <2>3, <2>4 DEF Ahead
    <1>11. /\ savedBy \in [Rows -> 0..MaxRequests] /\ code \in [Rows -> Codes \cup {None}]
           /\ owner \in [Assets -> Projects \cup {None}]
        BY DEF TablesOK
    <1>12. b \in Rows /\ \A p \in Projects : p \in Rows /\ p # b  BY ConstantTypes
    <1>13. /\ code'[b] = None /\ owner'[b] = None
           /\ \A x \in Rows : x # b => savedBy'[x] = savedBy[x] /\ code'[x] = code[x]
           /\ \A x \in Assets : x # b => owner'[x] = owner[x]
        BY <1>11, <1>12
    <1>14. Removed(q, at)'
        <2>1. \A a \in TakenOut(q.payload) \ q.drops : code'[a] = None
            <3>1. TAKE a \in TakenOut(q.payload) \ q.drops
            <3>2. a \in Assets /\ a \in Rows  BY <1>2, <1>4, PayloadTypes, ConstantTypes
            <3>3. a = b \/ a \in TakenOut(k.payload) \ k.drops  BY <1>2
            <3> QED  BY <3>2, <3>3, <1>3, <1>13 DEF Removed
        <2>2. \A p \in Gone(q.payload) \ q.deletes :
                 IF at = "dropAssets" /\ q.target = p
                 THEN \A a \in Assets : owner'[a] = p => a \in q.assets
                 ELSE code'[p] = None /\ items'[p] = {} /\ \A a \in Assets : owner'[a] # p
            <3>1. TAKE p \in Gone(q.payload) \ q.deletes
            <3>2. p \in Projects /\ p \in Rows /\ p # b /\ p # None
                BY <1>2, <1>4, <1>12, PayloadTypes, ConstantTypes
            <3>3. IF at = "dropAssets" /\ k.target = p
                  THEN \A a \in Assets : owner[a] = p => a \in k.assets
                  ELSE code[p] = None /\ items[p] = {} /\ \A a \in Assets : owner[a] # p
                BY <1>2, <1>3 DEF Removed
            <3>4. \A a \in Assets : owner'[a] = p => a # b /\ owner[a] = p  BY <3>2, <1>13
            <3>5. code'[p] = code[p]  BY <3>2, <1>13
            <3> QED  BY <3>3, <3>4, <3>5, <1>2
        <2> QED  BY <2>1, <2>2 DEF Removed
    <1>15. KeepsAggregator(q) => Behind(q, at)'
        <2>1. HAVE KeepsAggregator(q)
        <2>2. KeepsAggregator(k)  BY <2>1, <1>2 DEF KeepsAggregator
        <2>3. Behind(k, at)  BY <2>2, <1>3
        <2>4. k.saved \in [Projects -> Projects \cup {None}]  BY RequestTypes
        <2>5. ASSUME NEW x \in Settled(k, at), NEW a \in Touched(y, x), at = "loop"
              PROVE  a # b
            <3>1. x \in Live(y)  BY <1>4 DEF Settled
            <3> QED  BY <2>5, <3>1, <1>8, PayloadTypes
        <2>6. ASSUME NEW x \in Settled(k, at)
              PROVE  /\ savedBy'[q.saved[x]] = q.number
                     /\ q.saved[x] \notin q.payload.changed => code'[q.saved[x]] = Routine
                     /\ x \in q.payload.pipeline => items'[q.saved[x]] = {q.number}
                     /\ \A a \in Touched(q.payload, x) :
                           savedBy'[a] = q.number /\ owner'[a] \in Homes(q, a) /\ owner'[a] # None
            <3>1. PICK s : s = k.saved[x]  OBVIOUS
            <3>2. x \in Live(y) /\ x \in Projects  BY <1>4, PayloadTypes DEF Settled
            <3>3. s \in Projects /\ s \in Rows /\ s # b
                BY <3>1, <3>2, <1>8, <1>12, <2>4
            <3>4. /\ savedBy[s] = k.number
                  /\ s \notin y.changed => code[s] = Routine
                  /\ x \in y.pipeline => items[s] = {k.number}
                  /\ \A a \in Touched(y, x) :
                        savedBy[a] = k.number /\ owner[a] \in Homes(k, a) /\ owner[a] # None
                <4>1. at = "loop" => \A a \in Touched(y, x) : a \notin k.assets
                    OBVIOUS
                <4> QED  BY <4>1, <2>3, <3>1, <1>4, <1>5 DEF Behind
            <3>5. \A a \in Touched(y, x) : a \in Assets /\ a \in Rows /\ a # b
                <4>1. TAKE a \in Touched(y, x)
                <4>2. a \in Assets /\ a \in Rows  BY <3>2, PayloadTypes, ConstantTypes
                <4>3. CASE at = "loop"  BY <4>2, <4>3, <2>5
                <4>4. CASE at = "dropAssets"
                    <5>1. \A c \in k.assets : owner[c] = k.target  BY <4>4, <2>3 DEF Behind
                    <5>2. owner[a] \in Homes(k, a)  BY <3>4
                    <5>3. PICK z \in Live(y) : owner[a] = k.saved[z]  BY <5>2, <1>4 DEF Homes
                    <5>4. k.saved[z] \notin Gone(y)  BY <2>2, <1>4 DEF KeepsAggregator
                    <5>5. k.target \in Gone(y)  BY <4>4, <1>8
                    <5>6. a \notin k.assets  BY <5>1, <5>3, <5>4, <5>5
                    <5> QED  BY <4>2, <4>4, <5>6
                <4> QED  BY <4>3, <4>4
            <3> QED  BY <3>1, <3>3, <3>4, <3>5, <1>2, <1>4, <1>7, <1>13
        <2>7. at = "dropAssets" => \A a \in q.assets : owner'[a] = q.target
            <3>1. HAVE at = "dropAssets"
            <3>2. \A a \in k.assets : owner[a] = k.target  BY <3>1, <2>3 DEF Behind
            <3>3. q.assets = k.assets \ {b} /\ k.assets \subseteq Assets  BY <3>1, RequestTypes
            <3> QED  BY <3>2, <3>3, <1>2, <1>13
        <2> QED  BY <2>6, <2>7, <1>5, <1>6 DEF Behind
    <1> QED  BY <1>10, <1>14, <1>15

LEMMA DropAssetKeeps ==
    ASSUME BudgetInv, NEW r \in Requests, DropAsset(r) \/ DropProjectAsset(r)
    PROVE  BudgetInv'
PROOF
    <1>1. PICK k : k = req[r]  OBVIOUS
    <1>2. PICK at \in {"loop", "dropAssets"} : at = pc[r]
        BY DEF DropAsset, DropProjectAsset
    <1>3. /\ k \in Request /\ At(r, k, at) /\ Aims(k, at) /\ SoFar(k, at) /\ TablesOK
        BY <1>1, <1>2, WhereKnown DEF Working
    <1>4. at \in Working  BY <1>2 DEF Working
    <1>5. ASSUME NEW b \in Assets, NEW q \in Request, RemoveRow(b),
                 owner' = [owner EXCEPT ![b] = None], UNCHANGED << items, reserved >>,
                 Goto(r, at, q), SameSave(k, q), SoFar(q, at)', Aims(q, at)
          PROVE  BudgetInv'
        <2>1. /\ code' = [code EXCEPT ![b] = None] /\ savedBy' = [savedBy EXCEPT ![b] = 0]
            BY <1>5 DEF RemoveRow
        <2>2. b \in Rows /\ 0 \in 0..MaxRequests  BY ConstantTypes
        <2>3. TablesOK'  BY <2>1, <2>2, <1>3, <1>5 DEF TablesOK
        <2> QED  BY <2>3, <1>2, <1>3, <1>4, <1>5, WriteKeeps
    <1>6. CASE DropAsset(r)
        <2>1. PICK b \in k.drops :
                 /\ RemoveRow(b) /\ owner' = [owner EXCEPT ![b] = None]
                 /\ Goto(r, "loop", Dropped(k, b))
            BY <1>1, <1>6 DEF DropAsset, Dropped
        <2>2. PICK q : q = Dropped(k, b)  OBVIOUS
        <2>3. /\ q \in Request /\ q.drops = k.drops \ {b} /\ q.projects = k.projects
              /\ q.assets = k.assets /\ q.deletes = k.deletes
              /\ SameSave(k, q) /\ SameRow(k, q)
            BY <2>2, <1>3, DroppedFields
        <2>4. /\ at = "loop" /\ k.projects = {} /\ k.assets = {}
              /\ UNCHANGED << items, reserved >>
            BY <1>1, <1>2, <1>6 DEF DropAsset, Saving
        <2>5. b \in Assets  BY <1>3, RequestTypes
        <2>6. /\ code' = [code EXCEPT ![b] = None] /\ savedBy' = [savedBy EXCEPT ![b] = 0]
              /\ items' = items
            BY <2>1, <2>4 DEF RemoveRow
        <2>7. SoFar(q, at)'  BY <1>3, <2>1, <2>3, <2>4, <2>5, <2>6, AssetRemoved
        <2>8. Aims(q, at)  BY <1>3, <2>3, <2>4 DEF Aims, SameSave, SameRow, Finding
        <2>9. Goto(r, at, q)  BY <2>1, <2>2, <2>4
        <2> QED  BY <1>5, <2>1, <2>3, <2>4, <2>5, <2>7, <2>8, <2>9
    <1>7. CASE DropProjectAsset(r)
        <2>1. PICK b \in k.assets :
                 /\ RemoveRow(b) /\ owner' = [owner EXCEPT ![b] = None]
                 /\ Goto(r, "dropAssets", AssetDropped(k, b))
            BY <1>1, <1>7 DEF DropProjectAsset, AssetDropped
        <2>2. PICK q : q = AssetDropped(k, b)  OBVIOUS
        <2>3. /\ q \in Request /\ q.assets = k.assets \ {b} /\ q.projects = k.projects
              /\ q.drops = k.drops /\ q.deletes = k.deletes
              /\ SameSave(k, q) /\ SameRow(k, q)
            BY <2>2, <1>3, AssetDroppedFields
        <2>4. at = "dropAssets" /\ UNCHANGED << items, reserved >>
            BY <1>1, <1>2, <1>7 DEF DropProjectAsset
        <2>5. b \in Assets  BY <1>3, RequestTypes
        <2>6. /\ code' = [code EXCEPT ![b] = None] /\ savedBy' = [savedBy EXCEPT ![b] = 0]
              /\ items' = items
            BY <2>1, <2>4 DEF RemoveRow
        <2>7. SoFar(q, at)'  BY <1>3, <2>1, <2>3, <2>4, <2>5, <2>6, AssetRemoved
        <2>8. Aims(q, at)  BY <1>3, <2>3, <2>4 DEF Aims, SameSave, SameRow, Finding
        <2>9. Goto(r, at, q)  BY <2>1, <2>2, <2>4
        <2> QED  BY <1>5, <2>1, <2>3, <2>4, <2>5, <2>7, <2>8, <2>9
    <1> QED  BY <1>6, <1>7, <1>2 

\* The assets that hang below a project are read once it is deleted.
LEMMA DeletionRead ==
    ASSUME NEW k \in Request, NEW q \in Request, TablesOK, SoFar(k, "loop"),
           NEW d \in k.deletes, k.projects = {}, k.assets = {}, k.drops = {},
           SameSave(k, q), q.deletes = k.deletes \ {d}, q.target = d,
           q.assets = {a \in Assets : owner[a] = d}, q.projects = k.projects,
           q.drops = k.drops, q.parent = k.parent, q.saved = k.saved
    PROVE  SoFar(q, "dropAssets")
PROOF
    <1>1. SUFFICES ASSUME q.alone, q.payload.kind = "period"
                   PROVE  /\ Ahead(q, "dropAssets") /\ Removed(q, "dropAssets")
                          /\ KeepsAggregator(q) => Behind(q, "dropAssets")
        BY DEF SoFar
    <1>2. q.payload = k.payload /\ q.number = k.number  BY DEF SameSave
    <1>3. /\ Ahead(k, "loop") /\ Removed(k, "loop")
          /\ KeepsAggregator(k) => Behind(k, "loop")
        BY <1>1 DEF SoFar, SameSave
    <1>4. Settled(q, "dropAssets") = Settled(k, "loop")  BY <1>2 DEF Settled, Finding
    <1>5. \A a : Homes(q, a) = Homes(k, a)  BY <1>2, HomesSame
    <1>6. k.deletes \subseteq Gone(k.payload)  BY <1>3 DEF Ahead
    <1>7. Ahead(q, "dropAssets")
        <2>1. \A x \in Settled(q, "dropAssets") :
                 q.saved[x] # None /\ (q.saved[x] # x => q.payload.sent[x] = Routine)
            BY <1>2, <1>3, <1>4 DEF Ahead
        <2>2. q.target \in Gone(q.payload) \ q.deletes  BY <1>2, <1>6
        <2> QED  BY <2>1, <2>2, <1>2, <1>6 DEF Ahead, Finding
    <1>8. Removed(q, "dropAssets")
        <2>1. \A a \in TakenOut(q.payload) \ q.drops : code[a] = None
            BY <1>2, <1>3 DEF Removed
        <2>2. \A p \in Gone(q.payload) \ q.deletes :
                 IF "dropAssets" = "dropAssets" /\ q.target = p
                 THEN \A a \in Assets : owner[a] = p => a \in q.assets
                 ELSE code[p] = None /\ items[p] = {} /\ \A a \in Assets : owner[a] # p
            <3>1. TAKE p \in Gone(q.payload) \ q.deletes
            <3>2. CASE p = d  BY <3>2
            <3>3. CASE p # d
                <4>1. p \in Gone(k.payload) \ k.deletes  BY <3>3, <1>2
                <4> QED  BY <4>1, <3>3, <1>3 DEF Removed
            <3> QED  BY <3>2, <3>3
        <2> QED  BY <2>1, <2>2 DEF Removed
    <1>9. KeepsAggregator(q) => Behind(q, "dropAssets")
        <2>1. HAVE KeepsAggregator(q)
        <2>2. KeepsAggregator(k)  BY <2>1, <1>2 DEF KeepsAggregator
        <2>3. Behind(k, "loop")  BY <2>2, <1>3
        <2>4. \A x \in Settled(k, "loop") : \A a :
                 \/ "loop" # "dropAssets" /\ a \in k.assets
                 \/ "loop" \in Finding /\ k.row = a
                 \/ savedBy[a] = k.number /\ owner[a] \in Homes(k, a) /\ owner[a] # None
                 => savedBy[a] = q.number /\ owner[a] \in Homes(q, a) /\ owner[a] # None
            BY <1>2, <1>5 DEF Finding
        <2> QED  BY <2>3, <2>4, <1>2, <1>4 DEF Behind, Finding
    <1> QED  BY <1>7, <1>8, <1>9

LEMMA ReadDeletedProjectKeeps ==
    ASSUME BudgetInv, NEW r \in Requests, ReadDeletedProject(r)
    PROVE  BudgetInv'
PROOF
    <1>1. PICK k : k = req[r]  OBVIOUS
    <1>2. /\ pc[r] = "loop" /\ k.projects = {} /\ k.assets = {} /\ k.drops = {}
          /\ UNCHANGED tables /\ UNCHANGED reserved
        BY <1>1 DEF ReadDeletedProject, Saving
    <1>3. /\ k \in Request /\ At(r, k, "loop") /\ Aims(k, "loop") /\ SoFar(k, "loop")
          /\ TablesOK
        BY <1>1, <1>2, WhereKnown DEF Working
    <1>4. PICK d \in k.deletes :
             Goto(r, "dropAssets", Deleting(k, d, {a \in Assets : owner[a] = d}))
        BY <1>1 DEF ReadDeletedProject, Deleting
    <1>5. PICK mine \in SUBSET Assets : mine = {a \in Assets : owner[a] = d}  OBVIOUS
    <1>6. d \in Projects  BY <1>3, RequestTypes
    <1>7. PICK q : q = Deleting(k, d, mine)  OBVIOUS
    <1>8. /\ q \in Request /\ q.deletes = k.deletes \ {d} /\ q.target = d
          /\ q.assets = mine /\ q.projects = k.projects /\ q.drops = k.drops
          /\ q.row = k.row /\ q.parent = k.parent /\ q.sent = k.sent /\ q.saved = k.saved
          /\ SameSave(k, q)
        BY <1>3, <1>6, <1>7, DeletingFields
    <1>9. Goto(r, "dropAssets", q)  BY <1>4, <1>5, <1>7
    <1>10. SoFar(q, "dropAssets")  BY <1>2, <1>3, <1>5, <1>8, DeletionRead
    <1>11. SoFar(q, "dropAssets")' /\ TablesOK'  BY <1>2, <1>3, <1>10, TablesStay
    <1>12. q.payload = k.payload  BY <1>8 DEF SameSave
    <1>13. Aims(q, "dropAssets")  BY <1>3, <1>8, <1>12 DEF Aims, Finding
    <1> QED  BY <1>2, <1>3, <1>8, <1>9, <1>11, <1>13, WriteKeeps DEF Working

\* A project is deleted after its assets.
LEMMA ProjectRemoved ==
    ASSUME NEW k \in Request, TablesOK, SoFar(k, "dropAssets"), k.assets = {},
           code' = [code EXCEPT ![k.target] = None],
           savedBy' = [savedBy EXCEPT ![k.target] = 0],
           items' = [items EXCEPT ![k.target] = {}], owner' = owner
    PROVE  SoFar(k, "loop")'
PROOF
    <1>1. SUFFICES ASSUME k.alone, k.payload.kind = "period"
                   PROVE  /\ Ahead(k, "loop") /\ Removed(k, "loop")'
                          /\ KeepsAggregator(k) => Behind(k, "loop")'
        BY DEF SoFar
    <1>2. /\ Ahead(k, "dropAssets") /\ Removed(k, "dropAssets")
          /\ KeepsAggregator(k) => Behind(k, "dropAssets")
        BY <1>1 DEF SoFar
    <1>3. PICK y \in Payloads : y = k.payload  BY RequestTypes
    <1>4. PICK d \in Gone(y) : d = k.target /\ d \notin k.deletes  BY <1>2, <1>3 DEF Ahead
    <1>5. d \in Projects /\ d \in Rows /\ d \notin Assets
        BY <1>4, PayloadTypes, ConstantTypes
    <1>6. Settled(k, "loop") = Settled(k, "dropAssets")  BY DEF Settled, Finding
    <1>7. Ahead(k, "loop")  BY <1>2, <1>6 DEF Ahead, Finding
    <1>8. /\ savedBy \in [Rows -> 0..MaxRequests] /\ code \in [Rows -> Codes \cup {None}]
          /\ items \in [Projects -> SUBSET RequestNumbers]
        BY DEF TablesOK
    <1>9. /\ code'[d] = None /\ items'[d] = {}
          /\ \A x \in Rows : x # d => savedBy'[x] = savedBy[x] /\ code'[x] = code[x]
          /\ \A x \in Projects : x # d => items'[x] = items[x]
        BY <1>4, <1>5, <1>8
    <1>10. Removed(k, "loop")'
        <2>1. \A a \in TakenOut(k.payload) \ k.drops : code'[a] = None
            <3>1. TAKE a \in TakenOut(k.payload) \ k.drops
            <3>2. a \in Rows /\ a # d  BY <1>3, <1>5, PayloadTypes, ConstantTypes
            <3> QED  BY <3>2, <1>2, <1>9 DEF Removed
        <2>2. \A p \in Gone(k.payload) \ k.deletes :
                 code'[p] = None /\ items'[p] = {} /\ \A a \in Assets : owner'[a] # p
            <3>1. TAKE p \in Gone(k.payload) \ k.deletes
            <3>2. p \in Projects /\ p \in Rows  BY <1>3, PayloadTypes, ConstantTypes
            <3>3. CASE p = d
                <4>1. \A a \in Assets : owner[a] = d => a \in k.assets
                    BY <3>3, <1>2, <1>4 DEF Removed
                <4> QED  BY <4>1, <3>3, <1>9
            <3>4. CASE p # d
                <4>1. code[p] = None /\ items[p] = {} /\ \A a \in Assets : owner[a] # p
                    BY <3>4, <1>2, <1>4 DEF Removed
                <4> QED  BY <4>1, <3>2, <3>4, <1>9
            <3> QED  BY <3>3, <3>4
        <2> QED  BY <2>1, <2>2 DEF Removed
    <1>11. KeepsAggregator(k) => Behind(k, "loop")'
        <2>1. HAVE KeepsAggregator(k)
        <2>2. Behind(k, "dropAssets")  BY <2>1, <1>2
        <2>3. k.saved \in [Projects -> Projects \cup {None}]  BY RequestTypes
        <2>4. ASSUME NEW x \in Settled(k, "dropAssets")
              PROVE  /\ savedBy'[k.saved[x]] = k.number
                     /\ k.saved[x] \notin k.payload.changed => code'[k.saved[x]] = Routine
                     /\ x \in k.payload.pipeline => items'[k.saved[x]] = {k.number}
                     /\ \A a \in Touched(k.payload, x) :
                           savedBy'[a] = k.number /\ owner'[a] \in Homes(k, a) /\ owner'[a] # None
            <3>1. PICK s : s = k.saved[x]  OBVIOUS
            <3>2. x \in Live(y) /\ x \in Projects  BY <1>3, PayloadTypes DEF Settled
            <3>3. s # None  BY <3>1, <1>2 DEF Ahead
            <3>4. s \in Projects /\ s \in Rows /\ s # d
                BY <3>1, <3>2, <3>3, <2>1, <2>3, <1>3, <1>4, ConstantTypes DEF KeepsAggregator
            <3>5. /\ savedBy[s] = k.number
                  /\ s \notin y.changed => code[s] = Routine
                  /\ x \in y.pipeline => items[s] = {k.number}
                  /\ \A a \in Touched(y, x) :
                        savedBy[a] = k.number /\ owner[a] \in Homes(k, a) /\ owner[a] # None
                BY <2>2, <3>1, <1>3 DEF Behind, Finding
            <3>6. \A a \in Touched(y, x) : a \in Rows /\ a # d
                BY <3>2, <1>5, PayloadTypes, ConstantTypes
            <3> QED  BY <3>1, <3>4, <3>5, <3>6, <1>3, <1>9
        <2> QED  BY <2>4, <1>6 DEF Behind
    <1> QED  BY <1>7, <1>10, <1>11

LEMMA DropProjectKeeps ==
    ASSUME BudgetInv, NEW r \in Requests, DropProject(r)
    PROVE  BudgetInv'
PROOF
    <1>1. PICK k : k = req[r]  OBVIOUS
    <1>2. /\ pc[r] = "dropAssets" /\ k.assets = {}
          /\ code' = [code EXCEPT ![k.target] = None]
          /\ savedBy' = [savedBy EXCEPT ![k.target] = 0]
          /\ items' = [items EXCEPT ![k.target] = {}]
          /\ owner' = owner /\ UNCHANGED reserved /\ Goto(r, "loop", k)
        BY <1>1 DEF DropProject, RemoveRow
    <1>3. /\ k \in Request /\ At(r, k, "dropAssets") /\ Aims(k, "dropAssets")
          /\ SoFar(k, "dropAssets") /\ TablesOK
        BY <1>1, <1>2, WhereKnown DEF Working
    <1>4. SoFar(k, "loop")'  BY <1>2, <1>3, ProjectRemoved
    <1>5. 0 \in 0..MaxRequests  BY ConstantTypes
    <1>6. TablesOK'  BY <1>2, <1>3, <1>5 DEF TablesOK
    <1>7. Aims(k, "loop")  BY <1>2, <1>3 DEF Aims, Finding
    <1>8. SameSave(k, k)  BY DEF SameSave
    <1> QED  BY <1>2, <1>3, <1>4, <1>6, <1>7, <1>8, WriteKeeps DEF Working

-------------------------------------------------------------------------------
LEMMA BudgetStarts == Init => BudgetInv
PROOF
    <1>1. HAVE Init
    <1>2. \A r \in Requests : pc[r] = "idle" /\ req[r] = None  BY <1>1 DEF Init
    <1>3. BudgetTypeOK
        <2>1. 0 \in 0..MaxRequests  BY ConstantTypes
        <2>2. "idle" \in Resting \cup Working /\ "idle" \notin Working
            BY DEF Resting, Working
        <2> QED  BY <2>1, <2>2, <1>1, <1>2, BudgetAssumption DEF Init, BudgetTypeOK
    <1>4. \A r \in Requests : ~ InFlight(r) /\ pc[r] # "exhausted"
        BY <1>2 DEF InFlight, Working
    <1> QED  BY <1>3, <1>4 DEF BudgetInv, OnlyOne, InFlight, At

LEMMA BudgetRests == BudgetInv /\ UNCHANGED vars => BudgetInv'
PROOF
    <1>1. HAVE BudgetInv /\ UNCHANGED vars
    <1>2. /\ code' = code /\ owner' = owner /\ items' = items /\ savedBy' = savedBy
          /\ reserved' = reserved /\ made' = made /\ pc' = pc /\ req' = req
        BY <1>1 DEF vars
    <1>3. BudgetTypeOK' /\ OnlyOne'
        BY <1>1, <1>2 DEF BudgetInv, BudgetTypeOK, OnlyOne, InFlight
    <1>4. TablesOK /\ UNCHANGED tables  BY <1>1, <1>2, TypesAre DEF BudgetInv, tables
    <1>5. \A q, at : (SoFar(q, at) => SoFar(q, at)') /\ (Folds(q, at) => Folds(q, at)')
        BY <1>4, TablesStay
    <1>6. \A q, at : Mints(q, at) => Mints(q, at)'  BY <1>2 DEF Mints
    <1>7. \A r, q, at : At(r, q, at)' => At(r, q, at)  BY <1>2 DEF At
    <1> QED  BY <1>1, <1>2, <1>3, <1>5, <1>6, <1>7 DEF BudgetInv

LEMMA BudgetSteps == BudgetInv /\ [Next]_vars => BudgetInv'
PROOF
    <1>1. SUFFICES ASSUME BudgetInv, Next PROVE BudgetInv'  BY BudgetRests
    <1>2. PICK r \in Requests : Arrive(r) \/ Progress(r) \/ Abort(r)  BY <1>1 DEF Next
    <1>3. CASE Arrive(r)  BY <1>1, <1>3, SavePeriodKeeps, SaveRowKeeps DEF Arrive
    <1>4. CASE FindCode(r)
        BY <1>1, <1>4, ReadProjectKeeps, FindRoutineKeeps, ReadAssetKeeps, ReserveKeeps,
           ReserveFailsKeeps, ReadCodesKeeps, ReserveFailsAgainKeeps DEF FindCode
    <1>5. CASE WriteRows(r)
        BY <1>1, <1>5, UpsertRefusedKeeps, EndsKeeps, UpsertProjectKeeps, UpsertAssetKeeps,
           ItemsKeep DEF WriteRows
    <1>6. CASE Delete(r)
        BY <1>1, <1>6, DropAssetKeeps, ReadDeletedProjectKeeps, DropProjectKeeps DEF Delete
    <1>7. CASE Invalidate(r) \/ Abort(r)  BY <1>1, <1>7, EndsKeeps
    <1> QED  BY <1>2, <1>3, <1>4, <1>5, <1>6, <1>7 DEF Progress

\* What each save has sent, found, refused, written and deleted is consistent at every
\* place of its chain of awaited calls.
THEOREM BudgetInvHolds == Spec => []BudgetInv
PROOF
    <1> QED  BY BudgetStarts, BudgetSteps, PTL DEF Spec

\* Rows, sequences and requests keep their types.
THEOREM BudgetTypes == Spec => []BudgetTypeOK
PROOF
    <1>1. BudgetInv => BudgetTypeOK  BY DEF BudgetInv
    <1> QED  BY <1>1, BudgetInvHolds, PTL

\* The retries of an upsert end only when as many different codes were taken, for any
\* number of attempts, requests and codes.
THEOREM GivesUp == Spec => []GivesUpOnlyWhenCrowded
PROOF
    <1>1. BudgetInv => GivesUpOnlyWhenCrowded
        <2>1. SUFFICES ASSUME BudgetInv, NEW r \in Requests, pc[r] = "exhausted", req[r].minted
                       PROVE  Cardinality(req[r].refused) = MaxAttempts
            BY DEF GivesUpOnlyWhenCrowded
        <2>2. PICK q \in Request : q = req[r]  BY <2>1 DEF BudgetInv
        <2>3. Mints(q, "exhausted")  BY <2>1, <2>2 DEF BudgetInv, At
        <2> QED  BY <2>1, <2>2, <2>3 DEF Mints
    <1> QED  BY <1>1, BudgetInvHolds, PTL

\* The only step that marks a row as written is an upsert.
LEMMA WhoWrites ==
    ASSUME BudgetInv, Next, NEW x \in Rows, savedBy'[x] \notin {0, savedBy[x]}
    PROVE  \E r \in Requests : pc[r] = "upsert" /\ SaveRow(req[r])
PROOF
    <1>1. PICK r \in Requests : Arrive(r) \/ Progress(r) \/ Abort(r)  BY DEF Next
    <1>2. savedBy \in [Rows -> 0..MaxRequests]  BY DEF BudgetInv, BudgetTypeOK
    <1>3. \A z : ~ RemoveRow(z)  BY <1>2 DEF RemoveRow
    <1>4. savedBy' # savedBy  OBVIOUS
    <1>5. ~ UNCHANGED tables  BY <1>4 DEF tables
    <1>6. CASE Arrive(r)
        BY <1>5, <1>6 DEF Arrive, SavePeriod, SaveSingleProject, SaveSingleAsset,
                          AllocateProjectCode, Start
    <1>7. CASE FindCode(r)
        BY <1>5, <1>7 DEF FindCode, ReadProject, FindRoutine, ReadAsset, Reserve, ReserveFails,
                          ReadCodes, ReserveFailsAgain
    <1>8. CASE WriteRows(r)
        BY <1>4, <1>5, <1>8 DEF WriteRows, UpsertRefused, RoutineRefused, UpsertProject,
                                UpsertAsset, ClearItems, InsertItems
    <1>9. CASE Delete(r)
        BY <1>3, <1>5, <1>9 DEF Delete, DropAsset, ReadDeletedProject, DropProjectAsset,
                                DropProject
    <1>10. CASE Invalidate(r) \/ Abort(r)  BY <1>5, <1>10 DEF Invalidate, Abort
    <1> QED  BY <1>1, <1>6, <1>7, <1>8, <1>9, <1>10 DEF Progress

\* A save writes no row but those it was sent and the routine aggregator, in every
\* interleaving with other saves.
THEOREM NoForeign == Spec => NoForeignOverwrite
PROOF
    <1>1. ASSUME BudgetInv, [Next]_vars, NEW x \in Rows, savedBy'[x] \notin {0, savedBy[x]}
          PROVE  \E r \in Requests :
                    /\ InFlight(r) /\ savedBy'[x] = req[r].number
                    /\ \/ x \in SentRows(req[r].payload)
                       \/ code'[x] = Routine /\ (req[r].alone => code[x] = Routine)
        <2>1. Next  BY <1>1 DEF vars
        <2>2. PICK r \in Requests : pc[r] = "upsert" /\ SaveRow(req[r])
            BY <1>1, <2>1, WhoWrites
        <2>3. PICK k : k = req[r]  OBVIOUS
        <2>4. /\ k \in Request /\ Aims(k, "upsert") /\ Folds(k, "upsert") /\ TablesOK
            BY <1>1, <2>2, <2>3, WhereKnown DEF Working
        <2>5. /\ savedBy' = [savedBy EXCEPT ![k.target] = k.number]
              /\ code' = [code EXCEPT ![k.target] = k.want]
            BY <2>2, <2>3 DEF SaveRow
        <2>6. /\ savedBy \in [Rows -> 0..MaxRequests] /\ code \in [Rows -> Codes \cup {None}]
            BY <2>4 DEF TablesOK
        <2>7. x = k.target /\ savedBy'[x] = k.number /\ code'[x] = k.want
            BY <1>1, <2>5, <2>6
        <2>8. InFlight(r)  BY <2>2 DEF InFlight, Working
        <2>9. k.payload.kind # "code"  BY <2>4 DEF Aims
        <2>10. CASE k.target = k.row
            <3>1. x \in SentRows(k.payload)  BY <2>4, <2>7, <2>9, <2>10 DEF Aims, Finding
            <3> QED  BY <3>1, <2>3, <2>7, <2>8
        <2>11. CASE k.target # k.row
            <3>1. k.want = Routine  BY <2>4, <2>9, <2>11 DEF Aims, Finding
            <3>2. k.alone => code[x] = Routine  BY <2>4, <2>7, <2>11 DEF Folds
            <3> QED  BY <3>1, <3>2, <2>3, <2>7, <2>8
        <2> QED  BY <2>10, <2>11
    <1>2. BudgetInv /\ [Next]_vars =>
             \A x \in Rows : savedBy'[x] \notin {0, savedBy[x]} =>
                \E r \in Requests :
                   /\ InFlight(r) /\ savedBy'[x] = req[r].number
                   /\ \/ x \in SentRows(req[r].payload)
                      \/ code'[x] = Routine /\ (req[r].alone => code[x] = Routine)
        BY <1>1
    <1> QED  BY <1>2, BudgetInvHolds, PTL DEF Spec, NoForeignOverwrite

\* Only Invalidate answers the save of a period.
LEMMA WhoAnswers ==
    ASSUME BudgetInv, Next, NEW r \in Requests, InFlight(r), req[r].payload.kind = "period",
           pc'[r] = "idle"
    PROVE  Invalidate(r)
PROOF
    <1>1. PICK s \in Requests : Arrive(s) \/ Progress(s) \/ Abort(s)  BY DEF Next
    <1>2. pc \in [Requests -> Resting \cup Working] /\ pc[r] \in Working
        BY DEF BudgetInv, BudgetTypeOK, InFlight
    <1>3. \A v : pc' = [pc EXCEPT ![s] = v] => s = r /\ v = "idle"
        BY <1>2 DEF Working
    <1>4. \A q : \A to \in Working : ~ Goto(s, to, q)  BY <1>3 DEF Goto, Working
    <1>5. \A out \in {"failed", "exhausted"} : ~ Throw(s, out)  BY <1>3 DEF Throw
    <1>6. \A q, c : Found(s, q, c) => s = r /\ q.payload.kind = "code"
        BY <1>3, <1>4, <1>5 DEF Found, Answer, Goto, Working
    <1>7. CASE Arrive(s)
        <2>1. ASSUME NEW to \in Working, NEW q, Start(s, to, q)  PROVE FALSE
            <3>1. pc' = [pc EXCEPT ![s] = to]  BY <2>1 DEF Start
            <3> QED  BY <3>1, <1>3 DEF Working
        <2> QED  BY <2>1, <1>7 DEF Arrive, SavePeriod, SaveSingleProject, SaveSingleAsset,
                                   AllocateProjectCode, Working
    <1>8. CASE ReadProject(s) \/ FindRoutine(s) \/ ReadAsset(s) \/ ReserveFails(s)
        <2>1. ReadProject(s) => \E q : \E to \in Working : Goto(s, to, q)
            BY DEF ReadProject, Working
        <2>2. ~ ReadProject(s)  BY <2>1, <1>4
        <2>3. ~ FindRoutine(s)  BY <1>4 DEF FindRoutine, Working
        <2>4. ReadAsset(s) => \E q : \E to \in Working : Goto(s, to, q)
            BY DEF ReadAsset, Working
        <2>5. ~ ReserveFails(s)  BY <1>4 DEF ReserveFails, Working
        <2> QED  BY <2>2, <2>3, <2>4, <2>5, <1>4, <1>8
    <1>9. CASE Reserve(s)  BY <1>6, <1>9 DEF Reserve
    <1>10. CASE ReserveFailsAgain(s)
        <2>1. s = r /\ Unminted(req[r]).payload.kind = "code"
            BY <1>6, <1>10 DEF ReserveFailsAgain, Unminted
        <2>2. req[r] \in Request  BY DEF BudgetInv, BudgetTypeOK, InFlight
        <2>3. Unminted(req[r]).payload = req[r].payload  BY <2>2, UnmintedFields DEF SameSave
        <2> QED  BY <2>1, <2>3
    <1>11. CASE ReadCodes(s)
        <2>1. \A q : ~ Goto(s, "reserveAgain", q)  BY <1>4 DEF Working
        <2>2. \E c : Found(s, req[s], c)  BY <2>1, <1>11 DEF ReadCodes
        <2> QED  BY <2>2, <1>6
    <1>12. CASE WriteRows(s)
        <2>1. \A q : \A to \in {"loop", "clearItems", "insertItems", "readCodes", "reserve"} :
                 ~ Goto(s, to, q)
            BY <1>4 DEF Working
        <2>2. ~ UpsertRefused(s) /\ ~ UpsertProject(s) /\ ~ UpsertAsset(s)
            BY <2>1 DEF UpsertRefused, UpsertProject, UpsertAsset
        <2> QED  BY <2>1, <2>2, <1>5, <1>12
                 DEF WriteRows, RoutineRefused, ClearItems, InsertItems
    <1>13. CASE Delete(s)
        <2>1. \A q : ~ Goto(s, "loop", q) /\ ~ Goto(s, "dropAssets", q)  BY <1>4 DEF Working
        <2> QED  BY <2>1, <1>13 DEF Delete, DropAsset, ReadDeletedProject, DropProjectAsset,
                                    DropProject
    <1>14. CASE Invalidate(s)  BY <1>3, <1>14 DEF Invalidate, Answer, Goto
    <1>15. CASE Abort(s)  BY <1>5, <1>15 DEF Abort
    <1> QED  BY <1>1, <1>7, <1>8, <1>9, <1>10, <1>11, <1>12, <1>13, <1>14, <1>15
             DEF Progress, FindCode

\* A period save that had the tables to itself is answered only when every row it was
\* sent is written below its project and everything else it was told to delete is gone.
THEOREM WholeSaves == Spec => AnsweredSaveIsWhole
PROOF
    <1>1. ASSUME BudgetInv, [Next]_vars, NEW r \in Requests, InFlight(r), req[r].alone,
                 req[r].payload.kind = "period", pc'[r] = "idle", KeepsAggregator(req[r])
          PROVE  Whole(req[r])
        <2>1. PICK k : k = req[r]  OBVIOUS
        <2>2. pc[r] # "idle"  BY <1>1 DEF InFlight, Working
        <2>3. Next  BY <1>1, <2>2 DEF vars
        <2>4. Invalidate(r)  BY <1>1, <2>3, WhoAnswers
        <2>5. /\ pc[r] = "loop" /\ k.projects = {} /\ k.assets = {}
              /\ k.drops = {} /\ k.deletes = {}
            BY <2>1, <2>4 DEF Invalidate, Saving
        <2>6. k \in Request /\ SoFar(k, "loop")
            BY <1>1, <2>1, <2>5, WhereKnown DEF Working
        <2>7. Ahead(k, "loop") /\ Behind(k, "loop") /\ Removed(k, "loop")
            BY <1>1, <2>1, <2>6 DEF SoFar
        <2>8. PICK y : y = k.payload  OBVIOUS
        <2>9. Settled(k, "loop") = Live(y)  BY <2>5, <2>8 DEF Settled, Finding
        <2>10. ASSUME NEW p \in Live(y)
               PROVE  /\ k.saved[p] # None /\ savedBy[k.saved[p]] = k.number
                      /\ k.saved[p] # p => y.sent[p] = Routine
                      /\ k.saved[p] \notin y.changed => code[k.saved[p]] = Routine
                      /\ p \in y.pipeline => items[k.saved[p]] = {k.number}
                      /\ \A a \in Touched(y, p) :
                            /\ savedBy[a] = k.number
                            /\ \E x \in Live(y) : a \in Touched(y, x) /\ owner[a] = k.saved[x]
            <3>1. /\ k.saved[p] # None /\ (k.saved[p] # p => y.sent[p] = Routine)
                BY <2>7, <2>8, <2>9 DEF Ahead
            <3>2. /\ savedBy[k.saved[p]] = k.number
                  /\ k.saved[p] \notin y.changed => code[k.saved[p]] = Routine
                  /\ p \in y.pipeline => items[k.saved[p]] = {k.number}
                  /\ \A a \in Touched(y, p) : savedBy[a] = k.number /\ owner[a] \in Homes(k, a)
                BY <2>5, <2>7, <2>8, <2>9 DEF Behind, Finding
            <3>3. \A a \in Touched(y, p) :
                     \E x \in Live(y) : a \in Touched(y, x) /\ owner[a] = k.saved[x]
                BY <3>2, <2>8 DEF Homes
            <3> QED  BY <3>1, <3>2, <3>3
        <2>11. \A a \in y.touched \ Present(y) : code[a] = None
            BY <2>5, <2>7, <2>8 DEF Removed, TakenOut
        <2>12. \A p \in Gone(y) :
                  code[p] = None /\ items[p] = {} /\ \A a \in Assets : owner[a] # p
            BY <2>5, <2>7, <2>8 DEF Removed
        <2> QED  BY <2>1, <2>8, <2>10, <2>11, <2>12 DEF Whole
    <1>2. BudgetInv /\ [Next]_vars =>
             \A r \in Requests :
                /\ InFlight(r) /\ req[r].alone /\ req[r].payload.kind = "period"
                /\ pc'[r] = "idle" /\ KeepsAggregator(req[r])
                => Whole(req[r])
        BY <1>1
    <1> QED  BY <1>2, BudgetInvHolds, PTL DEF Spec, AnsweredSaveIsWhole

-------------------------------------------------------------------------------
(* OrderPages *)


\* The assets whose order was reported, is about to be, or was given up on.
Accounted == triggered \cup forgone \cup UNION {screens[u].calls : u \in PoUsers}

\* No line shows an order that is not accounted for.
Known(lines, A) == \A i \in DOMAIN lines : IsOrdered(lines[i]) => i \in A

\* The order page lists all assets.
PageOf(u) == IF u \in PoUsers THEN [Items -> Line] ELSE Lines

HasCopy(s) == s.edited # NoCopy \/ s.dirty

PageKnown(u, s, A) ==
    /\ s.shown \in PageOf(u) /\ Known(s.shown, A)
    /\ s.base \in PageOf(u) /\ Known(s.base, A)
    /\ HasCopy(s) => s.edited \in PageOf(u)
    /\ u \in PoUsers => s.has \subseteq A
    /\ u \in GrUsers /\ HasCopy(s) => Known(s.edited, A)

BundleKnown(b, A) ==
    b # NoCopy => b.shown \in [Items -> Line] /\ Known(b.shown, A) /\ b.has \subseteq A

OrdersInv ==
    /\ OrdersTypeOK
    /\ \A u \in OrderUsers : PageKnown(u, screens[u], Accounted)
    /\ \A u \in PoUsers : BundleKnown(bundles[u], Accounted)
    /\ Known(assetRows, Accounted)

-------------------------------------------------------------------------------
(* Lines and pages *)

LEMMA LinesFrom ==
    ASSUME NEW S, S \subseteq Items, NEW f, f \in [S -> Line]
    PROVE  f \in Lines
BY DEF Lines

LEMMA LinesTo ==
    ASSUME NEW f, f \in Lines
    PROVE  DOMAIN f \subseteq Items /\ f \in [DOMAIN f -> Line]
BY DEF Lines

LEMMA PageIsLines ==
    ASSUME NEW u, NEW f, f \in PageOf(u)
    PROVE  /\ f \in Lines /\ DOMAIN f \subseteq Items /\ f \in [DOMAIN f -> Line]
           /\ u \in PoUsers => DOMAIN f = Items
BY LinesFrom, LinesTo DEF PageOf

\* Lines over the same assets make a page again.
LEMMA PageAgain ==
    ASSUME NEW u, NEW f, f \in PageOf(u), NEW g, g \in [DOMAIN f -> Line]
    PROVE  g \in PageOf(u)
BY PageIsLines, LinesFrom DEF PageOf

LEMMA KnownGrows ==
    ASSUME NEW A, NEW B, A \subseteq B
    PROVE  /\ \A lines : Known(lines, A) => Known(lines, B)
           /\ \A u, s : PageKnown(u, s, A) => PageKnown(u, s, B)
           /\ \A b : BundleKnown(b, A) => BundleKnown(b, B)
<1>1. \A lines : Known(lines, A) => Known(lines, B)
  BY DEF Known
<1> QED BY <1>1 DEF PageKnown, BundleKnown

LEMMA FollowKnown ==
    ASSUME NEW u, NEW s \in Screen, NEW A, PageKnown(u, s, A)
    PROVE  /\ Follow(s) \in Screen /\ PageKnown(u, Follow(s), A)
           /\ Follow(s).calls = s.calls
BY DEF Follow, Screen, PageKnown, HasCopy

LEMMA OpenedKnown ==
    ASSUME NEW u, NEW s \in Screen, NEW A, PageKnown(u, s, A)
    PROVE  /\ Opened1(s) \in Screen /\ PageKnown(u, Opened1(s), A)
           /\ Opened1(s).edited \in PageOf(u)
           /\ u \in GrUsers => Known(Opened1(s).edited, A)
           /\ Opened1(s).calls = s.calls
BY DEF Opened1, Screen, PageKnown, HasCopy

LEMMA OnScreenKnown ==
    ASSUME NEW u, NEW s \in Screen, NEW A, PageKnown(u, s, A)
    PROVE  /\ OnScreen(s) \in PageOf(u)
           /\ u \in GrUsers => Known(OnScreen(s), A)
BY DEF OnScreen, Screen, PageKnown, HasCopy

-------------------------------------------------------------------------------
(* One page changes *)

LEMMA PageChanges ==
    ASSUME OrdersInv, NEW u \in OrderUsers, NEW s \in Screen,
           screens' = [screens EXCEPT ![u] = s], PageKnown(u, s, Accounted),
           triggered \subseteq triggered', forgone \subseteq forgone',
           screens[u].calls \subseteq s.calls \cup triggered' \cup forgone'
    PROVE  /\ Accounted \subseteq Accounted'
           /\ screens' \in [OrderUsers -> Screen]
           /\ \A v \in OrderUsers : PageKnown(v, screens'[v], Accounted')
<1>1. screens \in [OrderUsers -> Screen]
  BY DEF OrdersInv, OrdersTypeOK
<1>2. Accounted \subseteq Accounted'
  <2> SUFFICES ASSUME NEW i, i \in UNION {screens[v].calls : v \in PoUsers}
               PROVE  i \in Accounted'
    BY DEF Accounted
  <2>1. PICK v \in PoUsers : i \in screens[v].calls
    OBVIOUS
  <2>2. CASE v = u
    <3>1. screens'[v].calls = s.calls
      BY <1>1, <2>2
    <3> QED BY <2>1, <2>2, <3>1 DEF Accounted
  <2>3. CASE v # u
    <3>1. screens'[v].calls = screens[v].calls
      BY <1>1, <2>3
    <3> QED BY <2>1, <3>1 DEF Accounted
  <2> QED BY <2>2, <2>3
<1>3. screens' \in [OrderUsers -> Screen]
  BY <1>1
<1>4. \A v \in OrderUsers : PageKnown(v, screens'[v], Accounted)
  BY <1>1 DEF OrdersInv
<1> QED BY <1>2, <1>3, <1>4, KnownGrows

\* What else a step has to show.
LEMMA OrdersKeep ==
    ASSUME OrdersInv, NEW u \in OrderUsers, NEW s \in Screen,
           screens' = [screens EXCEPT ![u] = s], PageKnown(u, s, Accounted),
           triggered \subseteq triggered', triggered' \subseteq Items,
           forgone \subseteq forgone', forgone' \subseteq Items,
           screens[u].calls \subseteq s.calls \cup triggered' \cup forgone',
           assetRows' \in [Items -> AssetRow], Known(assetRows', Accounted'),
           strokes' \in 0..MaxStrokes, UNCHANGED bundles
    PROVE  OrdersInv'
<1>1. /\ Accounted \subseteq Accounted'
      /\ screens' \in [OrderUsers -> Screen]
      /\ \A v \in OrderUsers : PageKnown(v, screens'[v], Accounted')
  BY PageChanges
<1>2. \A v \in PoUsers : BundleKnown(bundles'[v], Accounted')
  BY <1>1, KnownGrows DEF OrdersInv
<1> QED BY <1>1, <1>2 DEF OrdersInv, OrdersTypeOK

\* The same for a step that leaves rows and reports alone.
LEMMA PageStep ==
    ASSUME OrdersInv, NEW u \in OrderUsers, NEW s \in Screen,
           screens' = [screens EXCEPT ![u] = s], PageKnown(u, s, Accounted),
           s.calls = screens[u].calls, strokes' \in 0..MaxStrokes,
           UNCHANGED << assetRows, triggered, forgone, bundles >>
    PROVE  OrdersInv'
<1>1. Accounted \subseteq Accounted'
  BY PageChanges
<1>2. Known(assetRows', Accounted')
  BY <1>1, KnownGrows DEF OrdersInv
<1>3. /\ assetRows' \in [Items -> AssetRow]
      /\ triggered' \subseteq Items /\ forgone' \subseteq Items
  BY DEF OrdersInv, OrdersTypeOK
<1> QED BY <1>2, <1>3, OrdersKeep

LEMMA RowsWritten ==
    ASSUME OrdersInv, NEW A, Accounted \subseteq A, NEW S, S \subseteq Items, NEW rows,
           PersistRows(rows, S),
           \A i \in S : rows[i] \in AssetRow /\ (IsOrdered(rows[i]) => i \in A)
    PROVE  assetRows' \in [Items -> AssetRow] /\ Known(assetRows', A)
<1>1. assetRows \in [Items -> AssetRow] /\ Known(assetRows, A)
  BY KnownGrows DEF OrdersInv, OrdersTypeOK
<1> QED BY <1>1 DEF PersistRows, Known

-------------------------------------------------------------------------------
(* Loading *)

LEMMA OnPageLine ==
    ASSUME NEW row \in AssetRow
    PROVE  /\ OnPage(row) \in Line
           /\ [OnPage(row) EXCEPT !.qty = 1, !.received = 0] \in Line
           /\ IsOrdered(OnPage(row)) => IsOrdered(row)
           /\ IsOrdered([OnPage(row) EXCEPT !.qty = 1, !.received = 0]) => IsOrdered(row)
<1>1. /\ row.po \in BOOLEAN /\ row.spent \in BOOLEAN
      /\ row.qty \in 1..MaxQty /\ row.received \in 0..MaxQty
      /\ 1 \in 1..MaxQty /\ 0 \in 0..MaxQty
  BY OrderPagesAssumption DEF AssetRow
<1>2. AllReceived(row) \in BOOLEAN
  BY DEF AllReceived
<1>3. OnPage(row) \in Line /\ OnPage(row).po = row.po /\ OnPage(row).spent = row.spent
  BY <1>1, <1>2 DEF OnPage, Line
<1>4. /\ [OnPage(row) EXCEPT !.qty = 1, !.received = 0] \in Line
      /\ [OnPage(row) EXCEPT !.qty = 1, !.received = 0].po = row.po
      /\ [OnPage(row) EXCEPT !.qty = 1, !.received = 0].spent = row.spent
  BY <1>1, <1>3 DEF Line
<1> QED BY <1>3, <1>4 DEF IsOrdered

LEMMA LoadsKnown ==
    ASSUME assetRows \in [Items -> AssetRow], Known(assetRows, Accounted), triggered \subseteq Items
    PROVE  /\ PoLines \in [Items -> Line] /\ Known(PoLines, Accounted)
           /\ HasPo \subseteq Accounted /\ HasPo \subseteq Items
           /\ GrLines \in Lines /\ Known(GrLines, Accounted)
<1>1. PoLines \in [Items -> Line] /\ Known(PoLines, Accounted)
  BY OnPageLine DEF PoLines, Known
<1>2. HasPo \subseteq Accounted /\ HasPo \subseteq Items
  BY DEF HasPo, Known, IsOrdered, Accounted
<1>3. GrLines \in Lines /\ Known(GrLines, Accounted)
  <2> DEFINE S == {j \in Items : IsOrdered(assetRows[j]) \/ AllReceived(assetRows[j])}
  <2>1. GrLines \in [S -> Line] /\ Known(GrLines, Accounted)
    BY OnPageLine DEF GrLines, Known
  <2> QED BY <2>1, LinesFrom
<1> QED BY <1>1, <1>2, <1>3

LEMMA ShownKnown ==
    ASSUME NEW u, NEW s \in Screen, NEW A, PageKnown(u, s, A),
           NEW lines, lines \in PageOf(u), Known(lines, A),
           NEW has, has \subseteq Items, has \subseteq A
    PROVE  /\ Shown(s, lines, has) \in Screen /\ PageKnown(u, Shown(s, lines, has), A)
           /\ Shown(s, lines, has).calls = s.calls
<1> DEFINE t == [s EXCEPT !.shown = lines, !.has = has]
<1>1. t \in Screen /\ PageKnown(u, t, A) /\ t.calls = s.calls
  BY PageIsLines DEF Screen, PageKnown, HasCopy
<1> HIDE DEF t
<1>2. Follow(t) \in Screen /\ PageKnown(u, Follow(t), A) /\ Follow(t).calls = t.calls
  BY <1>1, FollowKnown
<1> QED BY <1>1, <1>2 DEF Shown, t

LEMMA ShowsKnown ==
    ASSUME OrdersInv, NEW u \in OrderUsers,
           NEW lines, lines \in PageOf(u), Known(lines, Accounted),
           NEW has, has \subseteq Items, has \subseteq Accounted,
           ShowLines(u, lines, has), UNCHANGED << assetRows, triggered, forgone >>
    PROVE  /\ Accounted \subseteq Accounted'
           /\ screens' \in [OrderUsers -> Screen]
           /\ \A v \in OrderUsers : PageKnown(v, screens'[v], Accounted')
           /\ Known(assetRows', Accounted')
<1> DEFINE s == Shown(screens[u], lines, has)
<1>1. screens[u] \in Screen /\ PageKnown(u, screens[u], Accounted)
  BY DEF OrdersInv, OrdersTypeOK
<1>2. s \in Screen /\ PageKnown(u, s, Accounted) /\ s.calls = screens[u].calls
  BY <1>1, ShownKnown
<1>3. screens' = [screens EXCEPT ![u] = s]
  BY DEF ShowLines
<1> HIDE DEF s
<1>4. /\ Accounted \subseteq Accounted'
      /\ screens' \in [OrderUsers -> Screen]
      /\ \A v \in OrderUsers : PageKnown(v, screens'[v], Accounted')
  BY <1>2, <1>3, PageChanges
<1> QED BY <1>4, KnownGrows DEF OrdersInv

LEMMA PoLoadInv ==
    ASSUME OrdersInv, NEW u \in PoUsers, PoLoad(u) \/ PoLoadCached(u)
    PROVE  OrdersInv'
<1>1. u \in OrderUsers /\ PageOf(u) = [Items -> Line]
  BY DEF OrderUsers, PageOf
<1>2. /\ bundles \in [PoUsers -> Bundle \cup {NoCopy}] /\ strokes \in 0..MaxStrokes
      /\ assetRows \in [Items -> AssetRow] /\ triggered \subseteq Items /\ forgone \subseteq Items
      /\ \A v \in PoUsers : BundleKnown(bundles[v], Accounted)
      /\ Known(assetRows, Accounted)
  BY DEF OrdersInv, OrdersTypeOK
<1>3. CASE PoLoad(u)
  <2> DEFINE b == [shown |-> PoLines, has |-> HasPo]
  <2>1. b \in Bundle /\ BundleKnown(b, Accounted)
    BY <1>2, LoadsKnown, LinesFrom DEF BundleKnown, Bundle
  <2>2. /\ Accounted \subseteq Accounted'
        /\ screens' \in [OrderUsers -> Screen]
        /\ \A v \in OrderUsers : PageKnown(v, screens'[v], Accounted')
        /\ Known(assetRows', Accounted')
    BY <1>1, <1>2, <1>3, LoadsKnown, ShowsKnown DEF PoLoad
  <2>3. bundles' = [bundles EXCEPT ![u] = b]
    BY <1>3 DEF PoLoad
  <2> HIDE DEF b
  <2>4. /\ bundles' \in [PoUsers -> Bundle \cup {NoCopy}]
        /\ \A v \in PoUsers : BundleKnown(bundles'[v], Accounted')
    BY <1>2, <2>1, <2>2, <2>3, KnownGrows
  <2> QED BY <1>2, <1>3, <2>2, <2>4 DEF PoLoad, OrdersInv, OrdersTypeOK
<1>4. CASE PoLoadCached(u)
  <2>1. /\ bundles[u].shown \in PageOf(u) /\ Known(bundles[u].shown, Accounted)
        /\ bundles[u].has \subseteq Items /\ bundles[u].has \subseteq Accounted
        /\ ShowLines(u, bundles[u].shown, bundles[u].has)
    BY <1>1, <1>2, <1>4 DEF PoLoadCached, BundleKnown, Bundle
  <2>2. /\ Accounted \subseteq Accounted'
        /\ screens' \in [OrderUsers -> Screen]
        /\ \A v \in OrderUsers : PageKnown(v, screens'[v], Accounted')
        /\ Known(assetRows', Accounted')
    BY <1>1, <1>4, <2>1, ShowsKnown DEF PoLoadCached
  <2>3. \A v \in PoUsers : BundleKnown(bundles'[v], Accounted')
    BY <1>2, <1>4, <2>2, KnownGrows DEF PoLoadCached
  <2> QED BY <1>2, <1>4, <2>2, <2>3 DEF PoLoadCached, OrdersInv, OrdersTypeOK
<1> QED BY <1>3, <1>4

LEMMA GrLoadInv ==
    ASSUME OrdersInv, NEW u \in GrUsers, GrLoad(u)
    PROVE  OrdersInv'
<1>1. /\ u \in OrderUsers /\ GrLines \in PageOf(u) /\ Known(GrLines, Accounted)
  BY LoadsKnown, OrderPagesAssumption DEF OrderUsers, PageOf, OrdersInv, OrdersTypeOK
<1>2. /\ Accounted \subseteq Accounted'
      /\ screens' \in [OrderUsers -> Screen]
      /\ \A v \in OrderUsers : PageKnown(v, screens'[v], Accounted')
      /\ Known(assetRows', Accounted')
  BY <1>1, ShowsKnown DEF GrLoad
<1>3. \A v \in PoUsers : BundleKnown(bundles'[v], Accounted')
  BY <1>2, KnownGrows DEF GrLoad, OrdersInv
<1> QED BY <1>2, <1>3 DEF GrLoad, OrdersInv, OrdersTypeOK

-------------------------------------------------------------------------------
(* Editing *)

LEMMA EditKnown ==
    ASSUME OrdersInv, NEW u \in OrderUsers, NEW i \in Items,
           NEW lines, lines \in PageOf(u), u \in GrUsers => Known(lines, Accounted),
           Edit1(u, i, lines)
    PROVE  OrdersInv'
<1> DEFINE t == Opened1(screens[u])
           s == Stroked(screens[u], i, lines)
<1>1. screens[u] \in Screen /\ PageKnown(u, screens[u], Accounted)
  BY DEF OrdersInv, OrdersTypeOK
<1>2. t \in Screen /\ PageKnown(u, t, Accounted) /\ t.calls = screens[u].calls
  BY <1>1, OpenedKnown
<1>3. screens' = [screens EXCEPT ![u] = s]
  BY DEF Edit1
<1>4. s = [t EXCEPT !.edited = lines, !.dirty = TRUE, !.touched = @ \cup {i}]
  BY Zenon DEF Stroked
<1> HIDE DEF t, s
<1>5. s \in Screen /\ PageKnown(u, s, Accounted) /\ s.calls = t.calls
  BY <1>2, <1>4, PageIsLines DEF Screen, PageKnown, HasCopy
<1>6. /\ strokes' \in 0..MaxStrokes
      /\ UNCHANGED << assetRows, triggered, forgone, bundles >>
  <2>1. strokes \in 0..MaxStrokes /\ MaxStrokes \in Nat
    BY OrderPagesAssumption DEF OrdersInv, OrdersTypeOK
  <2>2. strokes < MaxStrokes /\ strokes' = strokes + 1
    BY DEF Edit1
  <2>3. strokes' \in 0..MaxStrokes
    BY <2>1, <2>2
  <2> QED BY <2>3 DEF Edit1
<1> QED BY <1>2, <1>3, <1>5, <1>6, PageStep

\* The edited line and those the table lists make a page again.
LEMMA ListedKnown ==
    ASSUME NEW u, NEW s \in Screen, NEW A, PageKnown(u, s, A), NEW listed,
           NEW i, NEW line \in Line, u \in GrUsers /\ IsOrdered(line) => i \in A
    PROVE  /\ WithListed(s, listed, i, line) \in [DOMAIN Opened1(s).edited -> Line]
           /\ WithListed(s, listed, i, line) \in PageOf(u)
           /\ u \in GrUsers => Known(WithListed(s, listed, i, line), A)
<1> DEFINE mine == Opened1(s).edited
<1>1. /\ mine \in PageOf(u) /\ (u \in GrUsers => Known(mine, A))
      /\ OnScreen(s) \in PageOf(u) /\ (u \in GrUsers => Known(OnScreen(s), A))
  BY OpenedKnown, OnScreenKnown
<1>2. mine \in [DOMAIN mine -> Line] /\ OnScreen(s) \in [DOMAIN OnScreen(s) -> Line]
  BY <1>1, PageIsLines
<1>3. WithListed(s, listed, i, line) =
        [j \in DOMAIN mine |->
            IF j = i THEN line
            ELSE IF j \in listed \cap DOMAIN OnScreen(s) THEN OnScreen(s)[j] ELSE mine[j]]
  BY DEF WithListed
<1> HIDE DEF mine
<1>4. WithListed(s, listed, i, line) \in [DOMAIN mine -> Line]
  BY <1>2, <1>3
<1>5. u \in GrUsers => Known(WithListed(s, listed, i, line), A)
  BY <1>1, <1>3 DEF Known
<1>6. WithListed(s, listed, i, line) \in PageOf(u)
  BY <1>1, <1>4, PageAgain
<1> QED BY <1>4, <1>5, <1>6 DEF mine

LEMMA PoEditInv ==
    ASSUME OrdersInv, NEW u \in PoUsers, NEW i \in Items,
           PoSent(u, i) \/ \E listed \in {Items, {i}} : PoCell(u, i, listed)
    PROVE  OrdersInv'
<1> DEFINE s == screens[u]
<1>1. /\ u \in OrderUsers /\ u \notin GrUsers
      /\ s \in Screen /\ PageKnown(u, s, Accounted)
  BY OrderPagesAssumption DEF OrderUsers, OrdersInv, OrdersTypeOK
<1>2. /\ OnScreen(s) \in [Items -> Line]
      /\ Opened1(s).edited \in PageOf(u) /\ Opened1(s).edited \in [Items -> Line]
  BY <1>1, OnScreenKnown, OpenedKnown DEF PageOf
<1>3. CASE PoSent(u, i)
  <2> DEFINE mine == Opened1(s).edited
  <2>1. SentLine(mine[i]) \in Line
    <3>1. mine[i] \in Line
      BY <1>2
    <3> HIDE DEF mine
    <3> QED BY <3>1 DEF SentLine, Line
  <2>2. [mine EXCEPT ![i] = SentLine(@)] \in PageOf(u)
    BY <1>2, <2>1, PageAgain
  <2>3. Edit1(u, i, [mine EXCEPT ![i] = SentLine(@)])
    BY <1>3 DEF PoSent
  <2> HIDE DEF mine
  <2> QED BY <1>1, <2>2, <2>3, EditKnown
<1>4. ASSUME NEW listed \in {Items, {i}}, PoCell(u, i, listed)
      PROVE  OrdersInv'
  <2> DEFINE old == OnScreen(s)[i]
  <2>1. PICK line \in {[old EXCEPT !.po = ~@], [old EXCEPT !.spent = ~@],
                       [old EXCEPT !.cpr = ~@]}
                      \cup {[old EXCEPT !.date = d] : d \in {NoDate, Earlier, Today}} :
            Edit1(u, i, WithListed(s, listed, i, line))
    BY <1>4 DEF PoCell
  <2>2. old \in Line
    BY <1>2
  <2> HIDE DEF old
  <2>3. line \in Line
    BY <2>1, <2>2 DEF Line
  <2>4. WithListed(s, listed, i, line) \in PageOf(u)
    BY <1>1, <2>3, ListedKnown
  <2> QED BY <1>1, <2>1, <2>4, EditKnown
<1> QED BY <1>3, <1>4

LEMMA RecountLine ==
    ASSUME NEW line \in Line
    PROVE  Recount(line) \in Line /\ (IsOrdered(Recount(line)) <=> IsOrdered(line))
<1>1. /\ line.qty \in 1..MaxQty /\ line.received \in 0..MaxQty /\ MaxQty \in Nat
      /\ line.po \in BOOLEAN /\ line.spent \in BOOLEAN
  BY OrderPagesAssumption DEF Line
<1> DEFINE n == IF line.received > line.qty THEN line.qty ELSE line.received
<1>2. n \in 0..MaxQty /\ (n = line.qty) \in BOOLEAN
  BY <1>1
<1>3. Recount(line) = [line EXCEPT !.received = n, !.flag = (n = line.qty)]
  BY DEF Recount
<1> DEFINE full == n = line.qty
<1>4. Recount(line) = [line EXCEPT !.received = n, !.flag = full] /\ full \in BOOLEAN
  BY <1>2, <1>3
<1> HIDE DEF n, full
<1>5. Recount(line) \in Line /\ Recount(line).po = line.po /\ Recount(line).spent = line.spent
  BY <1>2, <1>4 DEF Line
<1> QED BY <1>5 DEF IsOrdered

LEMMA GrEditInv ==
    ASSUME OrdersInv, NEW u \in GrUsers, NEW i \in DOMAIN OnScreen(screens[u]),
           \/ \E all \in BOOLEAN : GrMark(u, i, all)
           \/ \E listed \in {Items, {i}}, n \in 0..MaxQty : GrCell(u, i, listed, n)
    PROVE  OrdersInv'
<1> DEFINE s == screens[u]
           mine == Opened1(s).edited
<1>1. u \in OrderUsers /\ s \in Screen /\ PageKnown(u, s, Accounted)
  BY DEF OrderUsers, OrdersInv, OrdersTypeOK
<1>2. /\ mine \in PageOf(u) /\ Known(mine, Accounted)
      /\ OnScreen(s) \in PageOf(u) /\ Known(OnScreen(s), Accounted)
  BY <1>1, OpenedKnown, OnScreenKnown
<1>3. /\ mine \in [DOMAIN mine -> Line] /\ OnScreen(s) \in [DOMAIN OnScreen(s) -> Line]
      /\ i \in Items
  BY <1>2, PageIsLines
<1>4. ASSUME NEW all \in BOOLEAN, GrMark(u, i, all)
      PROVE  OrdersInv'
  <2> DEFINE Marked(line) == [line EXCEPT !.flag = all,
                                          !.received = IF all THEN line.qty ELSE 0]
             lines == [j \in DOMAIN mine |-> IF j # i THEN mine[j] ELSE Marked(mine[j])]
  <2>1. Edit1(u, i, lines)
    BY <1>4 DEF GrMark
  <2> HIDE DEF mine
  <2>2. ASSUME NEW line \in Line
        PROVE  Marked(line) \in Line /\ (IsOrdered(Marked(line)) => IsOrdered(line))
    <3>1. (IF all THEN line.qty ELSE 0) \in 0..MaxQty
      BY OrderPagesAssumption DEF Line
    <3>2. /\ Marked(line) \in Line
          /\ Marked(line).po = line.po /\ Marked(line).spent = line.spent
      BY <3>1 DEF Line
    <3> QED BY <3>2 DEF IsOrdered
  <2> HIDE DEF Marked
  <2>3. lines \in [DOMAIN mine -> Line] /\ Known(lines, Accounted)
    BY <1>2, <1>3, <2>2 DEF Known
  <2>4. lines \in PageOf(u)
    BY <1>2, <2>3, PageAgain
  <2> HIDE DEF lines
  <2> QED BY <1>1, <1>3, <2>1, <2>3, <2>4, EditKnown
<1>5. ASSUME NEW listed \in {Items, {i}}, NEW n \in 0..MaxQty, GrCell(u, i, listed, n)
      PROVE  OrdersInv'
  <2> DEFINE line == [OnScreen(s)[i] EXCEPT !.received = n]
             listing == WithListed(s, listed, i, line)
             lines == [j \in DOMAIN listing |-> Recount(listing[j])]
  <2>1. Edit1(u, i, lines)
    BY <1>5 DEF GrCell
  <2>2. line \in Line /\ (IsOrdered(line) => i \in Accounted)
    <3>1. OnScreen(s)[i] \in Line /\ (IsOrdered(OnScreen(s)[i]) => i \in Accounted)
      BY <1>2, <1>3 DEF Known
    <3> QED BY <3>1 DEF Line, IsOrdered
  <2> HIDE DEF line
  <2>3. listing \in PageOf(u) /\ Known(listing, Accounted)
    BY <1>1, <2>2, ListedKnown
  <2>4. listing \in [DOMAIN listing -> Line]
    BY <2>3, PageIsLines
  <2> HIDE DEF listing
  <2>5. lines \in [DOMAIN listing -> Line] /\ Known(lines, Accounted)
    BY <2>3, <2>4, RecountLine DEF Known
  <2>6. lines \in PageOf(u)
    BY <2>3, <2>5, PageAgain
  <2> HIDE DEF lines
  <2> QED BY <1>1, <1>3, <2>1, <2>5, <2>6, EditKnown
<1> QED BY <1>4, <1>5

-------------------------------------------------------------------------------
(* Saving *)

LEMMA DoneKnown ==
    ASSUME NEW u, NEW s \in Screen, NEW A, PageKnown(u, s, A)
    PROVE  /\ Done(s) \in Screen /\ PageKnown(u, Done(s), A) /\ Done(s).calls = s.calls
<1> DEFINE t == [s EXCEPT !.edited = NoCopy, !.dirty = FALSE, !.touched = {}, !.saving = FALSE]
<1>1. t \in Screen /\ PageKnown(u, t, A) /\ t.calls = s.calls
  BY DEF Screen, PageKnown, HasCopy
<1> HIDE DEF t
<1>2. Follow(t) \in Screen /\ PageKnown(u, Follow(t), A) /\ Follow(t).calls = t.calls
  BY <1>1, FollowKnown
<1> QED BY <1>1, <1>2 DEF Done, t

LEMMA EndInv ==
    ASSUME OrdersInv, NEW u \in OrderUsers, Discard(u) \/ PoSaved(u)
    PROVE  OrdersInv'
<1> DEFINE s == Done(screens[u])
<1>1. screens[u] \in Screen /\ PageKnown(u, screens[u], Accounted)
  BY DEF OrdersInv, OrdersTypeOK
<1>2. s \in Screen /\ PageKnown(u, s, Accounted) /\ s.calls = screens[u].calls
  BY <1>1, DoneKnown
<1>3. /\ screens' = [screens EXCEPT ![u] = s]
      /\ UNCHANGED << assetRows, triggered, forgone, bundles, strokes >>
  BY DEF Discard, PoSaved
<1>4. strokes' \in 0..MaxStrokes
  BY <1>3 DEF OrdersInv, OrdersTypeOK
<1> HIDE DEF s
<1> QED BY <1>2, <1>3, <1>4, PageStep

LEMMA NothingInv ==
    ASSUME OrdersInv, NEW u \in OrderUsers, NothingToSave(u)
    PROVE  OrdersInv'
<1> DEFINE t == [screens[u] EXCEPT !.dirty = FALSE, !.touched = {}]
           s == Follow(t)
<1>1. screens[u] \in Screen /\ PageKnown(u, screens[u], Accounted)
  BY DEF OrdersInv, OrdersTypeOK
<1>2. t \in Screen /\ PageKnown(u, t, Accounted) /\ t.calls = screens[u].calls
  BY <1>1 DEF Screen, PageKnown, HasCopy
<1>3. /\ screens' = [screens EXCEPT ![u] = s]
      /\ UNCHANGED << assetRows, triggered, forgone, bundles, strokes >>
  BY DEF NothingToSave
<1> HIDE DEF t
<1>4. s \in Screen /\ PageKnown(u, s, Accounted) /\ s.calls = t.calls
  BY <1>2, FollowKnown
<1>5. strokes' \in 0..MaxStrokes
  BY <1>3 DEF OrdersInv, OrdersTypeOK
<1> HIDE DEF s
<1> QED BY <1>2, <1>3, <1>4, <1>5, PageStep

LEMMA RowOfLine ==
    ASSUME NEW line \in Line
    PROVE  /\ PoRow(line) \in AssetRow /\ (IsOrdered(PoRow(line)) => IsOrdered(line))
           /\ GrRow(line) \in AssetRow /\ (IsOrdered(GrRow(line)) => IsOrdered(line))
<1>1. /\ PoRow(line) \in AssetRow
      /\ PoRow(line).po = line.po /\ PoRow(line).spent = line.spent
  BY DEF PoRow, Line, AssetRow
<1>2. /\ GrRow(line) \in AssetRow
      /\ GrRow(line).po = PoRow(line).po /\ GrRow(line).spent = PoRow(line).spent
  BY <1>1 DEF GrRow, AssetRow
<1> QED BY <1>1, <1>2 DEF IsOrdered

LEMMA PreparedLines ==
    ASSUME NEW s, s.edited \in [Items -> Line]
    PROVE  Prepared(s) \in [Items -> Line]
<1> DEFINE Dated(i) == /\ i \in DOMAIN s.base /\ s.edited[i].date = NoDate
                       /\ OrderChanged(s.base[i], s.edited[i])
                       /\ IsOrdered(s.edited[i]) \/ s.edited[i].cpr \/ s.edited[i].sent
           New(i) == [s.edited[i] EXCEPT !.date = Today]
<1>1. Prepared(s) = [i \in Items |-> IF Dated(i) THEN New(i) ELSE s.edited[i]]
  BY DEF Prepared
<1>2. \A i \in Items : New(i) \in Line
  BY DEF Line
<1> HIDE DEF Dated, New
<1> QED BY <1>1, <1>2

\* Of the rows a save writes, those with an order are accounted for or reported.
LEMMA ChangesKnown ==
    ASSUME NEW u \in PoUsers, NEW s \in Screen, NEW A, PageKnown(u, s, A), HasCopy(s)
    PROVE  /\ Prepared(s) \in [Items -> Line]
           /\ PoChanges(s) \subseteq Items
           /\ NewOrders(s, PoChanges(s)) \subseteq Items
           /\ \A i \in PoChanges(s) :
                  IsOrdered(Prepared(s)[i]) => i \in A \cup NewOrders(s, PoChanges(s))
<1>1. /\ s.edited \in [Items -> Line] /\ s.base \in [Items -> Line]
      /\ Known(s.base, A) /\ s.has \subseteq A
  BY DEF PageKnown, PageOf
<1>2. Prepared(s) \in [Items -> Line]
  BY <1>1, PreparedLines
<1>3. PoChanges(s) \subseteq Items /\ NewOrders(s, PoChanges(s)) \subseteq PoChanges(s)
  BY <1>2 DEF PoChanges, NewOrders
<1>4. ASSUME NEW i \in PoChanges(s), IsOrdered(Prepared(s)[i])
      PROVE  i \in A \cup NewOrders(s, PoChanges(s))
  <2>1. CASE i \in s.has
    BY <1>1, <2>1
  <2>2. CASE i \notin s.has /\ OrderChanged(s.base[i], Prepared(s)[i])
    BY <1>1, <1>3, <1>4, <2>2 DEF NewOrders
  <2>3. CASE ~OrderChanged(s.base[i], Prepared(s)[i])
    <3>1. IsOrdered(s.base[i])
      BY <1>4, <2>3 DEF OrderChanged, IsOrdered
    <3> QED BY <1>1, <1>3, <3>1 DEF Known
  <2> QED BY <2>1, <2>2, <2>3
<1> QED BY <1>2, <1>3, <1>4

LEMMA PoSaveInv ==
    ASSUME OrdersInv, NEW u \in PoUsers, PoSave(u)
    PROVE  OrdersInv'
<1> DEFINE s == screens[u]
           changed == PoChanges(s)
           t == [s EXCEPT !.saving = TRUE, !.calls = NewOrders(s, changed)]
           rows == [i \in changed |-> PoRow(Prepared(s)[i])]
           A == Accounted \cup NewOrders(s, changed)
<1>1. u \in OrderUsers /\ s \in Screen /\ PageKnown(u, s, Accounted)
  BY DEF OrderUsers, OrdersInv, OrdersTypeOK
<1>2. /\ HasCopy(s) /\ s.calls = {}
      /\ PersistRows(rows, changed) /\ screens' = [screens EXCEPT ![u] = t]
      /\ UNCHANGED << triggered, forgone, bundles, strokes >>
  BY DEF PoSave, MaySave, HasCopy
<1>3. /\ Prepared(s) \in [Items -> Line]
      /\ changed \subseteq Items /\ NewOrders(s, changed) \subseteq Items
      /\ \A i \in changed : IsOrdered(Prepared(s)[i]) => i \in A
  BY <1>1, <1>2, ChangesKnown
<1>4. t \in Screen /\ PageKnown(u, t, Accounted) /\ t.calls = NewOrders(s, changed)
  <2> HIDE DEF s
  <2> QED BY <1>1, <1>3 DEF Screen, PageKnown, HasCopy
<1>5. \A i \in changed : rows[i] \in AssetRow /\ (IsOrdered(rows[i]) => i \in A)
  BY <1>3, RowOfLine
<1>6. assetRows' \in [Items -> AssetRow] /\ Known(assetRows', A)
  <2> HIDE DEF rows, changed
  <2> QED BY <1>2, <1>3, <1>5, RowsWritten
<1>7. screens \in [OrderUsers -> Screen] /\ screens'[u] = t
  BY <1>1, <1>2 DEF OrdersInv, OrdersTypeOK
<1>8. /\ triggered \subseteq Items /\ forgone \subseteq Items /\ strokes \in 0..MaxStrokes
  BY DEF OrdersInv, OrdersTypeOK
<1> HIDE DEF t
<1>9. A \subseteq Accounted'
  <2>1. Accounted \subseteq Accounted'
    BY <1>1, <1>2, <1>4, PageChanges
  <2> QED BY <1>4, <1>7, <2>1 DEF Accounted
<1>10. Known(assetRows', Accounted')
  BY <1>6, <1>9, KnownGrows
<1> QED BY <1>1, <1>2, <1>4, <1>6, <1>8, <1>10, OrdersKeep

\* A step of which only the rows and what is given up are new.
LEMMA RowsStep ==
    ASSUME OrdersInv, assetRows' \in [Items -> AssetRow], Known(assetRows', Accounted'),
           forgone \subseteq forgone', forgone' \subseteq Items,
           UNCHANGED << triggered, screens, bundles, strokes >>
    PROVE  OrdersInv'
<1>1. Accounted \subseteq Accounted'
  BY DEF Accounted
<1>2. /\ \A u \in OrderUsers : PageKnown(u, screens'[u], Accounted')
      /\ \A u \in PoUsers : BundleKnown(bundles'[u], Accounted')
  BY <1>1, KnownGrows DEF OrdersInv
<1> QED BY <1>2 DEF OrdersInv, OrdersTypeOK

LEMMA PoSaveFailsInv ==
    ASSUME OrdersInv, NEW u \in PoUsers, PoSaveFails(u)
    PROVE  OrdersInv'
<1> DEFINE s == screens[u]
           changed == PoChanges(s)
<1>1. u \in OrderUsers /\ s \in Screen /\ PageKnown(u, s, Accounted)
  BY DEF OrderUsers, OrdersInv, OrdersTypeOK
<1>2. /\ HasCopy(s)
      /\ UNCHANGED << triggered, screens, bundles, strokes >>
  BY DEF PoSaveFails, MaySave, HasCopy
<1>3. PICK written \in BeforeFailure(changed) :
         /\ PersistRows([i \in written |-> PoRow(Prepared(s)[i])], written)
         /\ forgone' = forgone \cup (written \cap NewOrders(s, changed))
  BY DEF PoSaveFails
<1> DEFINE A == Accounted \cup (written \cap NewOrders(s, changed))
           rows == [i \in written |-> PoRow(Prepared(s)[i])]
<1>4. /\ Prepared(s) \in [Items -> Line]
      /\ changed \subseteq Items /\ NewOrders(s, changed) \subseteq Items
      /\ \A i \in changed : IsOrdered(Prepared(s)[i]) => i \in Accounted \cup NewOrders(s, changed)
  BY <1>1, <1>2, ChangesKnown
<1>5. written \subseteq changed
  BY DEF BeforeFailure
<1>6. \A i \in written : rows[i] \in AssetRow /\ (IsOrdered(rows[i]) => i \in A)
  BY <1>4, <1>5, RowOfLine
<1>7. assetRows' \in [Items -> AssetRow] /\ Known(assetRows', A)
  <2>1. PersistRows(rows, written) /\ written \subseteq Items
    BY <1>3, <1>4, <1>5
  <2> HIDE DEF rows, changed
  <2> QED BY <1>6, <2>1, RowsWritten
<1>8. A \subseteq Accounted'
  BY <1>2, <1>3 DEF Accounted
<1>9. Known(assetRows', Accounted')
  BY <1>7, <1>8, KnownGrows
<1>10. forgone \subseteq forgone' /\ forgone' \subseteq Items
  BY <1>3, <1>4 DEF OrdersInv, OrdersTypeOK
<1> QED BY <1>2, <1>7, <1>9, <1>10, RowsStep

LEMMA QuickPoInv ==
    ASSUME OrdersInv, NEW u \in PoUsers, NEW i \in Items, QuickPo(u, i)
    PROVE  OrdersInv'
<1> DEFINE s == screens[u]
           old == OnScreen(s)[i]
<1>1. u \in OrderUsers /\ s \in Screen /\ PageKnown(u, s, Accounted)
  BY DEF OrderUsers, OrdersInv, OrdersTypeOK
<1>2. PICK po \in BOOLEAN, spent \in BOOLEAN, cpr \in BOOLEAN, date \in {Earlier, Today} :
         /\ PersistRows([j \in {i} |-> PoRow([old EXCEPT !.po = po, !.spent = spent,
                                              !.cpr = cpr, !.date = date])], {i})
         /\ screens' = [screens EXCEPT ![u].calls =
                           IF (po \/ spent) /\ i \notin s.has THEN {i} ELSE {}]
  BY ZenonT(60) DEF QuickPo
<1> DEFINE line == [old EXCEPT !.po = po, !.spent = spent, !.cpr = cpr, !.date = date]
           new == IF (po \/ spent) /\ i \notin s.has THEN {i} ELSE {}
           t == [s EXCEPT !.calls = new]
           A == Accounted \cup new
           rows == [j \in {i} |-> PoRow(line)]
<1>3. /\ s.calls = {} /\ strokes < MaxStrokes /\ strokes' = strokes + 1
      /\ UNCHANGED << triggered, forgone, bundles >>
  BY DEF QuickPo
<1>4. line \in Line /\ (IsOrdered(line) => i \in A)
  <2>1. old \in Line /\ s.has \subseteq Accounted
    BY <1>1, OnScreenKnown DEF PageOf, PageKnown
  <2>2. line \in Line /\ line.po = po /\ line.spent = spent
    <3> HIDE DEF old
    <3> QED BY <2>1 DEF Line
  <2> HIDE DEF line
  <2> QED BY <2>1, <2>2 DEF IsOrdered
<1>5. \A j \in {i} : rows[j] \in AssetRow /\ (IsOrdered(rows[j]) => j \in A)
  <2> HIDE DEF line
  <2> QED BY <1>4, RowOfLine
<1>6. PersistRows(rows, {i})
  BY <1>2
<1>7. assetRows' \in [Items -> AssetRow] /\ Known(assetRows', A)
  <2> HIDE DEF rows
  <2> QED BY <1>5, <1>6, RowsWritten
<1>8. /\ t \in Screen /\ PageKnown(u, t, Accounted) /\ t.calls = new
      /\ screens' = [screens EXCEPT ![u] = t]
  <2>1. new \subseteq Items
    OBVIOUS
  <2>2. screens' = [screens EXCEPT ![u] = t]
    BY <1>2
  <2> HIDE DEF s, new
  <2> QED BY <1>1, <2>1, <2>2 DEF Screen, PageKnown, HasCopy
<1>9. screens'[u] = t
  BY <1>1, <1>8 DEF OrdersInv, OrdersTypeOK
<1>10. /\ triggered \subseteq Items /\ forgone \subseteq Items /\ strokes' \in 0..MaxStrokes
  BY <1>3, OrderPagesAssumption DEF OrdersInv, OrdersTypeOK
<1> HIDE DEF t, new
<1>11. A \subseteq Accounted'
  <2>1. Accounted \subseteq Accounted'
    BY <1>1, <1>3, <1>8, PageChanges
  <2> QED BY <1>8, <1>9, <2>1 DEF Accounted
<1>12. Known(assetRows', Accounted')
  BY <1>7, <1>11, KnownGrows
<1> QED BY <1>1, <1>3, <1>7, <1>8, <1>10, <1>12, OrdersKeep

LEMMA TriggerInv ==
    ASSUME OrdersInv, NEW u \in PoUsers, NEW i \in Items, Trigger(u, i)
    PROVE  OrdersInv'
<1> DEFINE s == screens[u]
           t == [s EXCEPT !.calls = @ \ {i}]
<1>1. u \in OrderUsers /\ s \in Screen /\ PageKnown(u, s, Accounted)
  BY DEF OrderUsers, OrdersInv, OrdersTypeOK
<1>2. /\ triggered \subseteq triggered' /\ triggered' \subseteq Items
      /\ forgone \subseteq forgone' /\ forgone' \subseteq Items
      /\ i \in triggered' \cup forgone'
      /\ UNCHANGED << assetRows, bundles, strokes >>
  BY DEF Trigger, OrdersInv, OrdersTypeOK
<1>3. screens' = [screens EXCEPT ![u] = t]
  BY DEF Trigger
<1>4. t \in Screen /\ PageKnown(u, t, Accounted) /\ t.calls = s.calls \ {i}
  <2> HIDE DEF s
  <2> QED BY <1>1 DEF Screen, PageKnown, HasCopy
<1> HIDE DEF t
<1>5. s.calls \subseteq t.calls \cup triggered' \cup forgone'
  BY <1>2, <1>4
<1>6. Accounted \subseteq Accounted'
  BY <1>1, <1>2, <1>3, <1>4, <1>5, PageChanges
<1>7. /\ assetRows' \in [Items -> AssetRow] /\ Known(assetRows', Accounted')
      /\ strokes' \in 0..MaxStrokes
  BY <1>2, <1>6, KnownGrows DEF OrdersInv, OrdersTypeOK
<1> QED BY <1>1, <1>2, <1>3, <1>4, <1>5, <1>7, OrdersKeep

\* What a receipt page writes was an order before.
LEMMA GrRowsKnown ==
    ASSUME OrdersInv, NEW u \in GrUsers, MaySave(screens[u]),
           NEW S, S \subseteq GrChanges(screens[u]),
           PersistRows([i \in S |-> GrRow(screens[u].edited[i])], S)
    PROVE  assetRows' \in [Items -> AssetRow] /\ Known(assetRows', Accounted)
<1> DEFINE mine == screens[u].edited
           rows == [i \in S |-> GrRow(mine[i])]
<1>1. mine \in PageOf(u) /\ Known(mine, Accounted)
  BY DEF MaySave, OrderUsers, OrdersInv, PageKnown, HasCopy
<1>2. mine \in [DOMAIN mine -> Line] /\ DOMAIN mine \subseteq Items
  BY <1>1, PageIsLines
<1>3. S \subseteq DOMAIN mine
  BY DEF GrChanges
<1> HIDE DEF mine
<1>4. \A i \in S : rows[i] \in AssetRow /\ (IsOrdered(rows[i]) => i \in Accounted)
  BY <1>1, <1>2, <1>3, RowOfLine DEF Known
<1>5. PersistRows(rows, S) /\ S \subseteq Items
  BY <1>2, <1>3 DEF mine
<1> HIDE DEF rows
<1> QED BY <1>4, <1>5, RowsWritten

LEMMA GrSaveInv ==
    ASSUME OrdersInv, NEW u \in GrUsers, GrSave(u) \/ GrSaveFails(u)
    PROVE  OrdersInv'
<1> DEFINE s == Done(screens[u])
<1>1. /\ u \in OrderUsers /\ screens[u] \in Screen /\ PageKnown(u, screens[u], Accounted)
      /\ triggered \subseteq Items /\ forgone \subseteq Items /\ strokes \in 0..MaxStrokes
  BY DEF OrderUsers, OrdersInv, OrdersTypeOK
<1>2. CASE GrSave(u)
  <2>1. assetRows' \in [Items -> AssetRow] /\ Known(assetRows', Accounted)
    BY <1>2, GrRowsKnown DEF GrSave
  <2>2. s \in Screen /\ PageKnown(u, s, Accounted) /\ s.calls = screens[u].calls
    BY <1>1, DoneKnown
  <2>3. /\ screens' = [screens EXCEPT ![u] = s]
        /\ UNCHANGED << triggered, forgone, bundles, strokes >>
    BY <1>2 DEF GrSave
  <2> HIDE DEF s
  <2>4. Accounted \subseteq Accounted'
    BY <1>1, <2>2, <2>3, PageChanges
  <2>5. Known(assetRows', Accounted')
    BY <2>1, <2>4, KnownGrows
  <2> QED BY <1>1, <2>1, <2>2, <2>3, <2>5, OrdersKeep
<1>3. CASE GrSaveFails(u)
  <2>1. PICK written \in BeforeFailure(GrChanges(screens[u])) :
           PersistRows([i \in written |-> GrRow(screens[u].edited[i])], written)
    BY <1>3 DEF GrSaveFails
  <2>2. /\ written \subseteq GrChanges(screens[u]) /\ MaySave(screens[u])
        /\ UNCHANGED << triggered, forgone, screens, bundles, strokes >>
    BY <1>3 DEF GrSaveFails, BeforeFailure
  <2>3. assetRows' \in [Items -> AssetRow] /\ Known(assetRows', Accounted)
    BY <2>1, <2>2, GrRowsKnown
  <2>4. Accounted \subseteq Accounted'
    BY <2>2 DEF Accounted
  <2>5. Known(assetRows', Accounted')
    BY <2>3, <2>4, KnownGrows
  <2> QED BY <1>1, <2>2, <2>3, <2>5, RowsStep
<1> QED BY <1>2, <1>3

-------------------------------------------------------------------------------
(* The theorems *)

LEMMA NewKnown ==
    ASSUME NEW u, NEW A, NEW lines, lines \in PageOf(u), Known(lines, A),
           NEW has, has \subseteq Items, has \subseteq A
    PROVE  NewScreen(lines, has) \in Screen /\ PageKnown(u, NewScreen(lines, has), A)
BY PageIsLines DEF NewScreen, Screen, PageKnown, HasCopy

LEMMA InitInv == OrdersInit => OrdersInv
<1> SUFFICES ASSUME OrdersInit PROVE OrdersInv
  OBVIOUS
<1>1. /\ assetRows \in [Items -> AssetRow] /\ triggered \subseteq Items /\ forgone = {}
      /\ strokes \in 0..MaxStrokes
      /\ bundles = [u \in PoUsers |-> NoCopy]
  BY OrderPagesAssumption DEF OrdersInit
<1>2. Known(assetRows, Accounted)
  BY <1>1 DEF OrdersInit, Known, Accounted
<1>3. \A u \in PoUsers : /\ NewScreen(PoLines, HasPo) \in Screen
                         /\ PageKnown(u, NewScreen(PoLines, HasPo), Accounted)
  BY <1>1, <1>2, LoadsKnown, NewKnown DEF PageOf
<1>4. \A u \in GrUsers : /\ NewScreen(GrLines, {}) \in Screen
                         /\ PageKnown(u, NewScreen(GrLines, {}), Accounted)
  BY <1>1, <1>2, LoadsKnown, NewKnown, OrderPagesAssumption DEF PageOf
<1>5. /\ screens \in [OrderUsers -> Screen]
      /\ \A u \in OrderUsers : PageKnown(u, screens[u], Accounted)
  BY <1>3, <1>4 DEF OrdersInit, OrderUsers
<1>6. /\ bundles \in [PoUsers -> Bundle \cup {NoCopy}]
      /\ \A u \in PoUsers : BundleKnown(bundles[u], Accounted)
  BY <1>1 DEF BundleKnown
<1> QED BY <1>1, <1>2, <1>5, <1>6 DEF OrdersInv, OrdersTypeOK

LEMMA NextInv == OrdersInv /\ [OrdersNext]_orderVars => OrdersInv'
<1> SUFFICES ASSUME OrdersInv, [OrdersNext]_orderVars
             PROVE  OrdersInv'
  OBVIOUS
<1>1. CASE UNCHANGED orderVars
  BY <1>1, RowsStep DEF orderVars, OrdersInv, OrdersTypeOK, Accounted
<1>2. ASSUME NEW u \in PoUsers, PoStep(u)
      PROVE  OrdersInv'
  <2>1. u \in OrderUsers
    BY DEF OrderUsers
  <2>2. CASE PoLoad(u) \/ PoLoadCached(u)
    BY <2>2, PoLoadInv
  <2>3. CASE Discard(u) \/ PoSaved(u)
    BY <2>1, <2>3, EndInv
  <2>4. ASSUME NEW i \in Items, PoSent(u, i) \/ \E listed \in {Items, {i}} : PoCell(u, i, listed)
        PROVE  OrdersInv'
    BY <2>4, PoEditInv
  <2>5. ASSUME NEW i \in Items, QuickPo(u, i)
        PROVE  OrdersInv'
    BY <2>5, QuickPoInv
  <2>6. ASSUME NEW i \in Items, Trigger(u, i)
        PROVE  OrdersInv'
    BY <2>6, TriggerInv
  <2>7. CASE NothingToSave(u)
    BY <2>1, <2>7, NothingInv
  <2>8. CASE PoSave(u)
    BY <2>8, PoSaveInv
  <2>9. CASE PoSaveFails(u)
    BY <2>9, PoSaveFailsInv
  <2> QED BY <1>2, <2>2, <2>3, <2>4, <2>5, <2>6, <2>7, <2>8, <2>9 DEF PoStep
<1>3. ASSUME NEW u \in GrUsers, GrStep(u)
      PROVE  OrdersInv'
  <2>1. u \in OrderUsers
    BY DEF OrderUsers
  <2>2. CASE GrLoad(u)
    BY <2>2, GrLoadInv
  <2>3. CASE Discard(u)
    BY <2>1, <2>3, EndInv
  <2>4. ASSUME NEW i \in DOMAIN OnScreen(screens[u]),
               \/ \E all \in BOOLEAN : GrMark(u, i, all)
               \/ \E listed \in {Items, {i}}, n \in 0..MaxQty : GrCell(u, i, listed, n)
        PROVE  OrdersInv'
    BY <2>4, GrEditInv
  <2>5. CASE NothingToSave(u)
    BY <2>1, <2>5, NothingInv
  <2>6. CASE GrSave(u) \/ GrSaveFails(u)
    BY <2>6, GrSaveInv
  <2> QED BY <1>3, <2>2, <2>3, <2>4, <2>5, <2>6 DEF GrStep
<1> QED BY <1>1, <1>2, <1>3 DEF OrdersNext

\* The tables, pages and cached bundles keep their types.
THEOREM OrdersTyped == OrdersSpec => []OrdersTypeOK
<1>1. OrdersInv => OrdersTypeOK
  BY DEF OrdersInv
<1> QED BY <1>1, InitInv, NextInv, PTL DEF OrdersSpec

\* However many users work on however many assets, from whatever old copies, and
\* whatever fails: every order was reported to the workflow, is about to be, or was
\* to be when something failed (shouldTriggerPoCreatedTask, handleSubmit).
THEOREM OrdersReach == OrdersSpec => []OrdersReachTheWorkflow
<1>1. OrdersInv => OrdersReachTheWorkflow
  BY DEF OrdersInv, OrdersTypeOK, Known, Accounted, OrdersReachTheWorkflow
<1> QED BY <1>1, InitInv, NextInv, PTL DEF OrdersSpec

-------------------------------------------------------------------------------
(* Without a page of receipts *)

\* The lines of an order page show the quantities that the rows have.
QtyOf(lines, rows) ==
    \A i \in Items : lines[i].qty = rows[i].qty /\ lines[i].received = rows[i].received

\* What a page shows, and would write, has the quantities of the table.
PageQty(s, rows) == QtyOf(s.shown, rows) /\ (HasCopy(s) => QtyOf(s.edited, rows))

QtyInv ==
    /\ \A u \in PoUsers : PageQty(screens[u], assetRows)
    /\ \A u \in PoUsers : bundles[u] # NoCopy => QtyOf(bundles[u].shown, assetRows)

SameQty == QtyOf(assetRows', assetRows)

LEMMA PoPage ==
    ASSUME OrdersInv, NEW u \in PoUsers
    PROVE  /\ screens \in [OrderUsers -> Screen] /\ u \in OrderUsers
           /\ screens[u] \in Screen
           /\ screens[u].shown \in [Items -> Line] /\ screens[u].base \in [Items -> Line]
           /\ HasCopy(screens[u]) => screens[u].edited \in [Items -> Line]
           /\ assetRows \in [Items -> AssetRow]
BY DEF OrdersInv, OrdersTypeOK, OrderUsers, PageKnown, PageOf

\* A step of one page, after which it shows the quantities that the table had.
LEMMA OnePageQty ==
    ASSUME OrdersInv, QtyInv, SameQty, NEW u \in PoUsers, NEW s, PageQty(s, assetRows),
           screens' = [screens EXCEPT ![u] = s],
           \A v \in PoUsers : bundles'[v] # NoCopy => QtyOf(bundles'[v].shown, assetRows)
    PROVE  QtyInv'
<1>1. screens \in [OrderUsers -> Screen] /\ PoUsers \subseteq OrderUsers
  BY DEF OrdersInv, OrdersTypeOK, OrderUsers
<1>2. \A lines : QtyOf(lines, assetRows) => QtyOf(lines, assetRows')
  BY DEF QtyOf, SameQty
<1>3. ASSUME NEW v \in PoUsers
      PROVE  PageQty(screens'[v], assetRows)
  BY <1>1, <1>3 DEF QtyInv
<1>4. \A v \in PoUsers : PageQty(screens'[v], assetRows')
  BY <1>2, <1>3 DEF PageQty
<1> QED BY <1>2, <1>4 DEF QtyInv

\* The same for a step that leaves the rows and the cached bundles alone.
LEMMA ScreenQty ==
    ASSUME OrdersInv, QtyInv, NEW u \in PoUsers, NEW s, PageQty(s, assetRows),
           screens' = [screens EXCEPT ![u] = s],
           UNCHANGED << assetRows, bundles >>
    PROVE  SameQty /\ QtyInv'
<1>1. SameQty
  BY DEF SameQty, QtyOf
<1>2. \A v \in PoUsers : bundles'[v] # NoCopy => QtyOf(bundles'[v].shown, assetRows)
  BY DEF QtyInv
<1> QED BY <1>1, <1>2, OnePageQty

\* The same for a step that writes lines with the quantities of the table, and of whose
\* page the lines stay.
LEMMA RowsQty ==
    ASSUME OrdersInv, QtyInv, NEW u \in PoUsers, NEW S, NEW rows, PersistRows(rows, S),
           \A i \in S \cap Items : /\ rows[i].qty = assetRows[i].qty
                                   /\ rows[i].received = assetRows[i].received,
           NEW s, PageQty(s, assetRows), screens' = [screens EXCEPT ![u] = s],
           UNCHANGED bundles
    PROVE  SameQty /\ QtyInv'
<1>1. SameQty
  BY DEF SameQty, QtyOf, PersistRows
<1>2. \A v \in PoUsers : bundles'[v] # NoCopy => QtyOf(bundles'[v].shown, assetRows)
  BY DEF QtyInv
<1> QED BY <1>1, <1>2, OnePageQty

LEMMA FollowQty ==
    ASSUME NEW s \in Screen, NEW rows, PageQty(s, rows)
    PROVE  PageQty(Follow(s), rows)
BY DEF Follow, PageQty, HasCopy, Screen

LEMMA PoLoadQty ==
    ASSUME OrdersInv, QtyInv, NEW u \in PoUsers, PoLoad(u) \/ PoLoadCached(u)
    PROVE  SameQty /\ QtyInv'
<1>1. PICK s \in Screen : s = screens[u] /\ PageQty(s, assetRows)
  BY PoPage DEF QtyInv
<1>2. PICK lines, has : /\ screens' = [screens EXCEPT ![u] = Shown(s, lines, has)]
                        /\ QtyOf(lines, assetRows)
                        /\ lines \in [Items -> Line] /\ has \subseteq Items
  <2>1. QtyOf(PoLines, assetRows) /\ PoLines \in [Items -> Line] /\ HasPo \subseteq Items
    BY PoPage, OnPageLine DEF QtyOf, PoLines, OnPage, HasPo, OrdersInv, OrdersTypeOK
  <2>2. CASE PoLoad(u)
    BY <1>1, <2>1, <2>2, PoPage DEF PoLoad, ShowLines
  <2>3. CASE PoLoadCached(u)
    BY <1>1, <2>3, PoPage
       DEF PoLoadCached, ShowLines, QtyInv, OrdersInv, OrdersTypeOK, BundleKnown, Bundle
  <2> QED BY <2>2, <2>3
<1>3. PageQty(Shown(s, lines, has), assetRows)
  <2>1. [s EXCEPT !.shown = lines, !.has = has] \in Screen
    BY <1>2, LinesFrom DEF Screen
  <2>2. PageQty([s EXCEPT !.shown = lines, !.has = has], assetRows)
    BY <1>1, <1>2 DEF PageQty, HasCopy, Screen
  <2> QED BY <2>1, <2>2, FollowQty DEF Shown
<1>4. UNCHANGED assetRows /\ \A v \in PoUsers :
          bundles'[v] # NoCopy => QtyOf(bundles'[v].shown, assetRows)
  <2>1. QtyOf(PoLines, assetRows)
    BY PoPage DEF QtyOf, PoLines, OnPage
  <2> QED BY <2>1 DEF PoLoad, PoLoadCached, QtyInv, OrdersInv, OrdersTypeOK
<1>5. SameQty
  BY <1>4 DEF SameQty, QtyOf
<1> QED BY <1>2, <1>3, <1>4, <1>5, OnePageQty

\* The copy of a page when it is edited: it has one, or takes what it shows.
LEMMA CopyQty ==
    ASSUME OrdersInv, QtyInv, NEW u \in PoUsers
    PROVE  /\ QtyOf(OnScreen(screens[u]), assetRows)
           /\ QtyOf(Opened1(screens[u]).edited, assetRows)
           /\ Opened1(screens[u]).shown = screens[u].shown
           /\ DOMAIN OnScreen(screens[u]) = Items
           /\ OnScreen(screens[u]) \in [Items -> Line]
           /\ Opened1(screens[u]).edited \in [Items -> Line]
           /\ Opened1(screens[u]) \in Screen
<1>1. PICK s \in Screen : s = screens[u]
  BY PoPage
<1>2. /\ PageQty(s, assetRows) /\ s.shown \in [Items -> Line]
      /\ HasCopy(s) => s.edited \in [Items -> Line]
  BY <1>1, PoPage DEF QtyInv
<1>3. QtyOf(OnScreen(s), assetRows) /\ OnScreen(s) \in [Items -> Line]
  BY <1>2 DEF PageQty, HasCopy, OnScreen
<1>4. Opened1(s) \in Screen
  BY <1>1 DEF Opened1, Screen
<1>5. /\ QtyOf(Opened1(s).edited, assetRows) /\ Opened1(s).edited \in [Items -> Line]
      /\ Opened1(s).shown = s.shown
  BY <1>2 DEF PageQty, HasCopy, Opened1, Screen
<1> QED BY <1>1, <1>3, <1>4, <1>5

LEMMA PoEditQty ==
    ASSUME OrdersInv, QtyInv, NEW u \in PoUsers, NEW i \in Items,
           PoSent(u, i) \/ \E listed \in {Items, {i}} : PoCell(u, i, listed)
    PROVE  SameQty /\ QtyInv'
<1> DEFINE s == screens[u]
           new == Opened1(s).edited
<1>1. PageQty(s, assetRows) /\ screens \in [OrderUsers -> Screen] /\ u \in OrderUsers
  BY PoPage DEF QtyInv
<1>2. PICK lines : /\ screens' = [screens EXCEPT ![u] = Stroked(s, i, lines)]
                   /\ QtyOf(lines, assetRows)
                   /\ UNCHANGED << assetRows, bundles >>
  <2>1. CASE PoSent(u, i)
    <3> DEFINE lines == [new EXCEPT ![i] = SentLine(@)]
    <3>1. QtyOf(lines, assetRows)
      BY CopyQty DEF QtyOf, SentLine, Line
    <3>2. Edit1(u, i, lines)
      BY <2>1 DEF PoSent
    <3> QED BY <1>1, <3>1, <3>2 DEF Edit1
  <2>2. ASSUME NEW listed \in {Items, {i}}, PoCell(u, i, listed)
        PROVE  \E lines : /\ screens' = [screens EXCEPT ![u] = Stroked(s, i, lines)]
                          /\ QtyOf(lines, assetRows)
                          /\ UNCHANGED << assetRows, bundles >>
    <3>1. PICK line : /\ Edit1(u, i, WithListed(s, listed, i, line))
                      /\ line.qty = OnScreen(s)[i].qty
                      /\ line.received = OnScreen(s)[i].received
      BY <2>2, CopyQty DEF PoCell, Line
    <3>2. QtyOf(WithListed(s, listed, i, line), assetRows)
      BY <3>1, CopyQty DEF WithListed, QtyOf
    <3> QED BY <1>1, <3>1, <3>2 DEF Edit1
  <2> QED BY <2>1, <2>2
<1>3. PageQty(Stroked(s, i, lines), assetRows)
  BY <1>1, <1>2, CopyQty DEF PageQty, Stroked, Screen
<1> QED BY <1>2, <1>3, ScreenQty

LEMMA PoEndQty ==
    ASSUME OrdersInv, QtyInv, NEW u \in PoUsers,
           Discard(u) \/ PoSaved(u) \/ NothingToSave(u) \/ \E i \in Items : Trigger(u, i)
    PROVE  SameQty /\ QtyInv'
<1>1. PICK s \in Screen : s = screens[u] /\ PageQty(s, assetRows)
  BY PoPage DEF QtyInv
<1>2. screens \in [OrderUsers -> Screen] /\ u \in OrderUsers
  BY PoPage
<1>3. ASSUME Discard(u) \/ PoSaved(u)
      PROVE  SameQty /\ QtyInv'
  <2> DEFINE t == [s EXCEPT !.edited = NoCopy, !.dirty = FALSE, !.touched = {}, !.saving = FALSE]
  <2>1. t \in Screen /\ PageQty(t, assetRows)
    BY <1>1 DEF Screen, PageQty, HasCopy
  <2>2. PageQty(Done(s), assetRows)
    BY <2>1, FollowQty DEF Done
  <2>3. screens' = [screens EXCEPT ![u] = Done(s)] /\ UNCHANGED << assetRows, bundles >>
    BY <1>1, <1>2, <1>3 DEF Discard, PoSaved
  <2> QED BY <2>2, <2>3, ScreenQty
<1>4. ASSUME NothingToSave(u)
      PROVE  SameQty /\ QtyInv'
  <2> DEFINE t == [s EXCEPT !.dirty = FALSE, !.touched = {}]
  <2>1. t \in Screen /\ PageQty(t, assetRows)
    BY <1>1 DEF Screen, PageQty, HasCopy
  <2>2. PageQty(Follow(t), assetRows)
    BY <2>1, FollowQty
  <2>3. screens' = [screens EXCEPT ![u] = Follow(t)] /\ UNCHANGED << assetRows, bundles >>
    BY <1>1, <1>2, <1>4 DEF NothingToSave
  <2> QED BY <2>2, <2>3, ScreenQty
<1>5. ASSUME NEW i \in Items, Trigger(u, i)
      PROVE  SameQty /\ QtyInv'
  <2>1. PageQty([s EXCEPT !.calls = @ \ {i}], assetRows)
    BY <1>1 DEF Screen, PageQty, HasCopy
  <2>2. /\ screens' = [screens EXCEPT ![u] = [s EXCEPT !.calls = @ \ {i}]]
        /\ UNCHANGED << assetRows, bundles >>
    BY <1>1, <1>2, <1>5 DEF Trigger
  <2> QED BY <2>1, <2>2, ScreenQty
<1> QED BY <1>3, <1>4, <1>5

\* A save takes the quantities of its lines along.
LEMMA PreparedQty ==
    ASSUME OrdersInv, QtyInv, NEW u \in PoUsers, HasCopy(screens[u])
    PROVE  /\ DOMAIN Prepared(screens[u]) = Items
           /\ PoChanges(screens[u]) \subseteq Items
           /\ \A i \in Items :
                 /\ PoRow(Prepared(screens[u])[i]).qty = assetRows[i].qty
                 /\ PoRow(Prepared(screens[u])[i]).received = assetRows[i].received
<1>1. screens[u].edited \in [Items -> Line] /\ QtyOf(screens[u].edited, assetRows)
  BY PoPage DEF QtyInv, PageQty
<1>2. DOMAIN Prepared(screens[u]) = Items
  BY <1>1 DEF Prepared
<1>3. \A i \in Items : /\ Prepared(screens[u])[i].qty = assetRows[i].qty
                       /\ Prepared(screens[u])[i].received = assetRows[i].received
  BY <1>1 DEF Prepared, QtyOf, Line
<1> QED BY <1>2, <1>3 DEF PoChanges, PoRow

LEMMA PoSaveQty ==
    ASSUME OrdersInv, QtyInv, NEW u \in PoUsers, PoSave(u) \/ PoSaveFails(u)
    PROVE  SameQty /\ QtyInv'
<1>1. PICK s \in Screen : s = screens[u] /\ PageQty(s, assetRows)
  BY PoPage DEF QtyInv
<1>2. screens \in [OrderUsers -> Screen] /\ u \in OrderUsers
  BY PoPage
<1>3. s.dirty /\ HasCopy(s)
  BY <1>1 DEF PoSave, PoSaveFails, MaySave, HasCopy
<1>4. /\ PoChanges(s) \subseteq Items
      /\ \A i \in Items : /\ PoRow(Prepared(s)[i]).qty = assetRows[i].qty
                          /\ PoRow(Prepared(s)[i]).received = assetRows[i].received
  BY <1>1, <1>3, PreparedQty
<1>5. PICK S : /\ S \subseteq PoChanges(s)
               /\ PersistRows([i \in S |-> PoRow(Prepared(s)[i])], S)
  BY <1>1 DEF PoSave, PoSaveFails, BeforeFailure
<1>6. \A i \in S \cap Items :
         /\ [j \in S |-> PoRow(Prepared(s)[j])][i].qty = assetRows[i].qty
         /\ [j \in S |-> PoRow(Prepared(s)[j])][i].received = assetRows[i].received
  BY <1>4
<1>7. PICK t : /\ screens' = [screens EXCEPT ![u] = t] /\ PageQty(t, assetRows)
               /\ UNCHANGED bundles
  <2>1. CASE PoSave(u)
    <3> DEFINE t == [s EXCEPT !.saving = TRUE, !.calls = NewOrders(s, PoChanges(s))]
    <3>1. PageQty(t, assetRows)
      BY <1>1 DEF Screen, PageQty, HasCopy
    <3> QED BY <1>1, <2>1, <3>1 DEF PoSave
  <2>2. CASE PoSaveFails(u)
    BY <1>1, <1>2, <2>2 DEF PoSaveFails
  <2> QED BY <2>1, <2>2
<1> QED BY <1>5, <1>6, <1>7, RowsQty

LEMMA QuickPoQty ==
    ASSUME OrdersInv, QtyInv, NEW u \in PoUsers, NEW i \in Items, QuickPo(u, i)
    PROVE  SameQty /\ QtyInv'
<1>1. PICK s \in Screen : s = screens[u] /\ PageQty(s, assetRows)
  BY PoPage DEF QtyInv
<1>2. screens \in [OrderUsers -> Screen] /\ u \in OrderUsers
  BY PoPage
<1>3. PICK line \in Line : line = OnScreen(s)[i]
  BY <1>1, CopyQty
<1>4. line.qty = assetRows[i].qty /\ line.received = assetRows[i].received
  BY <1>1, <1>3, CopyQty DEF QtyOf
<1>5. PICK row, calls :
         /\ PersistRows([j \in {i} |-> row], {i})
         /\ row.qty = line.qty /\ row.received = line.received
         /\ screens' = [screens EXCEPT ![u].calls = calls] /\ UNCHANGED bundles
  <2>1. PICK po, spent, cpr \in BOOLEAN, date \in {Earlier, Today} :
           /\ PersistRows([j \in {i} |-> PoRow([line EXCEPT !.po = po, !.spent = spent,
                                                  !.cpr = cpr, !.date = date])], {i})
           /\ screens' = [screens EXCEPT ![u].calls =
                              IF (po \/ spent) /\ i \notin s.has THEN {i} ELSE {}]
    BY <1>1, <1>3, ZenonT(60) DEF QuickPo
  <2>2. UNCHANGED bundles
    BY DEF QuickPo
  <2> DEFINE row == PoRow([line EXCEPT !.po = po, !.spent = spent, !.cpr = cpr, !.date = date])
  <2>3. row.qty = line.qty /\ row.received = line.received
    BY <1>3 DEF PoRow, Line
  <2> HIDE DEF row
  <2>4. PersistRows([j \in {i} |-> row], {i})
    BY <2>1 DEF row
  <2> QED BY <2>1, <2>2, <2>3, <2>4
<1>6. PageQty([s EXCEPT !.calls = calls], assetRows)
  BY <1>1 DEF Screen, PageQty, HasCopy
<1>7. screens' = [screens EXCEPT ![u] = [s EXCEPT !.calls = calls]]
  BY <1>1, <1>2, <1>5
<1> QED BY <1>4, <1>5, <1>6, <1>7, RowsQty

\* Where nobody has the page of receipts open, no order page changes a quantity, from
\* whatever old copy it saves: what breaks QtyInSync is that page alone.
THEOREM OrderPagesKeepQuantities == GrUsers = {} => (OrdersSpec => QtyInSync)
<1> SUFFICES ASSUME GrUsers = {}
             PROVE  OrdersSpec => QtyInSync
  OBVIOUS
<1>1. OrdersInit => QtyInv
  <2> SUFFICES ASSUME OrdersInit PROVE QtyInv
    OBVIOUS
  <2>1. assetRows \in [Items -> AssetRow]
    BY OrderPagesAssumption DEF OrdersInit
  <2>2. QtyOf(PoLines, assetRows)
    BY <2>1 DEF QtyOf, PoLines, OnPage
  <2>3. \A u \in PoUsers : screens[u] = NewScreen(PoLines, HasPo) /\ bundles[u] = NoCopy
    BY DEF OrdersInit, OrderUsers
  <2> QED BY <2>2, <2>3 DEF QtyInv, PageQty, NewScreen, HasCopy
<1>2. OrdersInv /\ QtyInv /\ [OrdersNext]_orderVars => SameQty /\ QtyInv'
  <2> SUFFICES ASSUME OrdersInv, QtyInv, [OrdersNext]_orderVars
               PROVE  SameQty /\ QtyInv'
    OBVIOUS
  <2>1. CASE UNCHANGED orderVars
    BY <2>1 DEF orderVars, SameQty, QtyOf, QtyInv
  <2>2. ASSUME NEW u \in PoUsers, PoStep(u)
        PROVE  SameQty /\ QtyInv'
    BY <2>2, PoLoadQty, PoEditQty, PoEndQty, PoSaveQty, QuickPoQty DEF PoStep
  <2> QED BY <2>1, <2>2 DEF OrdersNext
<1>3. SameQty => [\A i \in Items :
                     /\ assetRows'[i].qty = assetRows[i].qty
                     /\ assetRows'[i].received # assetRows[i].received =>
                           \E u \in GrUsers : i \in screens[u].touched]_assetRows
  BY DEF SameQty, QtyOf
<1> QED BY <1>1, <1>2, <1>3, InitInv, NextInv, PTL DEF OrdersSpec, QtyInSync

-------------------------------------------------------------------------------
(* MultiYearPage *)

\* Plans, and lists of them, whose amounts were typed up to the n-th.
Upto(n) == UNION {[S -> 0..n] : S \in SUBSET Categories}
ListsUpto(n) == UNION {[S -> Upto(n)] : S \in SUBSET PlanPeriods}
PostsUpto(n) == [of : MultiYears, plan : 0..n] \cup [of : PlanPeriods, plan : Upto(n)]
LoadsUpto(n) == [at : {"fetch", "show"}, year : MultiYears, found : ListsUpto(n),
                 wasDirty : BOOLEAN]
SavesUpto(n) == [at : {"years", "periods"}, edited : ListsUpto(n), years : [MultiYears -> 0..n],
                 waits : SUBSET PostsUpto(n)]

TypesUpto(n) ==
    /\ storedPlans \in [PlanPeriods -> Upto(n) \cup {Missing}]
    /\ storedYears \in [MultiYears -> 0..n]
    /\ shell \in [periods : SUBSET PlanPeriods, years : [MultiYears -> 0..n]]
    /\ due \subseteq {"shell", "page"}
    /\ sheet \in [edited : ListsUpto(n), base : ListsUpto(n), dirty : BOOLEAN,
                  open : SUBSET MultiYears]
    /\ years \in [edited : [MultiYears -> 0..n], base : [MultiYears -> 0..n],
                  page : [MultiYears -> 0..n]]
    /\ fetched \in [MultiYears -> ListsUpto(n) \cup {Missing}]
    /\ load \in LoadsUpto(n) \cup {NoLoad}
    /\ planSave \in SavesUpto(n) \cup {NoPlanSave}
    /\ posts \subseteq PostsUpto(n)
    /\ creating \in [at : {"insert", "rows", "answer"}, period : PlanPeriods] \cup {NoPeriod}
    /\ wish \in [PlanPeriods -> Upto(n)]
    /\ calm \in BOOLEAN
    /\ tally \in [plans : 0..MaxPlans, saves : 0..MaxPlanSaves]

\* Nothing knows of a period that is not there.
There ==
    /\ shell.periods \subseteq Existing
    /\ DOMAIN sheet.edited \subseteq Existing /\ DOMAIN sheet.base \subseteq Existing
    /\ \A y \in MultiYears : fetched[y] # Missing => DOMAIN fetched[y] \subseteq Existing
    /\ load # NoLoad => DOMAIN load.found \subseteq Existing
    /\ planSave # NoPlanSave => DOMAIN planSave.edited \subseteq Existing
    /\ \A p \in posts : p.of \in PlanPeriods => p.of \in Existing
    /\ creating.at \in {"rows", "answer"} => creating.period \in Existing
    /\ creating.at = "insert" => creating.period \notin Existing

\* A clean page has nothing typed in.
CleanHolds == ~ sheet.dirty => \A q \in PlanPeriods : DOMAIN wish[q] = {}

IsStored(sp, q, plans, c) == c \in DOMAIN sp[q] /\ sp[q][c] = plans[c]

\* What the page shows is typed or stored.
EditedHolds(sp, ed, w) ==
    \A q \in DOMAIN ed :
        /\ DOMAIN w[q] \subseteq DOMAIN ed[q]
        /\ \A c \in DOMAIN ed[q] :
              /\ c \in DOMAIN w[q] => ed[q][c] = w[q][c]
              /\ c \notin DOMAIN w[q] => IsStored(sp, q, ed[q], c)

\* What it compares with is stored, but for what a failed save has left in its place.
BaseHolds(sp, b, w) ==
    \A q \in DOMAIN b :
        /\ DOMAIN b[q] \subseteq DOMAIN sp[q]
        /\ \A c \in DOMAIN b[q] \ DOMAIN w[q] : IsStored(sp, q, b[q], c)

\* What was typed differs from it.
WishHolds(ed, b, w) ==
    \A q \in PlanPeriods :
        DOMAIN w[q] # {} => /\ q \in DOMAIN ed /\ q \in DOMAIN b
                            /\ \A c \in DOMAIN w[q] : w[q][c] # PlanOf(b[q], c)

\* While the multi-years are sent: what the save has of the periods is stored, or is typed
\* and will be sent.
SentHolds(sp, b, w, e) ==
    \A q \in DOMAIN e : \A c \in DOMAIN e[q] :
        \/ IsStored(sp, q, e[q], c)
        \/ q \in DOMAIN b /\ c \in DOMAIN w[q] /\ e[q][c] # PlanOf(b[q], c)

\* While the periods are: it is stored, or under way, and nothing else is.
WrittenHolds(sp, e, ps) ==
    /\ \A q \in DOMAIN e : [of |-> q, plan |-> e[q]] \in ps
                           \/ \A c \in DOMAIN e[q] : IsStored(sp, q, e[q], c)
    /\ \A p \in ps : p.of \in DOMAIN e /\ p.plan = e[p.of]

SaveHolds(sp, b, w, s, ps) ==
    /\ s # NoPlanSave => ps = s.waits
    /\ s.at = "years" => (\A p \in ps : p.of \in MultiYears) /\ SentHolds(sp, b, w, s.edited)
    /\ s.at = "periods" => WrittenHolds(sp, s.edited, ps)

\* A write changes only what was typed.
PostsHold(sp, w, ps) ==
    \A p \in ps : p.of \in PlanPeriods =>
        \A c \in DOMAIN p.plan : c \in DOMAIN w[p.of] \/ IsStored(sp, p.of, p.plan, c)

\* A period whose rows are yet to be inserted has none, and nobody typed any.
NewHolds(sp, w, cr) ==
    /\ cr.at \in {"insert", "rows"} => DOMAIN w[cr.period] = {}
    /\ cr.at = "rows" => DOMAIN sp[cr.period] = {}

CalmHolds(sp, ed, b, w, s, ps, cr) ==
    /\ EditedHolds(sp, ed, w) /\ BaseHolds(sp, b, w) /\ WishHolds(ed, b, w)
    /\ SaveHolds(sp, b, w, s, ps) /\ PostsHold(sp, w, ps) /\ NewHolds(sp, w, cr)

PlansInv ==
    /\ TypesUpto(tally.plans + 1) /\ There /\ CleanHolds
    /\ calm => CalmHolds(storedPlans, sheet.edited, sheet.base, wish, planSave, posts, creating)

-------------------------------------------------------------------------------
(* Plans and lists *)

LEMMA PlansAre ==
    ASSUME NEW n, NEW f \in Upto(n)
    PROVE  DOMAIN f \subseteq Categories /\ \A c \in DOMAIN f : f[c] \in 0..n
BY DEF Upto

LEMMA ListsAre ==
    ASSUME NEW n, NEW f \in ListsUpto(n)
    PROVE  DOMAIN f \subseteq PlanPeriods /\ \A q \in DOMAIN f : f[q] \in Upto(n)
BY DEF ListsUpto

LEMMA PlansMade ==
    ASSUME NEW n, NEW S \in SUBSET Categories, NEW f \in [S -> 0..n]
    PROVE  f \in Upto(n)
BY DEF Upto

LEMMA ListsMade ==
    ASSUME NEW n, NEW S \in SUBSET PlanPeriods, NEW f \in [S -> Upto(n)]
    PROVE  f \in ListsUpto(n)
BY DEF ListsUpto

LEMMA BlankIs == Blank \in Upto(0) /\ DOMAIN Blank = {}
PROOF
    <1>1. Blank \in [{} -> 0..0]  BY DEF Blank
    <1> QED  BY <1>1, PlansMade DEF Blank

LEMMA UptoGrows ==
    ASSUME NEW n \in Nat, NEW m \in Nat, n <= m
    PROVE  /\ 0..n \subseteq 0..m /\ Upto(n) \subseteq Upto(m)
           /\ ListsUpto(n) \subseteq ListsUpto(m) /\ PostsUpto(n) \subseteq PostsUpto(m)
           /\ LoadsUpto(n) \subseteq LoadsUpto(m) /\ SavesUpto(n) \subseteq SavesUpto(m)
PROOF
    <1>1. 0..n \subseteq 0..m  OBVIOUS
    <1>2. Upto(n) \subseteq Upto(m)
        <2>1. SUFFICES ASSUME NEW f \in Upto(n) PROVE f \in Upto(m)  OBVIOUS
        <2>2. PICK S \in SUBSET Categories : f \in [S -> 0..n]  BY DEF Upto
        <2>3. f \in [S -> 0..m]  BY <1>1, <2>2
        <2> QED  BY <2>3, PlansMade
    <1>3. ListsUpto(n) \subseteq ListsUpto(m)
        <2>1. SUFFICES ASSUME NEW f \in ListsUpto(n) PROVE f \in ListsUpto(m)  OBVIOUS
        <2>2. PICK S \in SUBSET PlanPeriods : f \in [S -> Upto(n)]  BY DEF ListsUpto
        <2>3. f \in [S -> Upto(m)]  BY <1>2, <2>2
        <2> QED  BY <2>3, ListsMade
    <1>4. PostsUpto(n) \subseteq PostsUpto(m)  BY <1>1, <1>2 DEF PostsUpto
    <1>5. [MultiYears -> 0..n] \subseteq [MultiYears -> 0..m]  BY <1>1
    <1> QED  BY <1>1, <1>2, <1>3, <1>4, <1>5 DEF LoadsUpto, SavesUpto

LEMMA OverIs ==
    ASSUME NEW f, NEW g, NEW h, h = Over(f, g)
    PROVE  /\ DOMAIN h = DOMAIN f \cup DOMAIN g
           /\ \A x \in DOMAIN f : h[x] = f[x]
           /\ \A x \in DOMAIN g \ DOMAIN f : h[x] = g[x]
BY DEF Over

LEMMA OverPlans ==
    ASSUME NEW n, NEW f \in Upto(n), NEW g \in Upto(n)
    PROVE  Over(f, g) \in Upto(n)
PROOF
    <1>1. PICK h : h = Over(f, g)  OBVIOUS
    <1>2. h \in [DOMAIN f \cup DOMAIN g -> 0..n]  BY <1>1, PlansAre DEF Over
    <1>3. DOMAIN f \cup DOMAIN g \in SUBSET Categories  BY PlansAre
    <1> QED  BY <1>1, <1>2, <1>3, PlansMade

LEMMA OverLists ==
    ASSUME NEW n, NEW f \in ListsUpto(n), NEW g \in ListsUpto(n)
    PROVE  Over(f, g) \in ListsUpto(n)
PROOF
    <1>1. PICK h : h = Over(f, g)  OBVIOUS
    <1>2. h \in [DOMAIN f \cup DOMAIN g -> Upto(n)]  BY <1>1, ListsAre DEF Over
    <1>3. DOMAIN f \cup DOMAIN g \in SUBSET PlanPeriods  BY ListsAre
    <1> QED  BY <1>1, <1>2, <1>3, ListsMade

LEMMA TypedIs ==
    ASSUME NEW n \in Nat, NEW f \in Upto(n), NEW c \in Categories, NEW a \in 0..n,
           NEW h, h = Typed(f, c, a)
    PROVE  /\ h \in Upto(n) /\ DOMAIN h = DOMAIN f \cup {c} /\ h[c] = a
           /\ \A d \in DOMAIN f : d # c => h[d] = f[d]
PROOF
    <1>1. PICK g : g = [d \in {c} |-> a]  OBVIOUS
    <1>2. g \in [{c} -> 0..n] /\ DOMAIN g = {c} /\ g[c] = a  BY <1>1
    <1>3. g \in Upto(n)  BY <1>2, PlansMade
    <1>4. h = Over(g, f)  BY <1>1 DEF Typed
    <1>5. h \in Upto(n)  BY <1>3, <1>4, OverPlans
    <1>6. /\ DOMAIN h = {c} \cup DOMAIN f /\ h[c] = g[c]
          /\ \A d \in DOMAIN f \ {c} : h[d] = f[d]
        <2>1. /\ DOMAIN h = DOMAIN g \cup DOMAIN f
              /\ \A x \in DOMAIN g : h[x] = g[x]
              /\ \A x \in DOMAIN f \ DOMAIN g : h[x] = f[x]
            BY <1>4 DEF Over
        <2> QED  BY <2>1, <1>2
    <1> QED  BY <1>2, <1>5, <1>6

LEMMA SummariesAre ==
    ASSUME NEW n \in Nat, NEW S \in SUBSET PlanPeriods, NEW l \in ListsUpto(n),
           NEW h, h = Summaries(S, l)
    PROVE  /\ h \in ListsUpto(n) /\ DOMAIN h = S
           /\ \A q \in S : /\ q \in DOMAIN l => h[q] = l[q]
                           /\ q \notin DOMAIN l => DOMAIN h[q] = {}
PROOF
    <1>1. Blank \in Upto(n)  BY BlankIs, UptoGrows
    <1>2. h \in [S -> Upto(n)]  BY <1>1, ListsAre DEF Summaries
    <1> QED  BY <1>2, ListsMade, BlankIs DEF Summaries

-------------------------------------------------------------------------------
(* Types *)

\* The sheet that a load leaves.
LEMMA LoadedTypes ==
    ASSUME NEW n \in Nat, TypesUpto(n), NEW y, NEW found \in ListsUpto(n), NEW wasDirty \in BOOLEAN,
           NEW open \in SUBSET MultiYears, ShowLoaded(y, found, wasDirty, open)
    PROVE  /\ sheet' \in [edited : ListsUpto(n), base : ListsUpto(n), dirty : BOOLEAN,
                          open : SUBSET MultiYears]
           /\ calm' \in BOOLEAN
PROOF
    <1>1. sheet \in [edited : ListsUpto(n), base : ListsUpto(n), dirty : BOOLEAN,
                     open : SUBSET MultiYears] /\ calm \in BOOLEAN
        BY DEF TypesUpto
    <1>2. PICK next \in ListsUpto(n) : next = Over(found, sheet.edited)  BY <1>1, OverLists
    <1>3. sheet' = [edited |-> next, base |-> IF wasDirty THEN sheet.base ELSE next,
                    dirty |-> sheet.dirty, open |-> open]
        BY <1>2 DEF ShowLoaded
    <1>4. calm' \in BOOLEAN  BY <1>1 DEF ShowLoaded
    <1> QED  BY <1>1, <1>3, <1>4

\* What the user types, with all that may be known of periods growing by it.
LEMMA TypingTypes ==
    ASSUME NEW n \in Nat, TypesUpto(n), tally.plans + 2 <= n,
           \/ \E q \in PlanPeriods, c \in Categories : TypePlan(q, c)
           \/ \E y \in MultiYears : TypeYear(y)
           \/ \E q \in NewPeriods : AskPeriod(q)
    PROVE  TypesUpto(n)'
PROOF
    <1>1. /\ tally \in [plans : 0..MaxPlans, saves : 0..MaxPlanSaves]
          /\ MaxPlans \in Nat /\ MaxPlanSaves \in Nat /\ NewPeriods \subseteq PlanPeriods
        BY MultiYearAssumption DEF TypesUpto
    <1>2. CanType => tally' \in [plans : 0..MaxPlans, saves : 0..MaxPlanSaves]
        BY <1>1 DEF CanType
    <1>3. tally.plans + 2 \in 0..n  BY <1>1
    <1>4. CASE \E q \in PlanPeriods, c \in Categories : TypePlan(q, c)
        <2>1. PICK q \in PlanPeriods, c \in Categories : TypePlan(q, c)  BY <1>4
        <2>2. PICK a \in 0..n : a = tally.plans + 2  BY <1>3
        <2>3. /\ sheet \in [edited : ListsUpto(n), base : ListsUpto(n), dirty : BOOLEAN,
                            open : SUBSET MultiYears]
              /\ wish \in [PlanPeriods -> Upto(n)]
            BY DEF TypesUpto
        <2>4. PICK e \in ListsUpto(n) : e = sheet.edited  BY <2>3
        <2>5. q \in DOMAIN e /\ e[q] \in Upto(n) /\ wish[q] \in Upto(n)
            BY <2>1, <2>3, <2>4, ListsAre DEF TypePlan
        <2>6. PICK t \in Upto(n) : t = Typed(e[q], c, a)  BY <2>5, TypedIs
        <2>7. PICK u \in Upto(n) : u = Typed(wish[q], c, a)  BY <2>5, TypedIs
        <2>8. [e EXCEPT ![q] = t] \in ListsUpto(n)
            <3>1. DOMAIN e \in SUBSET PlanPeriods /\ e \in [DOMAIN e -> Upto(n)]
                BY <2>4, ListsAre DEF ListsUpto
            <3>2. [e EXCEPT ![q] = t] \in [DOMAIN e -> Upto(n)]  BY <3>1
            <3> QED  BY <3>1, <3>2, ListsMade
        <2>9. sheet' = [sheet EXCEPT !.edited = [e EXCEPT ![q] = t], !.dirty = TRUE]
            BY <2>1, <2>2, <2>3, <2>4, <2>6 DEF TypePlan, Amount
        <2>10. wish' = [wish EXCEPT ![q] = u]  BY <2>1, <2>2, <2>7 DEF TypePlan, Amount
        <2>11. sheet' \in [edited : ListsUpto(n), base : ListsUpto(n), dirty : BOOLEAN,
                           open : SUBSET MultiYears]
            BY <2>3, <2>8, <2>9
        <2>12. wish' \in [PlanPeriods -> Upto(n)]  BY <2>3, <2>10
        <2>13. calm' \in BOOLEAN  BY <2>1 DEF TypePlan, TypesUpto
        <2> QED  BY <2>1, <2>11, <2>12, <2>13, <1>2
                 DEF TypePlan, TypesUpto, serverOnly, asked
    <1>5. CASE \E y \in MultiYears : TypeYear(y)
        <2>1. PICK y \in MultiYears : TypeYear(y)  BY <1>5
        <2>2. years' \in [edited : [MultiYears -> 0..n], base : [MultiYears -> 0..n],
                          page : [MultiYears -> 0..n]]
            BY <1>3, <2>1 DEF TypeYear, Amount, TypesUpto
        <2>3. sheet' \in [edited : ListsUpto(n), base : ListsUpto(n), dirty : BOOLEAN,
                          open : SUBSET MultiYears]
            BY <2>1 DEF TypeYear, TypesUpto
        <2> QED  BY <2>1, <2>2, <2>3, <1>2 DEF TypeYear, TypesUpto, serverOnly, asked
    <1>6. CASE \E q \in NewPeriods : AskPeriod(q)
        <2>1. PICK q \in NewPeriods : AskPeriod(q)  BY <1>6
        <2>2. creating' \in [at : {"insert", "rows", "answer"}, period : PlanPeriods]
            BY <1>1, <2>1 DEF AskPeriod
        <2> QED  BY <2>1, <2>2, <1>2 DEF AskPeriod, TypesUpto, serverOnly, asked
    <1> QED  BY <1>4, <1>5, <1>6

LEMMA RowTypes ==
    ASSUME NEW n \in Nat, TypesUpto(n),
           \/ \E y \in MultiYears : \/ ExpandLoaded(y) \/ ExpandCached(y) \/ ExpandFetch(y)
                                    \/ Collapse(y)
           \/ FetchPlans \/ FetchFails \/ ShowPlans
    PROVE  TypesUpto(n)'
PROOF
    <1> DEFINE Sheets == [edited : ListsUpto(n), base : ListsUpto(n), dirty : BOOLEAN,
                          open : SUBSET MultiYears]
    <1>1. /\ sheet \in Sheets /\ load \in LoadsUpto(n) \cup {NoLoad}
          /\ fetched \in [MultiYears -> ListsUpto(n) \cup {Missing}]
        BY DEF TypesUpto
    <1>2. ASSUME NEW y \in MultiYears, ExpandLoaded(y) \/ Collapse(y)  PROVE TypesUpto(n)'
        <2>1. sheet' \in Sheets  BY <1>1, <1>2 DEF ExpandLoaded, Collapse
        <2> QED  BY <2>1, <1>2 DEF ExpandLoaded, Collapse, TypesUpto, serverOnly, asked
    <1>3. ASSUME NEW y \in MultiYears, ExpandCached(y)  PROVE TypesUpto(n)'
        <2>1. PICK found \in ListsUpto(n) : found = fetched[y]  BY <1>1, <1>3 DEF ExpandCached
        <2>2. PICK open \in SUBSET MultiYears : open = sheet.open \cup {y}  BY <1>1
        <2>3. PICK d \in BOOLEAN : d = sheet.dirty  BY <1>1
        <2>4. ShowLoaded(y, found, d, open)  BY <1>3, <2>1, <2>2, <2>3 DEF ExpandCached
        <2>5. sheet' \in Sheets /\ calm' \in BOOLEAN  BY <2>4, LoadedTypes
        <2> QED  BY <2>5, <1>3 DEF ExpandCached, TypesUpto, serverOnly, asked
    <1>4. ASSUME NEW y \in MultiYears, ExpandFetch(y)  PROVE TypesUpto(n)'
        <2>1. sheet' \in Sheets  BY <1>1, <1>4 DEF ExpandFetch
        <2>2. [q \in {} |-> Blank] \in [{} -> Upto(n)]  OBVIOUS
        <2>3. [q \in {} |-> Blank] \in ListsUpto(n)  BY <2>2, ListsMade
        <2>4. load' \in LoadsUpto(n)  BY <1>1, <1>4, <2>3 DEF ExpandFetch, LoadsUpto
        <2> QED  BY <2>1, <2>4, <1>4 DEF ExpandFetch, TypesUpto, serverOnly, asked
    <1>5. CASE FetchPlans \/ FetchFails
        <2>1. load.at = "fetch"  BY <1>5 DEF FetchPlans, FetchFails
        <2>2. load \in LoadsUpto(n)  BY <1>1, <2>1 DEF NoLoad
        <2>3. [q \in PeriodsOf(load.year) \cap Existing |-> storedPlans[q]] \in ListsUpto(n)
            <3>1. PICK S \in SUBSET PlanPeriods : S = PeriodsOf(load.year) \cap Existing
                BY DEF Existing
            <3>2. \A q \in S : storedPlans[q] \in Upto(n)  BY <3>1 DEF Existing, TypesUpto
            <3>3. [q \in S |-> storedPlans[q]] \in [S -> Upto(n)]  BY <3>2
            <3> QED  BY <3>1, <3>3, ListsMade
        <2>4. load' \in LoadsUpto(n)  BY <1>5, <2>2, <2>3 DEF FetchPlans, FetchFails, LoadsUpto
        <2> QED  BY <2>4, <1>5 DEF FetchPlans, FetchFails, TypesUpto, serverOnly, asked
    <1>6. CASE ShowPlans
        <2>1. load.at = "show"  BY <1>6 DEF ShowPlans
        <2>2. load \in LoadsUpto(n)  BY <1>1, <2>1 DEF NoLoad
        <2>3. PICK y \in MultiYears : y = load.year  BY <2>2 DEF LoadsUpto
        <2>4. PICK found \in ListsUpto(n) : found = load.found  BY <2>2 DEF LoadsUpto
        <2>5. PICK d \in BOOLEAN : d = load.wasDirty  BY <2>2 DEF LoadsUpto
        <2>6. PICK open \in SUBSET MultiYears : open = sheet.open  BY <1>1
        <2>7. ShowLoaded(y, found, d, open)  BY <1>6, <2>3, <2>4, <2>5, <2>6 DEF ShowPlans
        <2>8. sheet' \in Sheets /\ calm' \in BOOLEAN  BY <2>7, LoadedTypes
        <2>9. fetched' = [fetched EXCEPT ![y] = found]  BY <1>6, <2>3, <2>4 DEF ShowPlans
        <2>10. fetched' \in [MultiYears -> ListsUpto(n) \cup {Missing}]  BY <2>9, <1>1
        <2> QED  BY <2>8, <2>10, <1>6 DEF ShowPlans, TypesUpto, serverOnly
    <1> QED  BY <1>2, <1>3, <1>4, <1>5, <1>6

LEMMA MissingIs ==
    ASSUME NEW n \in Nat, n <= MaxPlans + 1
    PROVE  Missing \notin Upto(n) /\ Missing \notin ListsUpto(n)
PROOF
    <1>1. MaxPlans + 1 \in Nat  BY MultiYearAssumption
    <1>2. Upto(n) \subseteq Upto(MaxPlans + 1) /\ ListsUpto(n) \subseteq ListsUpto(MaxPlans + 1)
        BY <1>1, UptoGrows
    <1>3. Upto(MaxPlans + 1) = Plans  BY DEF Upto, Plans, Amounts
    <1>4. ListsUpto(MaxPlans + 1) = Lists  BY <1>3 DEF ListsUpto, Lists
    <1> QED  BY <1>2, <1>3, <1>4, MultiYearAssumption

LEMMA PostsAre ==
    ASSUME NEW n, NEW p \in PostsUpto(n)
    PROVE  /\ p.of \in MultiYears \cup PlanPeriods
           /\ p.of \in MultiYears <=> p.of \notin PlanPeriods
           /\ p.of \in MultiYears => p.plan \in 0..n
           /\ p.of \in PlanPeriods => p.plan \in Upto(n)
BY MultiYearAssumption DEF PostsUpto

LEMMA WritesTypes ==
    ASSUME NEW n \in Nat, n <= MaxPlans + 1, TypesUpto(n), There, NEW p \in posts,
           Writes(p) \/ UNCHANGED << storedPlans, storedYears >>
    PROVE  /\ storedPlans' \in [PlanPeriods -> Upto(n) \cup {Missing}]
           /\ storedYears' \in [MultiYears -> 0..n]
           /\ \A q \in Existing : storedPlans'[q] # Missing
PROOF
    <1>1. /\ storedPlans \in [PlanPeriods -> Upto(n) \cup {Missing}]
          /\ storedYears \in [MultiYears -> 0..n] /\ p \in PostsUpto(n)
        BY DEF TypesUpto
    <1>2. CASE UNCHANGED << storedPlans, storedYears >>  BY <1>1, <1>2 DEF Existing
    <1>3. CASE Writes(p) /\ p.of \in MultiYears
        <2>1. /\ storedYears' = [storedYears EXCEPT ![p.of] = p.plan]
              /\ storedPlans' = storedPlans
            BY <1>3 DEF Writes
        <2> QED  BY <2>1, <1>1, <1>3, PostsAre DEF Existing
    <1>4. CASE Writes(p) /\ p.of \notin MultiYears
        <2>1. PICK q \in PlanPeriods : q = p.of  BY <1>1, <1>4, PostsAre
        <2>2. PICK f \in Upto(n) : f = p.plan  BY <1>1, <2>1, PostsAre
        <2>3. q \in Existing  BY <2>1 DEF There
        <2>4. storedPlans[q] \in Upto(n)  BY <2>3, <1>1 DEF Existing
        <2>5. PICK g \in Upto(n) : g = Over(f, storedPlans[q])  BY <2>4, OverPlans
        <2>6. storedPlans' = [storedPlans EXCEPT ![q] = g] /\ storedYears' = storedYears
            BY <1>4, <2>1, <2>2, <2>5 DEF Writes
        <2>7. g # Missing  BY MissingIs
        <2> QED  BY <2>6, <2>7, <1>1 DEF Existing
    <1> QED  BY <1>2, <1>3, <1>4

LEMMA SaveTypes ==
    ASSUME NEW n \in Nat, n <= MaxPlans + 1, TypesUpto(n), There,
           Cancel \/ Reopen \/ SavePlans \/ StartPeriods \/ PostStep \/ SaveAnswered
    PROVE  TypesUpto(n)'
PROOF
    <1> DEFINE Sheets == [edited : ListsUpto(n), base : ListsUpto(n), dirty : BOOLEAN,
                          open : SUBSET MultiYears]
               Years == [edited : [MultiYears -> 0..n], base : [MultiYears -> 0..n],
                         page : [MultiYears -> 0..n]]
    <1>1. /\ sheet \in Sheets /\ years \in Years /\ planSave \in SavesUpto(n) \cup {NoPlanSave}
          /\ posts \subseteq PostsUpto(n) /\ calm \in BOOLEAN
        BY DEF TypesUpto
    <1>2. NoWish \in [PlanPeriods -> Upto(n)]
        <2>1. Blank \in Upto(n)  BY BlankIs, UptoGrows
        <2> QED  BY <2>1 DEF NoWish
    <1>3. PICK S \in SUBSET PlanPeriods : S = shell.periods  BY DEF TypesUpto
    <1>4. CASE Cancel
        <2>1. PICK b \in ListsUpto(n) : b = sheet.base  BY <1>1
        <2>6. PICK e \in ListsUpto(n) : e = Summaries(S, b)  BY SummariesAre
        <2>2. sheet' = [sheet EXCEPT !.edited = e, !.dirty = FALSE]
            BY <1>3, <1>4, <2>1, <2>6 DEF Cancel
        <2>3. sheet' \in Sheets  BY <2>2, <1>1
        <2>4. years' \in Years  BY <1>1, <1>4 DEF Cancel
        <2>5. calm' \in BOOLEAN  BY <1>4 DEF Cancel
        <2> QED  BY <2>3, <2>4, <2>5, <1>2, <1>4 DEF Cancel, TypesUpto, serverOnly, asked
    <1>5. CASE Reopen
        <2>1. [q \in S |-> Blank] \in ListsUpto(n)
            <3>1. Blank \in Upto(n)  BY BlankIs, UptoGrows
            <3>2. [q \in S |-> Blank] \in [S -> Upto(n)]  BY <3>1
            <3> QED  BY <3>2, ListsMade
        <2>2. sheet' \in Sheets  BY <2>1, <1>3, <1>5 DEF Reopen, Opened
        <2>3. years' \in Years  BY <1>1, <1>5 DEF Reopen
        <2> QED  BY <2>2, <2>3, <1>5 DEF Reopen, TypesUpto, serverOnly, asked
    <1>6. CASE SavePlans
        <2>1. PICK w : w = {[of |-> y, plan |-> years.edited[y]] :
                               y \in {z \in MultiYears : years.edited[z] # years.base[z]}}
            OBVIOUS
        <2>2. w \subseteq PostsUpto(n)  BY <2>1, <1>1 DEF PostsUpto
        <2>3. planSave' = [at |-> "years", edited |-> sheet.edited, years |-> years.edited,
                           waits |-> w]
            BY <1>6, <2>1 DEF SavePlans
        <2>4. planSave' \in SavesUpto(n)  BY <2>2, <2>3, <1>1 DEF SavesUpto
        <2>5. posts' = posts \cup w  BY <1>6, <2>1 DEF SavePlans
        <2>6. posts' \subseteq PostsUpto(n)  BY <2>2, <2>5, <1>1
        <2>7. tally' \in [plans : 0..MaxPlans, saves : 0..MaxPlanSaves]
            BY <1>6, MultiYearAssumption DEF SavePlans, TypesUpto
        <2>8. calm' \in BOOLEAN  BY <1>6 DEF SavePlans
        <2> QED  BY <2>4, <2>6, <2>7, <2>8, <1>6 DEF SavePlans, TypesUpto, asked
    <1>7. CASE StartPeriods
        <2>1. planSave \in SavesUpto(n)  BY <1>1, <1>7 DEF StartPeriods, NoPlanSave
        <2>2. PICK e \in ListsUpto(n) : e = planSave.edited  BY <2>1 DEF SavesUpto
        <2>3. PICK changed : changed =
                 {q \in DOMAIN e \cap DOMAIN sheet.base : PlansDiffer(sheet.base[q], e[q])}
            OBVIOUS
        <2>4. PICK w : w = {[of |-> q, plan |-> e[q]] : q \in changed}  OBVIOUS
        <2>5. \A q \in changed : q \in PlanPeriods /\ e[q] \in Upto(n)  BY <2>3, ListsAre
        <2>6. w \subseteq PostsUpto(n)  BY <2>4, <2>5 DEF PostsUpto
        <2>7. planSave' = [planSave EXCEPT !.at = "periods", !.waits = w]
            BY <1>7, <2>2, <2>3, <2>4 DEF StartPeriods
        <2>8. planSave' \in SavesUpto(n)  BY <2>1, <2>6, <2>7 DEF SavesUpto
        <2>9. posts' = posts \cup w  BY <1>7, <2>2, <2>3, <2>4 DEF StartPeriods
        <2>10. posts' \subseteq PostsUpto(n)  BY <2>6, <2>9, <1>1
        <2> QED  BY <2>8, <2>10, <1>7 DEF StartPeriods, TypesUpto, asked
    <1>8. CASE PostStep
        <2>1. PICK p \in posts : PostLands(p) \/ PostFails(p)  BY <1>8 DEF PostStep
        <2>2. storedPlans' \in [PlanPeriods -> Upto(n) \cup {Missing}]
              /\ storedYears' \in [MultiYears -> 0..n]
            BY <2>1, WritesTypes DEF PostLands, PostFails
        <2>3. [planSave EXCEPT !.waits = @ \ {p}] \in SavesUpto(n) \cup {NoPlanSave}
            <3>1. CASE planSave \in SavesUpto(n)  BY <3>1 DEF SavesUpto
            <3>2. CASE planSave = NoPlanSave
                <4>1. [NoPlanSave EXCEPT !.waits = @ \ {p}] = NoPlanSave  BY DEF NoPlanSave
                <4> QED  BY <4>1, <3>2
            <3> QED  BY <3>1, <3>2, <1>1
        <2>4. planSave' \in SavesUpto(n) \cup {NoPlanSave}
            BY <2>1, <2>3, <1>1 DEF PostLands, PostFails
        <2>5. posts' \subseteq PostsUpto(n)  BY <2>1, <1>1 DEF PostLands, PostFails
        <2> QED  BY <2>1, <2>2, <2>4, <2>5 DEF PostLands, PostFails, TypesUpto, postOnly, asked
    <1>9. CASE SaveAnswered
        <2>1. planSave \in SavesUpto(n)  BY <1>1, <1>9 DEF SaveAnswered, NoPlanSave
        <2>2. PICK e \in ListsUpto(n) : e = planSave.edited  BY <2>1 DEF SavesUpto
        <2>3. PICK h \in ListsUpto(n) : h = Summaries(S, e)  BY SummariesAre
        <2>4. sheet' = [sheet EXCEPT !.edited = h, !.base = e, !.dirty = FALSE]
            BY <1>3, <1>9, <2>2, <2>3 DEF SaveAnswered
        <2>5. sheet' \in Sheets  BY <2>4, <1>1
        <2>6. planSave.years \in [MultiYears -> 0..n]  BY <2>1 DEF SavesUpto
        <2>7. years' \in Years  BY <2>6, <1>9 DEF SaveAnswered
        <2>8. calm' \in BOOLEAN  BY <1>9 DEF SaveAnswered
        <2> QED  BY <2>5, <2>7, <2>8, <1>2, <1>9 DEF SaveAnswered, TypesUpto, serverOnly
    <1> QED  BY <1>4, <1>5, <1>6, <1>7, <1>8, <1>9

LEMMA OtherTypes ==
    ASSUME NEW n \in Nat, n > 0, n <= MaxPlans + 1, TypesUpto(n), There,
           \/ RefreshShell \/ RefetchPage
           \/ InsertPeriod \/ InsertPlanRows \/ PeriodCreated \/ PeriodFails
    PROVE  TypesUpto(n)'
PROOF
    <1> DEFINE Sheets == [edited : ListsUpto(n), base : ListsUpto(n), dirty : BOOLEAN,
                          open : SUBSET MultiYears]
    <1>1. /\ sheet \in Sheets /\ storedPlans \in [PlanPeriods -> Upto(n) \cup {Missing}]
          /\ creating \in [at : {"insert", "rows", "answer"}, period : PlanPeriods] \cup {NoPeriod}
        BY DEF TypesUpto
    <1>2. Blank \in Upto(n)  BY BlankIs, UptoGrows
    <1>3. CASE RefreshShell
        <2>1. PICK S \in SUBSET PlanPeriods : S = Existing  BY DEF Existing
        <2>2. shell' = [periods |-> S, years |-> storedYears]  BY <1>3, <2>1 DEF RefreshShell
        <2>3. shell' \in [periods : SUBSET PlanPeriods, years : [MultiYears -> 0..n]]
            BY <2>2 DEF TypesUpto
        <2>4. PICK h \in ListsUpto(n) : h = Summaries(S, sheet.edited)  BY <1>1, SummariesAre
        <2>5. sheet' = IF sheet.dirty THEN sheet ELSE [sheet EXCEPT !.edited = h]
            BY <1>3, <2>2, <2>4 DEF RefreshShell
        <2>6. sheet' \in Sheets  BY <2>5, <1>1
        <2> QED  BY <2>3, <2>6, <1>3 DEF RefreshShell, TypesUpto, serverOnly
    <1>4. CASE RefetchPage
        <2>1. years' \in [edited : [MultiYears -> 0..n], base : [MultiYears -> 0..n],
                          page : [MultiYears -> 0..n]]
            BY <1>4 DEF RefetchPage, TypesUpto
        <2> QED  BY <2>1, <1>4 DEF RefetchPage, TypesUpto, serverOnly
    <1>5. CASE InsertPeriod \/ InsertPlanRows \/ PeriodFails
        <2>1. creating \in [at : {"insert", "rows", "answer"}, period : PlanPeriods]
            BY <1>1, <1>5 DEF InsertPeriod, InsertPlanRows, PeriodFails, NoPeriod
        <2>2. [c \in Categories |-> 0] \in Upto(n)
            <3>1. [c \in Categories |-> 0] \in [Categories -> 0..n]  OBVIOUS
            <3> QED  BY <3>1, PlansMade
        <2>3. storedPlans' \in [PlanPeriods -> Upto(n) \cup {Missing}]
            BY <1>1, <1>2, <1>5, <2>1, <2>2 DEF InsertPeriod, InsertPlanRows, PeriodFails, createOnly
        <2>4. creating' \in [at : {"insert", "rows", "answer"}, period : PlanPeriods]
                           \cup {NoPeriod}
            BY <1>5, <2>1 DEF InsertPeriod, InsertPlanRows, PeriodFails
        <2> QED  BY <2>3, <2>4, <1>5
                 DEF InsertPeriod, InsertPlanRows, PeriodFails, TypesUpto, createOnly
    <1>6. CASE PeriodCreated
        <2>1. creating \in [at : {"insert", "rows", "answer"}, period : PlanPeriods]
            BY <1>1, <1>6 DEF PeriodCreated, NoPeriod
        <2>2. PICK q \in PlanPeriods : q = creating.period  BY <2>1
        <2>3. PICK one \in ListsUpto(n) : one = [x \in {q} |-> Blank]
            <3>1. [x \in {q} |-> Blank] \in [{q} -> Upto(n)]  BY <1>2
            <3> QED  BY <3>1, ListsMade
        <2>4. PICK h \in ListsUpto(n) : h = Over(sheet.edited, one)  BY <1>1, OverLists
        <2>5. sheet' = [sheet EXCEPT !.edited = h]  BY <1>6, <2>2, <2>3, <2>4 DEF PeriodCreated
        <2>6. sheet' \in Sheets  BY <2>5, <1>1
        <2> QED  BY <2>6, <1>6 DEF PeriodCreated, TypesUpto, createOnly
    <1> QED  BY <1>3, <1>4, <1>5, <1>6

-------------------------------------------------------------------------------
(* What is known is there *)

\* A step that writes no plans and leaves what is under way.
LEMMA ThereStays ==
    ASSUME There, UNCHANGED << storedPlans, planSave, posts >>,
           shell' = shell \/ shell'.periods \subseteq Existing,
           DOMAIN sheet'.edited \subseteq Existing, DOMAIN sheet'.base \subseteq Existing,
           \A y \in MultiYears :
              fetched'[y] = fetched[y] \/ DOMAIN fetched'[y] \subseteq Existing,
           load' = load \/ (load' # NoLoad => DOMAIN load'.found \subseteq Existing),
           \/ creating' = creating
           \/ creating'.at = "none"
           \/ creating'.at = "insert" /\ creating'.period \notin Existing
    PROVE  There'
PROOF
    <1>1. Existing' = Existing  BY DEF Existing
    <1>2. shell'.periods \subseteq Existing  BY DEF There
    <1>3. load' # NoLoad => DOMAIN load'.found \subseteq Existing  BY DEF There
    <1>4. \A y \in MultiYears : fetched'[y] # Missing => DOMAIN fetched'[y] \subseteq Existing
        BY DEF There
    <1>5. /\ creating'.at \in {"rows", "answer"} => creating'.period \in Existing
          /\ creating'.at = "insert" => creating'.period \notin Existing
        BY DEF There
    <1> QED  BY <1>1, <1>2, <1>3, <1>4, <1>5 DEF There

LEMMA RowsThere ==
    ASSUME NEW n \in Nat, TypesUpto(n), There,
           \/ \E q \in PlanPeriods, c \in Categories : TypePlan(q, c)
           \/ \E y \in MultiYears : RowStep(y)
           \/ FetchPlans \/ FetchFails \/ ShowPlans
           \/ RefetchPage \/ \E q \in NewPeriods : AskPeriod(q)
    PROVE  There'
PROOF
    <1>1. /\ sheet \in [edited : ListsUpto(n), base : ListsUpto(n), dirty : BOOLEAN,
                        open : SUBSET MultiYears]
          /\ fetched \in [MultiYears -> ListsUpto(n) \cup {Missing}]
          /\ load \in LoadsUpto(n) \cup {NoLoad}
          /\ NewPeriods \subseteq PlanPeriods
        BY MultiYearAssumption DEF TypesUpto
    <1>2. DOMAIN sheet.edited \subseteq Existing /\ DOMAIN sheet.base \subseteq Existing
        BY DEF There
    <1>3. ASSUME NEW y, NEW found, NEW d, NEW open, ShowLoaded(y, found, d, open),
                 DOMAIN found \subseteq Existing
          PROVE  DOMAIN sheet'.edited \subseteq Existing /\ DOMAIN sheet'.base \subseteq Existing
        <2>1. PICK next : next = Over(found, sheet.edited)  OBVIOUS
        <2>2. DOMAIN next \subseteq Existing  BY <1>2, <1>3, <2>1 DEF Over
        <2>3. sheet'.edited = next /\ sheet'.base = IF d THEN sheet.base ELSE next
            BY <1>3, <2>1 DEF ShowLoaded
        <2> QED  BY <1>2, <2>2, <2>3
    <1>4. ASSUME NEW q \in PlanPeriods, NEW c \in Categories, TypePlan(q, c)  PROVE There'
        <2>1. PICK t : sheet' = [sheet EXCEPT !.edited[q] = t, !.dirty = TRUE]
            BY <1>4 DEF TypePlan
        <2>2. DOMAIN sheet'.edited = DOMAIN sheet.edited /\ sheet'.base = sheet.base
            BY <1>1, <2>1
        <2> QED  BY <1>2, <1>4, <2>2, ThereStays DEF TypePlan, serverOnly, asked
    <1>5. ASSUME NEW y \in MultiYears, RowStep(y)  PROVE There'
        <2>1. CASE ExpandLoaded(y) \/ Collapse(y) \/ TypeYear(y)
            <3>1. sheet'.edited = sheet.edited /\ sheet'.base = sheet.base
                BY <1>1, <2>1 DEF ExpandLoaded, Collapse, TypeYear
            <3> QED  BY <1>2, <2>1, <3>1, ThereStays
                     DEF ExpandLoaded, Collapse, TypeYear, serverOnly, asked
        <2>2. CASE ExpandFetch(y)
            <3>1. sheet'.edited = sheet.edited /\ sheet'.base = sheet.base
                BY <1>1, <2>2 DEF ExpandFetch
            <3>2. DOMAIN load'.found = {}  BY <2>2 DEF ExpandFetch
            <3> QED  BY <1>2, <2>2, <3>1, <3>2, ThereStays DEF ExpandFetch, serverOnly, asked
        <2>3. CASE ExpandCached(y)
            <3>1. DOMAIN fetched[y] \subseteq Existing  BY <2>3 DEF ExpandCached, There
            <3>2. DOMAIN sheet'.edited \subseteq Existing /\ DOMAIN sheet'.base \subseteq Existing
                BY <1>3, <2>3, <3>1 DEF ExpandCached
            <3> QED  BY <2>3, <3>2, ThereStays DEF ExpandCached, serverOnly, asked
        <2> QED  BY <1>5, <2>1, <2>2, <2>3 DEF RowStep
    <1>6. CASE FetchPlans \/ FetchFails
        <2>1. load \in LoadsUpto(n)  BY <1>1, <1>6 DEF FetchPlans, FetchFails, NoLoad
        <2>2. load # NoLoad  BY <1>6 DEF FetchPlans, FetchFails, NoLoad
        <2>3. DOMAIN load'.found \subseteq Existing
            <3>1. PICK f : f = [q \in PeriodsOf(load.year) \cap Existing |-> storedPlans[q]]
                OBVIOUS
            <3>2. DOMAIN f \subseteq Existing  BY <3>1
            <3>3. CASE FetchPlans
                <4>1. load' = [load EXCEPT !.at = "show", !.found = f]
                    BY <3>1, <3>3 DEF FetchPlans
                <4>2. load'.found = f  BY <4>1, <2>1 DEF LoadsUpto
                <4> QED  BY <3>2, <4>2
            <3>4. CASE FetchFails
                <4>1. load' = [load EXCEPT !.at = "show"]  BY <3>4 DEF FetchFails
                <4>2. load'.found = load.found  BY <4>1, <2>1 DEF LoadsUpto
                <4> QED  BY <2>2, <4>2 DEF There
            <3> QED  BY <1>6, <3>3, <3>4
        <2>4. sheet' = sheet /\ shell' = shell /\ fetched' = fetched /\ creating' = creating
              /\ UNCHANGED << storedPlans, planSave, posts >>
            BY <1>6 DEF FetchPlans, FetchFails, serverOnly, asked
        <2> QED  BY <1>2, <2>3, <2>4, ThereStays
    <1>7. CASE ShowPlans
        <2>1. load \in LoadsUpto(n) /\ load # NoLoad  BY <1>1, <1>7 DEF ShowPlans, NoLoad
        <2>2. PICK f : f = load.found  OBVIOUS
        <2>3. DOMAIN f \subseteq Existing  BY <2>1, <2>2 DEF There
        <2>4. DOMAIN sheet'.edited \subseteq Existing /\ DOMAIN sheet'.base \subseteq Existing
            BY <1>3, <1>7, <2>2, <2>3 DEF ShowPlans
        <2>5. fetched' = [fetched EXCEPT ![load.year] = f]  BY <1>7, <2>2 DEF ShowPlans
        <2>6. \A y \in MultiYears :
                 fetched'[y] = fetched[y] \/ DOMAIN fetched'[y] \subseteq Existing
            BY <1>1, <2>3, <2>5
        <2>7. /\ load' = NoLoad /\ shell' = shell /\ creating' = creating
              /\ UNCHANGED << storedPlans, planSave, posts >>
            BY <1>7 DEF ShowPlans, serverOnly
        <2> QED  BY <2>4, <2>6, <2>7, ThereStays
    <1>8. CASE RefetchPage
        BY <1>2, <1>8, ThereStays DEF RefetchPage, serverOnly
    <1>9. ASSUME NEW q \in NewPeriods, AskPeriod(q)  PROVE There'
        <2>1. creating'.at = "insert" /\ creating'.period \notin Existing
            BY <1>9 DEF AskPeriod, Existing
        <2> QED  BY <1>2, <1>9, <2>1, ThereStays DEF AskPeriod, serverOnly, asked
    <1> QED  BY <1>4, <1>5, <1>6, <1>7, <1>8, <1>9

LEMMA SavesThere ==
    ASSUME NEW n \in Nat, n > 0, n <= MaxPlans + 1, TypesUpto(n), There,
           \/ Cancel \/ Reopen \/ SavePlans \/ StartPeriods \/ PostStep \/ SaveAnswered
           \/ RefreshShell \/ InsertPeriod \/ InsertPlanRows \/ PeriodCreated \/ PeriodFails
    PROVE  There'
PROOF
    <1>1. /\ sheet \in [edited : ListsUpto(n), base : ListsUpto(n), dirty : BOOLEAN,
                        open : SUBSET MultiYears]
          /\ planSave \in SavesUpto(n) \cup {NoPlanSave}
          /\ posts \subseteq PostsUpto(n)
          /\ creating \in [at : {"insert", "rows", "answer"}, period : PlanPeriods] \cup {NoPeriod}
          /\ storedPlans \in [PlanPeriods -> Upto(n) \cup {Missing}]
        BY DEF TypesUpto
    <1>2. /\ DOMAIN sheet.edited \subseteq Existing /\ DOMAIN sheet.base \subseteq Existing
          /\ shell.periods \subseteq Existing
        BY DEF There
    <1>3. \A S, l : DOMAIN Summaries(S, l) = S  BY DEF Summaries
    <1>4. CASE Cancel
        <2>1. sheet'.edited = Summaries(shell.periods, sheet.base) /\ sheet'.base = sheet.base
            BY <1>1, <1>4 DEF Cancel
        <2>2. DOMAIN sheet'.edited \subseteq Existing  BY <1>2, <1>3, <2>1
        <2> QED  BY <1>2, <1>4, <2>1, <2>2, ThereStays DEF Cancel, serverOnly, asked
    <1>5. CASE Reopen
        <2>1. DOMAIN sheet'.edited = shell.periods /\ DOMAIN sheet'.base = shell.periods
            BY <1>5 DEF Reopen, Opened
        <2> QED  BY <1>2, <1>5, <2>1, ThereStays DEF Reopen, serverOnly, asked
    <1>6. CASE SavePlans
        <2>1. PICK w : w = {[of |-> y, plan |-> years.edited[y]] :
                               y \in {z \in MultiYears : years.edited[z] # years.base[z]}}
            OBVIOUS
        <2>2. \A p \in w : p.of \notin PlanPeriods  BY <2>1, MultiYearAssumption
        <2>3. posts' = posts \cup w  BY <1>6, <2>1 DEF SavePlans
        <2>4. planSave'.edited = sheet.edited  BY <1>6 DEF SavePlans
        <2>5. Existing' = Existing  BY <1>6 DEF SavePlans, Existing
        <2>6. shell' = shell /\ sheet' = sheet /\ fetched' = fetched /\ load' = load
              /\ creating' = creating
            BY <1>6 DEF SavePlans, asked
        <2> QED  BY <1>2, <2>2, <2>3, <2>4, <2>5, <2>6 DEF There
    <1>7. CASE StartPeriods
        <2>1. planSave \in SavesUpto(n) /\ planSave # NoPlanSave
            BY <1>1, <1>7 DEF StartPeriods, NoPlanSave
        <2>2. PICK e : e = planSave.edited  OBVIOUS
        <2>3. DOMAIN e \subseteq Existing  BY <2>1, <2>2 DEF There
        <2>4. PICK w : w = {[of |-> q, plan |-> e[q]] :
                 q \in {x \in DOMAIN e \cap DOMAIN sheet.base : PlansDiffer(sheet.base[x], e[x])}}
            OBVIOUS
        <2>5. \A p \in w : p.of \in Existing  BY <2>3, <2>4
        <2>6. posts' = posts \cup w /\ planSave' = [planSave EXCEPT !.at = "periods", !.waits = w]
            BY <1>7, <2>2, <2>4 DEF StartPeriods
        <2>7. planSave'.edited = e  BY <2>1, <2>2, <2>6 DEF SavesUpto
        <2>8. Existing' = Existing  BY <1>7 DEF StartPeriods, Existing
        <2>9. shell' = shell /\ sheet' = sheet /\ fetched' = fetched /\ load' = load
              /\ creating' = creating
            BY <1>7 DEF StartPeriods, asked
        <2> QED  BY <2>3, <2>5, <2>6, <2>7, <2>8, <2>9 DEF There
    <1>8. CASE PostStep
        <2>1. PICK p \in posts : PostLands(p) \/ PostFails(p)  BY <1>8 DEF PostStep
        <2>2. Writes(p) \/ UNCHANGED << storedPlans, storedYears >>
            BY <2>1 DEF PostLands, PostFails
        <2>3. Existing \subseteq Existing'  BY <2>2, WritesTypes DEF Existing
        <2>4. planSave' # NoPlanSave => planSave # NoPlanSave /\ planSave'.edited = planSave.edited
            <3>1. CASE planSave = NoPlanSave
                <4>1. [NoPlanSave EXCEPT !.waits = @ \ {p}] = NoPlanSave  BY DEF NoPlanSave
                <4> QED  BY <4>1, <3>1, <2>1 DEF PostLands, PostFails
            <3>2. CASE planSave \in SavesUpto(n)
                BY <3>2, <2>1 DEF PostLands, PostFails, SavesUpto, NoPlanSave
            <3> QED  BY <1>1, <3>1, <3>2
        <2>5. posts' \subseteq posts  BY <2>1 DEF PostLands, PostFails
        <2>6. shell' = shell /\ sheet' = sheet /\ fetched' = fetched /\ load' = load
              /\ creating' = creating
            BY <2>1 DEF PostLands, PostFails, postOnly, asked
        <2>7. creating.at = "insert" => creating.period \notin Existing'
            <3>1. HAVE creating.at = "insert"
            <3>2. PICK x \in PlanPeriods : x = creating.period  BY <1>1, <3>1 DEF NoPeriod
            <3>3. storedPlans[x] = Missing  BY <3>1, <3>2 DEF There, Existing
            <3>4. x # p.of
                <4>1. CASE p.of \in PlanPeriods  BY <4>1, <3>3 DEF There, Existing
                <4>2. CASE p.of \notin PlanPeriods  BY <4>2
                <4> QED  BY <4>1, <4>2
            <3>5. storedPlans'[x] = Missing  BY <1>1, <2>2, <3>3, <3>4 DEF Writes
            <3> QED  BY <3>2, <3>5 DEF Existing
        <2> QED  BY <2>3, <2>4, <2>5, <2>6, <2>7 DEF There
    <1>9. CASE SaveAnswered
        <2>1. planSave \in SavesUpto(n) /\ planSave # NoPlanSave
            BY <1>1, <1>9 DEF SaveAnswered, NoPlanSave
        <2>2. PICK e : e = planSave.edited  OBVIOUS
        <2>3. DOMAIN e \subseteq Existing  BY <2>1, <2>2 DEF There
        <2>4. sheet'.edited = Summaries(shell.periods, e) /\ sheet'.base = e
            BY <1>1, <1>9, <2>2 DEF SaveAnswered
        <2>5. DOMAIN sheet'.edited \subseteq Existing /\ DOMAIN sheet'.base \subseteq Existing
            BY <1>2, <1>3, <2>3, <2>4
        <2>6. planSave' = NoPlanSave /\ Existing' = Existing
            BY <1>9 DEF SaveAnswered, serverOnly, Existing
        <2>7. shell' = shell /\ posts' = posts /\ fetched' = fetched /\ load' = load
              /\ creating' = creating
            BY <1>9 DEF SaveAnswered, serverOnly
        <2> QED  BY <2>5, <2>6, <2>7 DEF There
    <1>10. CASE RefreshShell
        <2>1. shell'.periods = Existing  BY <1>10 DEF RefreshShell
        <2>2. DOMAIN sheet'.edited \subseteq Existing /\ sheet'.base = sheet.base
            BY <1>1, <1>2, <1>3, <1>10, <2>1 DEF RefreshShell
        <2> QED  BY <1>2, <1>10, <2>1, <2>2, ThereStays DEF RefreshShell, serverOnly
    <1>11. CASE InsertPeriod \/ InsertPlanRows
        <2>1. PICK x \in PlanPeriods : x = creating.period
            BY <1>1, <1>11 DEF InsertPeriod, InsertPlanRows, NoPeriod
        <2>2. PICK f \in Upto(n) : storedPlans' = [storedPlans EXCEPT ![x] = f]
            <3>1. Blank \in Upto(n)  BY BlankIs, UptoGrows
            <3>2. [c \in Categories |-> 0] \in [Categories -> 0..n]  OBVIOUS
            <3>3. [c \in Categories |-> 0] \in Upto(n)  BY <3>2, PlansMade
            <3> QED  BY <1>11, <2>1, <3>1, <3>3 DEF InsertPeriod, InsertPlanRows
        <2>3. f # Missing  BY MissingIs
        <2>4. Existing \subseteq Existing' /\ x \in Existing'
            BY <1>1, <2>1, <2>2, <2>3 DEF Existing
        <2>5. creating'.at \in {"rows", "answer"} /\ creating'.period = x
            BY <1>1, <1>11, <2>1 DEF InsertPeriod, InsertPlanRows, NoPeriod
        <2>6. /\ shell' = shell /\ sheet' = sheet /\ fetched' = fetched /\ load' = load
              /\ planSave' = planSave /\ posts' = posts
            BY <1>11 DEF InsertPeriod, InsertPlanRows, createOnly
        <2> QED  BY <2>4, <2>5, <2>6 DEF There
    <1>12. CASE PeriodCreated
        <2>1. creating.at = "answer" /\ creating.period \in Existing
            BY <1>12 DEF PeriodCreated, There
        <2>2. PICK one : one = [x \in {creating.period} |-> Blank]  OBVIOUS
        <2>3. DOMAIN one \subseteq Existing  BY <2>1, <2>2
        <2>4. PICK h : h = Over(sheet.edited, one)  OBVIOUS
        <2>5. DOMAIN h \subseteq Existing  BY <1>2, <2>3, <2>4 DEF Over
        <2>6. sheet' = [sheet EXCEPT !.edited = h]  BY <1>12, <2>2, <2>4 DEF PeriodCreated
        <2>7. sheet'.edited = h /\ sheet'.base = sheet.base  BY <1>1, <2>6
        <2>8. creating'.at = "none"  BY <1>12 DEF PeriodCreated, NoPeriod
        <2>9. /\ shell' = shell /\ fetched' = fetched /\ load' = load
              /\ UNCHANGED << storedPlans, planSave, posts >>
            BY <1>12 DEF PeriodCreated, createOnly
        <2> QED  BY <1>2, <2>5, <2>7, <2>8, <2>9, ThereStays
    <1>13. CASE PeriodFails
        <2>1. creating'.at = "none"  BY <1>13 DEF PeriodFails, NoPeriod
        <2> QED  BY <1>2, <1>13, <2>1, ThereStays DEF PeriodFails, createOnly
    <1> QED  BY <1>4, <1>5, <1>6, <1>7, <1>8, <1>9, <1>10, <1>11, <1>12, <1>13

-------------------------------------------------------------------------------
(* A page that had its own way, step by step *)

\* A write that leaves what was stored and not typed as it was.
KeepsStored(sp, now, w, E) ==
    \A q \in E : /\ DOMAIN sp[q] \subseteq DOMAIN now[q]
                 /\ \A c \in DOMAIN sp[q] \ DOMAIN w[q] : now[q][c] = sp[q][c]

LEMMA StoredKept ==
    ASSUME NEW sp, NEW now, NEW ed, NEW b, NEW w, NEW ps, NEW E, KeepsStored(sp, now, w, E),
           DOMAIN ed \subseteq E, DOMAIN b \subseteq E,
           \A p \in ps : p.of \in PlanPeriods => p.of \in E,
           EditedHolds(sp, ed, w), BaseHolds(sp, b, w), PostsHold(sp, w, ps)
    PROVE  EditedHolds(now, ed, w) /\ BaseHolds(now, b, w) /\ PostsHold(now, w, ps)
PROOF
    <1>1. ASSUME NEW q \in E, NEW f, NEW c, IsStored(sp, q, f, c), c \notin DOMAIN w[q]
          PROVE  IsStored(now, q, f, c)
        BY <1>1 DEF IsStored, KeepsStored
    <1>2. EditedHolds(now, ed, w)  BY <1>1 DEF EditedHolds
    <1>3. BaseHolds(now, b, w)
        <2>1. \A q \in DOMAIN b : DOMAIN b[q] \subseteq DOMAIN now[q]
            BY DEF BaseHolds, KeepsStored
        <2> QED  BY <1>1, <2>1 DEF BaseHolds
    <1>4. PostsHold(now, w, ps)  BY <1>1 DEF PostsHold
    <1> QED  BY <1>2, <1>3, <1>4

\* What a load found is shown.
LEMMA ShowHolds ==
    ASSUME NEW n, NEW sp, NEW ed \in ListsUpto(n), NEW b, NEW w, NEW s, NEW ps, NEW cr,
           CalmHolds(sp, ed, b, w, s, ps, cr), NEW found \in ListsUpto(n),
           \A q \in DOMAIN found : found[q] = sp[q] /\ DOMAIN w[q] = {},
           NEW next, next = Over(found, ed),
           NEW to, to = b \/ (to = next /\ \A q \in PlanPeriods : DOMAIN w[q] = {}),
           s # NoPlanSave => s.edited \in ListsUpto(n)
    PROVE  CalmHolds(sp, next, to, w, s, ps, cr)
PROOF
    <1>1. /\ EditedHolds(sp, ed, w) /\ BaseHolds(sp, b, w) /\ WishHolds(ed, b, w)
          /\ SaveHolds(sp, b, w, s, ps) /\ PostsHold(sp, w, ps) /\ NewHolds(sp, w, cr)
        BY DEF CalmHolds
    <1>2. /\ DOMAIN next = DOMAIN found \cup DOMAIN ed
          /\ \A q \in DOMAIN found : next[q] = found[q]
          /\ \A q \in DOMAIN ed \ DOMAIN found : next[q] = ed[q]
        BY DEF Over
    <1>3. DOMAIN next \subseteq PlanPeriods  BY <1>2, ListsAre
    <1>4. EditedHolds(sp, next, w)
        <2>1. SUFFICES ASSUME NEW q \in DOMAIN next
                       PROVE  /\ DOMAIN w[q] \subseteq DOMAIN next[q]
                              /\ \A c \in DOMAIN next[q] :
                                    /\ c \in DOMAIN w[q] => next[q][c] = w[q][c]
                                    /\ c \notin DOMAIN w[q] => IsStored(sp, q, next[q], c)
            BY DEF EditedHolds
        <2>2. CASE q \in DOMAIN found
            <3>1. next[q] = sp[q] /\ DOMAIN w[q] = {}  BY <1>2, <2>2
            <3> QED  BY <3>1 DEF IsStored
        <2>3. CASE q \notin DOMAIN found
            <3>1. q \in DOMAIN ed /\ next[q] = ed[q]  BY <1>2, <2>3
            <3> QED  BY <3>1, <1>1 DEF EditedHolds
        <2> QED  BY <2>2, <2>3
    <1>5. CASE to = b
        <2>1. WishHolds(next, b, w)  BY <1>1, <1>2 DEF WishHolds
        <2> QED  BY <1>1, <1>4, <1>5, <2>1 DEF CalmHolds
    <1>6. CASE to = next /\ \A q \in PlanPeriods : DOMAIN w[q] = {}
        <2>1. BaseHolds(sp, to, w)
            <3>1. \A q \in DOMAIN next : \A c \in DOMAIN next[q] : IsStored(sp, q, next[q], c)
                BY <1>3, <1>4, <1>6 DEF EditedHolds
            <3> QED  BY <1>6, <3>1 DEF BaseHolds, IsStored
        <2>2. WishHolds(next, to, w)  BY <1>6 DEF WishHolds
        <2>3. SaveHolds(sp, to, w, s, ps)
            <3>1. ASSUME s.at = "years"  PROVE SentHolds(sp, to, w, s.edited)
                <4>1. s # NoPlanSave  BY <3>1 DEF NoPlanSave
                <4>2. PICK e \in ListsUpto(n) : e = s.edited  BY <4>1
                <4>3. DOMAIN e \subseteq PlanPeriods  BY ListsAre
                <4>4. SentHolds(sp, b, w, e)  BY <1>1, <3>1, <4>2 DEF SaveHolds
                <4>5. \A q \in DOMAIN e : \A c \in DOMAIN e[q] : IsStored(sp, q, e[q], c)
                    BY <1>6, <4>3, <4>4 DEF SentHolds
                <4> QED  BY <4>2, <4>5 DEF SentHolds
            <3> QED  BY <1>1, <3>1 DEF SaveHolds
        <2> QED  BY <1>1, <1>4, <2>1, <2>2, <2>3 DEF CalmHolds
    <1> QED  BY <1>5, <1>6

\* A plan is typed.
LEMMA TypeHolds ==
    ASSUME NEW n \in Nat, NEW sp, NEW ed \in ListsUpto(n), NEW b \in ListsUpto(n),
           NEW w \in [PlanPeriods -> Upto(n)], NEW s, NEW ps,
           CalmHolds(sp, ed, b, w, s, ps, NoPeriod),
           NEW q \in DOMAIN ed, q \in DOMAIN b, NEW c \in Categories, NEW a \in Nat, a > n,
           NEW shown, shown = [ed EXCEPT ![q] = Typed(ed[q], c, a)],
           NEW typed, typed = [w EXCEPT ![q] = Typed(w[q], c, a)]
    PROVE  CalmHolds(sp, shown, b, typed, s, ps, NoPeriod)
PROOF
    <1>1. /\ EditedHolds(sp, ed, w) /\ BaseHolds(sp, b, w) /\ WishHolds(ed, b, w)
          /\ SaveHolds(sp, b, w, s, ps) /\ PostsHold(sp, w, ps)
        BY DEF CalmHolds
    <1>2. q \in PlanPeriods /\ ed[q] \in Upto(n) /\ b[q] \in Upto(n) /\ w[q] \in Upto(n)
        BY ListsAre
    <1>5. PICK t : t = Typed(ed[q], c, a)  OBVIOUS
    <1>6. PICK u : u = Typed(w[q], c, a)  OBVIOUS
    <1>7. /\ DOMAIN t = DOMAIN ed[q] \cup {c} /\ t[c] = a
          /\ \A d \in DOMAIN ed[q] : d # c => t[d] = ed[q][d]
        BY <1>5 DEF Typed, Over
    <1>8. /\ DOMAIN u = DOMAIN w[q] \cup {c} /\ u[c] = a
          /\ \A d \in DOMAIN w[q] : d # c => u[d] = w[q][d]
        BY <1>6 DEF Typed, Over
    <1>9. /\ DOMAIN shown = DOMAIN ed /\ shown[q] = t
          /\ \A x \in DOMAIN ed : x # q => shown[x] = ed[x]
        BY <1>5
    <1>10. typed[q] = u /\ \A x \in PlanPeriods : x # q => typed[x] = w[x]  BY <1>2, <1>6
    <1>11. DOMAIN ed \subseteq PlanPeriods /\ DOMAIN b \subseteq PlanPeriods  BY ListsAre
    <1>12. \A x \in PlanPeriods : DOMAIN w[x] \subseteq DOMAIN typed[x]  BY <1>8, <1>10
    <1>13. EditedHolds(sp, shown, typed)
        <2>1. SUFFICES ASSUME NEW x \in DOMAIN ed
                       PROVE  /\ DOMAIN typed[x] \subseteq DOMAIN shown[x]
                              /\ \A d \in DOMAIN shown[x] :
                                    /\ d \in DOMAIN typed[x] => shown[x][d] = typed[x][d]
                                    /\ d \notin DOMAIN typed[x] => IsStored(sp, x, shown[x], d)
            BY <1>9 DEF EditedHolds
        <2>2. /\ DOMAIN w[x] \subseteq DOMAIN ed[x]
              /\ \A d \in DOMAIN ed[x] :
                    /\ d \in DOMAIN w[x] => ed[x][d] = w[x][d]
                    /\ d \notin DOMAIN w[x] => IsStored(sp, x, ed[x], d)
            BY <1>1 DEF EditedHolds
        <2>3. CASE x # q  BY <1>9, <1>10, <1>11, <2>2, <2>3
        <2>4. CASE x = q
            <3>1. DOMAIN u \subseteq DOMAIN t  BY <1>7, <1>8, <2>2, <2>4
            <3>2. \A d \in DOMAIN t : d \in DOMAIN u => t[d] = u[d]
                BY <1>7, <1>8, <2>2, <2>4
            <3>3. \A d \in DOMAIN t : d \notin DOMAIN u => IsStored(sp, q, t, d)
                BY <1>7, <1>8, <2>2, <2>4 DEF IsStored
            <3> QED  BY <1>9, <1>10, <2>4, <3>1, <3>2, <3>3
        <2> QED  BY <2>3, <2>4
    <1>14. BaseHolds(sp, b, typed)  BY <1>1, <1>11, <1>12 DEF BaseHolds
    <1>15. WishHolds(shown, b, typed)
        <2>1. SUFFICES ASSUME NEW x \in PlanPeriods, DOMAIN typed[x] # {}
                       PROVE  /\ x \in DOMAIN shown /\ x \in DOMAIN b
                              /\ \A d \in DOMAIN typed[x] : typed[x][d] # PlanOf(b[x], d)
            BY DEF WishHolds
        <2>2. CASE x # q  BY <1>1, <1>9, <1>10, <2>1, <2>2 DEF WishHolds
        <2>3. CASE x = q
            <3>1. \A d \in DOMAIN b[q] : b[q][d] \in 0..n  BY <1>2, PlansAre
            <3>2. a # PlanOf(b[q], c)
                <4>1. CASE c \in DOMAIN b[q]
                    <5>1. PlanOf(b[q], c) \in 0..n  BY <3>1, <4>1 DEF PlanOf
                    <5> QED  BY <5>1
                <4>2. CASE c \notin DOMAIN b[q]  BY <4>2 DEF PlanOf
                <4> QED  BY <4>1, <4>2
            <3>3. \A d \in DOMAIN w[q] : w[q][d] # PlanOf(b[q], d)  BY <1>1, <1>2 DEF WishHolds
            <3>4. \A d \in DOMAIN u : u[d] # PlanOf(b[q], d)  BY <1>8, <3>2, <3>3
            <3> QED  BY <1>9, <1>10, <2>3, <3>4
        <2> QED  BY <2>2, <2>3
    <1>16. SaveHolds(sp, b, typed, s, ps)
        <2>1. ASSUME s.at = "years"  PROVE SentHolds(sp, b, typed, s.edited)
            BY <1>1, <1>11, <1>12, <2>1 DEF SaveHolds, SentHolds
        <2> QED  BY <1>1, <2>1 DEF SaveHolds
    <1>17. PostsHold(sp, typed, ps)  BY <1>1, <1>12 DEF PostsHold
    <1>18. NewHolds(sp, typed, NoPeriod)  BY DEF NewHolds, NoPeriod
    <1> QED  BY <1>13, <1>14, <1>15, <1>16, <1>17, <1>18 DEF CalmHolds
\* All the page has is what is stored: it was saved, cancelled, or never loaded.
LEMMA CleanedHolds ==
    ASSUME NEW n \in Nat, NEW sp, NEW S \in SUBSET PlanPeriods, NEW l \in ListsUpto(n),
           NEW ps, NEW cr, PostsHold(sp, NoWish, ps), NewHolds(sp, NoWish, cr),
           \A q \in DOMAIN l : \A c \in DOMAIN l[q] : IsStored(sp, q, l[q], c),
           NEW ed, ed = Summaries(S, l)
    PROVE  CalmHolds(sp, ed, l, NoWish, NoPlanSave, ps, cr)
PROOF
    <1>1. \A q \in PlanPeriods : DOMAIN NoWish[q] = {}  BY BlankIs DEF NoWish
    <1>2. DOMAIN l \subseteq PlanPeriods  BY ListsAre
    <1>3. /\ DOMAIN ed = S
          /\ \A q \in S : /\ q \in DOMAIN l => ed[q] = l[q]
                          /\ q \notin DOMAIN l => DOMAIN ed[q] = {}
        BY BlankIs DEF Summaries
    <1>4. EditedHolds(sp, ed, NoWish)
        <2>1. SUFFICES ASSUME NEW q \in S
                       PROVE  /\ DOMAIN NoWish[q] \subseteq DOMAIN ed[q]
                              /\ \A c \in DOMAIN ed[q] :
                                    /\ c \in DOMAIN NoWish[q] => ed[q][c] = NoWish[q][c]
                                    /\ c \notin DOMAIN NoWish[q] => IsStored(sp, q, ed[q], c)
            BY <1>3 DEF EditedHolds
        <2>2. DOMAIN NoWish[q] = {}  BY <1>1
        <2>3. \A c \in DOMAIN ed[q] : IsStored(sp, q, ed[q], c)  BY <1>3
        <2> QED  BY <2>2, <2>3
    <1>5. BaseHolds(sp, l, NoWish)  BY DEF BaseHolds, IsStored
    <1>6. WishHolds(ed, l, NoWish)  BY <1>1 DEF WishHolds
    <1>7. SaveHolds(sp, l, NoWish, NoPlanSave, ps)  BY DEF SaveHolds, NoPlanSave
    <1> QED  BY <1>4, <1>5, <1>6, <1>7 DEF CalmHolds

\* A clean page takes a list of periods over.
LEMMA ListHolds ==
    ASSUME NEW n \in Nat, NEW sp, NEW ed \in ListsUpto(n), NEW b, NEW w, NEW s, NEW ps, NEW cr,
           CalmHolds(sp, ed, b, w, s, ps, cr), \A q \in PlanPeriods : DOMAIN w[q] = {},
           NEW S \in SUBSET PlanPeriods, NEW next, next = Summaries(S, ed)
    PROVE  CalmHolds(sp, next, b, w, s, ps, cr)
PROOF
    <1>1. /\ EditedHolds(sp, ed, w) /\ BaseHolds(sp, b, w)
          /\ SaveHolds(sp, b, w, s, ps) /\ PostsHold(sp, w, ps) /\ NewHolds(sp, w, cr)
        BY DEF CalmHolds
    <1>2. /\ DOMAIN next = S
          /\ \A q \in S : /\ q \in DOMAIN ed => next[q] = ed[q]
                          /\ q \notin DOMAIN ed => DOMAIN next[q] = {}
        BY BlankIs DEF Summaries
    <1>3. EditedHolds(sp, next, w)
        <2>1. SUFFICES ASSUME NEW q \in S
                       PROVE  /\ DOMAIN w[q] \subseteq DOMAIN next[q]
                              /\ \A c \in DOMAIN next[q] :
                                    /\ c \in DOMAIN w[q] => next[q][c] = w[q][c]
                                    /\ c \notin DOMAIN w[q] => IsStored(sp, q, next[q], c)
            BY <1>2 DEF EditedHolds
        <2>2. DOMAIN w[q] = {}  OBVIOUS
        <2>3. \A c \in DOMAIN next[q] : IsStored(sp, q, next[q], c)
            BY <1>1, <1>2, <2>2 DEF EditedHolds
        <2> QED  BY <2>2, <2>3
    <1>4. WishHolds(next, b, w)  BY DEF WishHolds
    <1> QED  BY <1>1, <1>3, <1>4 DEF CalmHolds

\* A new period joins what is shown.
LEMMA JoinHolds ==
    ASSUME NEW sp, NEW ed, NEW b, NEW w, NEW s, NEW ps, NEW cr,
           CalmHolds(sp, ed, b, w, s, ps, cr), NEW q \in PlanPeriods,
           NEW next, next = Over(ed, [x \in {q} |-> Blank])
    PROVE  CalmHolds(sp, next, b, w, s, ps, NoPeriod)
PROOF
    <1>1. /\ EditedHolds(sp, ed, w) /\ BaseHolds(sp, b, w) /\ WishHolds(ed, b, w)
          /\ SaveHolds(sp, b, w, s, ps) /\ PostsHold(sp, w, ps)
        BY DEF CalmHolds
    <1>2. PICK blank : blank = Blank  OBVIOUS
    <1>3. DOMAIN blank = {}  BY <1>2, BlankIs
    <1>4. /\ DOMAIN next = DOMAIN ed \cup {q}
          /\ \A x \in DOMAIN ed : next[x] = ed[x]
          /\ q \notin DOMAIN ed => next[q] = blank
        BY <1>2 DEF Over
    <1>5. q \notin DOMAIN ed => DOMAIN w[q] = {}  BY <1>1 DEF WishHolds
    <1>6. EditedHolds(sp, next, w)
        <2>1. SUFFICES ASSUME NEW x \in DOMAIN next
                       PROVE  /\ DOMAIN w[x] \subseteq DOMAIN next[x]
                              /\ \A c \in DOMAIN next[x] :
                                    /\ c \in DOMAIN w[x] => next[x][c] = w[x][c]
                                    /\ c \notin DOMAIN w[x] => IsStored(sp, x, next[x], c)
            BY DEF EditedHolds
        <2>2. CASE x \in DOMAIN ed  BY <1>1, <1>4, <2>2 DEF EditedHolds
        <2>3. CASE x \notin DOMAIN ed  BY <1>3, <1>4, <1>5, <2>1, <2>3
        <2> QED  BY <2>2, <2>3
    <1>7. WishHolds(next, b, w)  BY <1>1, <1>4 DEF WishHolds
    <1>8. NewHolds(sp, w, NoPeriod)  BY DEF NewHolds, NoPeriod
    <1> QED  BY <1>1, <1>6, <1>7, <1>8 DEF CalmHolds

\* A save begins: it sends the multi-years.
LEMMA SaveBegins ==
    ASSUME NEW n \in Nat, NEW sp, NEW ed \in ListsUpto(n), NEW b, NEW w, NEW cr,
           CalmHolds(sp, ed, b, w, NoPlanSave, {}, cr),
           NEW s, s.at = "years", s.edited = ed,
           NEW ps, ps = s.waits, \A p \in ps : p.of \in MultiYears
    PROVE  CalmHolds(sp, ed, b, w, s, ps, cr)
PROOF
    <1>1. /\ EditedHolds(sp, ed, w) /\ BaseHolds(sp, b, w) /\ WishHolds(ed, b, w)
          /\ NewHolds(sp, w, cr)
        BY DEF CalmHolds
    <1>2. SentHolds(sp, b, w, ed)
        <2>1. SUFFICES ASSUME NEW q \in DOMAIN ed, NEW c \in DOMAIN ed[q]
                       PROVE  \/ IsStored(sp, q, ed[q], c)
                              \/ /\ q \in DOMAIN b /\ c \in DOMAIN w[q]
                                 /\ ed[q][c] # PlanOf(b[q], c)
            BY DEF SentHolds
        <2>2. q \in PlanPeriods  BY ListsAre
        <2>3. CASE c \in DOMAIN w[q]
            <3>1. q \in DOMAIN b /\ w[q][c] # PlanOf(b[q], c)
                BY <1>1, <2>2, <2>3 DEF WishHolds
            <3>2. ed[q][c] = w[q][c]  BY <1>1, <2>3 DEF EditedHolds
            <3> QED  BY <2>3, <3>1, <3>2
        <2>4. CASE c \notin DOMAIN w[q]  BY <1>1, <2>4 DEF EditedHolds
        <2> QED  BY <2>3, <2>4
    <1>3. SaveHolds(sp, b, w, s, ps)  BY <1>2 DEF SaveHolds
    <1>4. PostsHold(sp, w, ps)  BY MultiYearAssumption DEF PostsHold
    <1> QED  BY <1>1, <1>3, <1>4 DEF CalmHolds

\* The periods that differ are sent.
LEMMA PeriodsBegin ==
    ASSUME NEW n \in Nat, NEW sp, NEW ed, NEW b, NEW w, NEW cr, NEW old, old.at = "years",
           CalmHolds(sp, ed, b, w, old, {}, cr), NEW e \in ListsUpto(n), old.edited = e,
           NEW changed,
           changed = {q \in DOMAIN e \cap DOMAIN b : PlansDiffer(b[q], e[q])},
           NEW ps, ps = {[of |-> q, plan |-> e[q]] : q \in changed},
           NEW s, s.at = "periods", s.edited = e, s.waits = ps
    PROVE  CalmHolds(sp, ed, b, w, s, ps, cr)
PROOF
    <1>1. /\ EditedHolds(sp, ed, w) /\ BaseHolds(sp, b, w) /\ WishHolds(ed, b, w)
          /\ SentHolds(sp, b, w, e) /\ NewHolds(sp, w, cr)
        BY DEF CalmHolds, SaveHolds
    <1>2. \A q \in DOMAIN e : \A c \in DOMAIN e[q] :
             \/ IsStored(sp, q, e[q], c)
             \/ c \in DOMAIN w[q] /\ q \in changed
        <2>1. SUFFICES ASSUME NEW q \in DOMAIN e, NEW c \in DOMAIN e[q],
                              ~ IsStored(sp, q, e[q], c)
                       PROVE  c \in DOMAIN w[q] /\ q \in changed
            OBVIOUS
        <2>2. q \in DOMAIN b /\ c \in DOMAIN w[q] /\ e[q][c] # PlanOf(b[q], c)
            BY <1>1, <2>1 DEF SentHolds
        <2>3. c \in Categories
            <3>1. e[q] \in Upto(n)  BY ListsAre
            <3> QED  BY <3>1, PlansAre
        <2>4. PlanOf(e[q], c) = e[q][c]  BY DEF PlanOf
        <2>5. PlansDiffer(b[q], e[q])  BY <2>2, <2>3, <2>4 DEF PlansDiffer
        <2> QED  BY <2>2, <2>5
    <1>3. WrittenHolds(sp, e, ps)
        <2>1. \A q \in DOMAIN e : [of |-> q, plan |-> e[q]] \in ps
                                  \/ \A c \in DOMAIN e[q] : IsStored(sp, q, e[q], c)
            BY <1>2
        <2>2. \A p \in ps : p.of \in DOMAIN e /\ p.plan = e[p.of]  OBVIOUS
        <2> QED  BY <2>1, <2>2 DEF WrittenHolds
    <1>4. PostsHold(sp, w, ps)
        <2>1. SUFFICES ASSUME NEW q \in changed, NEW c \in DOMAIN e[q]
                       PROVE  c \in DOMAIN w[q] \/ IsStored(sp, q, e[q], c)
            BY DEF PostsHold, IsStored
        <2> QED  BY <1>2
    <1>5. SaveHolds(sp, b, w, s, ps)
        <2>1. s # NoPlanSave  BY DEF NoPlanSave
        <2> QED  BY <1>3 DEF SaveHolds
    <1> QED  BY <1>1, <1>4, <1>5 DEF CalmHolds

\* A write of a period is made.
LEMMA WriteHolds ==
    ASSUME NEW sp, NEW now, NEW ed, NEW b, NEW w, NEW s, NEW ps, NEW cr, NEW E,
           CalmHolds(sp, ed, b, w, s, ps, cr),
           DOMAIN ed \subseteq E, DOMAIN b \subseteq E, E \subseteq DOMAIN sp,
           \A p \in ps : p.of \in PlanPeriods => p.of \in E,
           s # NoPlanSave => DOMAIN s.edited \subseteq E,
           cr.at = "rows" => cr.period \in E,
           NEW p \in ps, p.of \in PlanPeriods,
           now = [sp EXCEPT ![p.of] = Over(p.plan, sp[p.of])],
           NEW to, to = NoPlanSave \/ (s # NoPlanSave /\ to.at = s.at /\ to.edited = s.edited
                                       /\ to.waits = s.waits \ {p})
    PROVE  CalmHolds(now, ed, b, w, to, ps \ {p}, cr)
PROOF
    <1>1. /\ EditedHolds(sp, ed, w) /\ BaseHolds(sp, b, w) /\ WishHolds(ed, b, w)
          /\ SaveHolds(sp, b, w, s, ps) /\ PostsHold(sp, w, ps) /\ NewHolds(sp, w, cr)
        BY DEF CalmHolds
    <1>2. p.of \in E  OBVIOUS
    <1>3. PICK q \in E : q = p.of  BY <1>2
    <1>4. PICK g : g = Over(p.plan, sp[q])  OBVIOUS
    <1>5. /\ DOMAIN g = DOMAIN p.plan \cup DOMAIN sp[q]
          /\ \A c \in DOMAIN p.plan : g[c] = p.plan[c]
          /\ \A c \in DOMAIN sp[q] \ DOMAIN p.plan : g[c] = sp[q][c]
        BY <1>4 DEF Over
    <1>6. now[q] = g /\ \A x \in E : x # q => now[x] = sp[x]  BY <1>3, <1>4
    <1>7. KeepsStored(sp, now, w, E)
        <2>1. \A c \in DOMAIN sp[q] \ DOMAIN w[q] : g[c] = sp[q][c]
            BY <1>1, <1>3, <1>5 DEF PostsHold, IsStored
        <2> QED  BY <1>5, <1>6, <2>1 DEF KeepsStored
    <1>8. EditedHolds(now, ed, w) /\ BaseHolds(now, b, w) /\ PostsHold(now, w, ps)
        BY <1>1, <1>7, StoredKept
    <1>9. PostsHold(now, w, ps \ {p})  BY <1>8 DEF PostsHold
    <1>10. NewHolds(now, w, cr)
        <2>1. ASSUME cr.at = "rows"  PROVE DOMAIN now[cr.period] = {}
            <3>1. PICK x \in E : x = cr.period  BY <2>1
            <3>2. DOMAIN w[x] = {} /\ DOMAIN sp[x] = {}  BY <1>1, <2>1, <3>1 DEF NewHolds
            <3>3. CASE x = q
                <4>1. DOMAIN p.plan = {}  BY <1>1, <1>3, <3>2, <3>3 DEF PostsHold, IsStored
                <4> QED  BY <1>5, <1>6, <3>1, <3>2, <3>3, <4>1
            <3>4. CASE x # q  BY <1>6, <3>1, <3>2, <3>4
            <3> QED  BY <3>3, <3>4
        <2> QED  BY <1>1, <2>1 DEF NewHolds
    <1>11. SaveHolds(now, b, w, to, ps \ {p})
        <2>1. CASE to = NoPlanSave  BY <2>1 DEF SaveHolds, NoPlanSave
        <2>2. CASE to # NoPlanSave
            <3>1. s # NoPlanSave /\ to.at = s.at /\ to.edited = s.edited /\ to.waits = s.waits \ {p}
                BY <2>2
            <3>2. ps = s.waits  BY <1>1, <3>1 DEF SaveHolds
            <3>3. s.at # "years"  BY <1>1, MultiYearAssumption DEF SaveHolds
            <3>4. ASSUME s.at = "periods"  PROVE WrittenHolds(now, s.edited, ps \ {p})
                <4>1. PICK e : e = s.edited  OBVIOUS
                <4>2. /\ \A x \in DOMAIN e : [of |-> x, plan |-> e[x]] \in ps
                                             \/ \A c \in DOMAIN e[x] : IsStored(sp, x, e[x], c)
                      /\ \A o \in ps : o.of \in DOMAIN e /\ o.plan = e[o.of]
                    BY <1>1, <3>4, <4>1 DEF SaveHolds, WrittenHolds
                <4>3. DOMAIN e \subseteq E  BY <3>1, <4>1
                <4>4. p.plan = e[q] /\ q \in DOMAIN e  BY <1>3, <4>2
                <4>5. \A c \in DOMAIN e[q] : IsStored(now, q, e[q], c)
                    BY <1>5, <1>6, <4>4 DEF IsStored
                <4>6. SUFFICES ASSUME NEW x \in DOMAIN e, x # q
                               PROVE  [of |-> x, plan |-> e[x]] \in ps \ {p}
                                      \/ \A c \in DOMAIN e[x] : IsStored(now, x, e[x], c)
                    BY <4>1, <4>2, <4>5 DEF WrittenHolds
                <4>7. CASE [of |-> x, plan |-> e[x]] \in ps  BY <1>3, <4>6, <4>7
                <4>8. CASE \A c \in DOMAIN e[x] : IsStored(sp, x, e[x], c)
                    BY <1>6, <4>3, <4>6, <4>8 DEF IsStored
                <4> QED  BY <4>2, <4>7, <4>8
            <3> QED  BY <3>1, <3>2, <3>3, <3>4 DEF SaveHolds
        <2> QED  BY <2>1, <2>2
    <1> QED  BY <1>1, <1>8, <1>9, <1>10, <1>11 DEF CalmHolds

\* A write is answered that changed no period.
LEMMA AnswerHolds ==
    ASSUME NEW sp, NEW ed, NEW b, NEW w, NEW s, NEW ps, NEW cr,
           CalmHolds(sp, ed, b, w, s, ps, cr), NEW p \in ps,
           s # NoPlanSave => DOMAIN s.edited \subseteq PlanPeriods,
           NEW to, \/ to = NoPlanSave
                   \/ /\ s # NoPlanSave /\ to.at = s.at /\ to.edited = s.edited
                      /\ to.waits = s.waits \ {p} /\ p.of \notin PlanPeriods
    PROVE  CalmHolds(sp, ed, b, w, to, ps \ {p}, cr)
PROOF
    <1>1. /\ EditedHolds(sp, ed, w) /\ BaseHolds(sp, b, w) /\ WishHolds(ed, b, w)
          /\ SaveHolds(sp, b, w, s, ps) /\ PostsHold(sp, w, ps) /\ NewHolds(sp, w, cr)
        BY DEF CalmHolds
    <1>2. PostsHold(sp, w, ps \ {p})  BY <1>1 DEF PostsHold
    <1>3. SaveHolds(sp, b, w, to, ps \ {p})
        <2>1. CASE to = NoPlanSave  BY <2>1 DEF SaveHolds, NoPlanSave
        <2>2. CASE to # NoPlanSave
            <3>1. /\ s # NoPlanSave /\ to.at = s.at /\ to.edited = s.edited
                  /\ to.waits = s.waits \ {p} /\ p.of \notin PlanPeriods
                BY <2>2
            <3>2. s.at # "periods"  BY <1>1, <3>1 DEF SaveHolds, WrittenHolds
            <3> QED  BY <1>1, <3>1, <3>2 DEF SaveHolds
        <2> QED  BY <2>1, <2>2
    <1> QED  BY <1>1, <1>2, <1>3 DEF CalmHolds
\* A new period or its rows are inserted.
LEMMA InsertHolds ==
    ASSUME NEW sp, NEW now, NEW ed, NEW b, NEW w, NEW s, NEW ps, NEW cr, NEW E,
           CalmHolds(sp, ed, b, w, s, ps, cr),
           DOMAIN ed \subseteq E, DOMAIN b \subseteq E, E \subseteq DOMAIN sp,
           \A p \in ps : p.of \in PlanPeriods => p.of \in E,
           s # NoPlanSave => DOMAIN s.edited \subseteq E,
           NEW x, x \in E => DOMAIN sp[x] = {},
           NEW f, now = [sp EXCEPT ![x] = f], NEW to, NewHolds(now, w, to)
    PROVE  CalmHolds(now, ed, b, w, s, ps, to)
PROOF
    <1>1. /\ EditedHolds(sp, ed, w) /\ BaseHolds(sp, b, w) /\ WishHolds(ed, b, w)
          /\ SaveHolds(sp, b, w, s, ps) /\ PostsHold(sp, w, ps)
        BY DEF CalmHolds
    <1>2. \A q \in E : q # x => now[q] = sp[q]  OBVIOUS
    <1>3. KeepsStored(sp, now, w, E)  BY <1>2 DEF KeepsStored
    <1>4. EditedHolds(now, ed, w) /\ BaseHolds(now, b, w) /\ PostsHold(now, w, ps)
        BY <1>1, <1>3, StoredKept
    <1>5. ASSUME NEW q \in E, NEW g, NEW c, IsStored(sp, q, g, c)  PROVE IsStored(now, q, g, c)
        BY <1>2, <1>5 DEF IsStored
    <1>6. ASSUME s.at = "years"  PROVE SentHolds(now, b, w, s.edited)
        <2>1. s # NoPlanSave  BY <1>6 DEF NoPlanSave
        <2>2. DOMAIN s.edited \subseteq E /\ SentHolds(sp, b, w, s.edited)
            BY <1>1, <1>6, <2>1 DEF SaveHolds
        <2> QED  BY <1>5, <2>2 DEF SentHolds
    <1>7. ASSUME s.at = "periods"  PROVE WrittenHolds(now, s.edited, ps)
        <2>1. s # NoPlanSave  BY <1>7 DEF NoPlanSave
        <2>2. DOMAIN s.edited \subseteq E /\ WrittenHolds(sp, s.edited, ps)
            BY <1>1, <1>7, <2>1 DEF SaveHolds
        <2> QED  BY <1>5, <2>2 DEF WrittenHolds
    <1>8. SaveHolds(now, b, w, s, ps)  BY <1>1, <1>6, <1>7 DEF SaveHolds
    <1> QED  BY <1>1, <1>4, <1>8 DEF CalmHolds

CalmNow == CalmHolds(storedPlans, sheet.edited, sheet.base, wish, planSave, posts, creating)

\* The parts of the state that the lemmas above speak of.
LEMMA PartsAre ==
    ASSUME NEW n \in Nat, TypesUpto(n), There
    PROVE  /\ sheet \in [edited : ListsUpto(n), base : ListsUpto(n), dirty : BOOLEAN,
                         open : SUBSET MultiYears]
           /\ sheet.edited \in ListsUpto(n) /\ sheet.base \in ListsUpto(n)
           /\ wish \in [PlanPeriods -> Upto(n)]
           /\ shell.periods \in SUBSET PlanPeriods
           /\ planSave # NoPlanSave => planSave.edited \in ListsUpto(n)
           /\ planSave # NoPlanSave => DOMAIN planSave.edited \subseteq PlanPeriods
           /\ Existing \subseteq PlanPeriods
           /\ Existing \subseteq DOMAIN storedPlans
PROOF
    <1>1. planSave # NoPlanSave => planSave.edited \in ListsUpto(n)
        BY DEF TypesUpto, SavesUpto
    <1>2. planSave # NoPlanSave => DOMAIN planSave.edited \subseteq PlanPeriods
        BY <1>1, ListsAre
    <1>3. Existing \subseteq PlanPeriods /\ Existing \subseteq DOMAIN storedPlans
        BY DEF Existing, TypesUpto
    <1> QED  BY <1>1, <1>2, <1>3 DEF TypesUpto

\* Steps of the user on the rows, and what the server answers to them.
LEMMA CalmRows ==
    ASSUME NEW n \in Nat, n = tally.plans + 1, TypesUpto(n), There, CleanHolds,
           calm => CalmNow, calm',
           \/ \E q \in PlanPeriods, c \in Categories : TypePlan(q, c)
           \/ \E y \in MultiYears : RowStep(y)
           \/ FetchPlans \/ FetchFails \/ ShowPlans
           \/ RefetchPage \/ \E q \in NewPeriods : AskPeriod(q)
    PROVE  CalmNow'
PROOF
    <1>1. /\ sheet \in [edited : ListsUpto(n), base : ListsUpto(n), dirty : BOOLEAN,
                        open : SUBSET MultiYears]
          /\ sheet.edited \in ListsUpto(n) /\ sheet.base \in ListsUpto(n)
          /\ wish \in [PlanPeriods -> Upto(n)]
          /\ planSave # NoPlanSave => planSave.edited \in ListsUpto(n)
        BY PartsAre
    <1>2. ASSUME NEW y \in MultiYears, NEW found \in ListsUpto(n), NEW d, NEW open,
                 ShowLoaded(y, found, d, open),
                 UNCHANGED << storedPlans, wish, planSave, posts, creating >>
          PROVE  CalmNow'
        <2>1. PICK next : next = Over(found, sheet.edited)  OBVIOUS
        <2>2. /\ sheet' = [edited |-> next, base |-> IF d THEN sheet.base ELSE next,
                           dirty |-> sheet.dirty, open |-> open]
              /\ calm
              /\ \A q \in DOMAIN found : found[q] = storedPlans[q] /\ ~ HasPlans(wish[q])
              /\ d \/ wish = NoWish
            BY <1>2, <2>1 DEF ShowLoaded
        <2>3. \A q \in DOMAIN found : found[q] = storedPlans[q] /\ DOMAIN wish[q] = {}
            BY <2>2 DEF HasPlans
        <2>4. sheet'.edited = next /\ sheet'.base = IF d THEN sheet.base ELSE next  BY <2>2
        <2>5. wish = NoWish => \A q \in PlanPeriods : DOMAIN wish[q] = {}
            BY BlankIs DEF NoWish
        <2>6. PICK to : to = sheet'.base  OBVIOUS
        <2>7. to = sheet.base \/ (to = next /\ \A q \in PlanPeriods : DOMAIN wish[q] = {})
            BY <2>2, <2>4, <2>5, <2>6
        <2>8. PICK e, b, sp, w, s, ps, cr :
                 /\ e \in ListsUpto(n) /\ e = sheet.edited /\ b = sheet.base /\ sp = storedPlans /\ w = wish
                 /\ s = planSave /\ ps = posts /\ cr = creating
            BY <1>1
        <2>9. CalmHolds(sp, e, b, w, s, ps, cr)  BY <2>2, <2>8 DEF CalmNow
        <2>10. CalmHolds(sp, next, to, w, s, ps, cr)
            BY <1>1, <2>1, <2>3, <2>7, <2>8, <2>9, ShowHolds
        <2> QED  BY <1>2, <2>4, <2>6, <2>8, <2>10 DEF CalmNow
    <1>3. ASSUME NEW q \in PlanPeriods, NEW c \in Categories, TypePlan(q, c)  PROVE CalmNow'
        <2>1. PICK a \in Nat : a = tally.plans + 2  BY DEF TypesUpto
        <2>2. a > n  BY <2>1 DEF TypesUpto
        <2>3. /\ calm /\ q \in DOMAIN sheet.edited /\ q \in DOMAIN sheet.base
              /\ creating = NoPeriod
            BY <1>3 DEF TypePlan, Free
        <2>4. PICK e : e = sheet.edited  OBVIOUS
        <2>5. PICK shown : shown = [e EXCEPT ![q] = Typed(e[q], c, a)]  OBVIOUS
        <2>6. PICK typed : typed = [wish EXCEPT ![q] = Typed(wish[q], c, a)]  OBVIOUS
        <2>7. sheet' = [sheet EXCEPT !.edited = shown, !.dirty = TRUE]
            BY <1>1, <1>3, <2>1, <2>4, <2>5 DEF TypePlan, Amount
        <2>8. sheet'.edited = shown /\ sheet'.base = sheet.base  BY <1>1, <2>7
        <2>9. wish' = typed  BY <1>3, <2>1, <2>6 DEF TypePlan, Amount
        <2>10. CalmHolds(storedPlans, e, sheet.base, wish, planSave, posts, NoPeriod)
            BY <2>3, <2>4 DEF CalmNow
        <2>11. CalmHolds(storedPlans, shown, sheet.base, typed, planSave, posts, NoPeriod)
            BY <1>1, <2>2, <2>3, <2>4, <2>5, <2>6, <2>10, TypeHolds
        <2> QED  BY <1>3, <2>3, <2>8, <2>9, <2>11 DEF CalmNow, TypePlan, serverOnly
    <1>4. ASSUME NEW y \in MultiYears, RowStep(y)  PROVE CalmNow'
        <2>1. CASE ExpandLoaded(y) \/ Collapse(y) \/ TypeYear(y) \/ ExpandFetch(y)
            <3>1. sheet'.edited = sheet.edited /\ sheet'.base = sheet.base
                BY <1>1, <2>1 DEF ExpandLoaded, Collapse, TypeYear, ExpandFetch
            <3> QED  BY <2>1, <3>1
                     DEF ExpandLoaded, Collapse, TypeYear, ExpandFetch, serverOnly, CalmNow
        <2>2. CASE ExpandCached(y)
            <3>1. PICK found \in ListsUpto(n) : found = fetched[y]
                BY <2>2 DEF ExpandCached, TypesUpto
            <3>2. ShowLoaded(y, found, sheet.dirty, sheet.open \cup {y})
                BY <2>2, <3>1 DEF ExpandCached
            <3>3. UNCHANGED << storedPlans, wish, planSave, posts, creating >>
                BY <2>2 DEF ExpandCached, serverOnly
            <3> QED  BY <1>2, <3>2, <3>3
        <2> QED  BY <1>4, <2>1, <2>2 DEF RowStep
    <1>5. CASE FetchPlans \/ FetchFails \/ RefetchPage
        BY <1>5 DEF FetchPlans, FetchFails, RefetchPage, serverOnly, CalmNow
    <1>6. CASE ShowPlans
        <2>1. load \in LoadsUpto(n)  BY <1>6 DEF ShowPlans, NoLoad, TypesUpto
        <2>2. load.year \in MultiYears /\ load.found \in ListsUpto(n)  BY <2>1 DEF LoadsUpto
        <2>3. UNCHANGED << storedPlans, wish, planSave, posts, creating >>
            BY <1>6 DEF ShowPlans, serverOnly
        <2> QED  BY <1>2, <1>6, <2>2, <2>3 DEF ShowPlans
    <1>7. ASSUME NEW q \in NewPeriods, AskPeriod(q)  PROVE CalmNow'
        <2>1. q \in PlanPeriods /\ q \notin Existing
            BY <1>7, MultiYearAssumption DEF AskPeriod, Existing
        <2>2. calm  BY <1>7 DEF AskPeriod
        <2>3. DOMAIN sheet.edited \subseteq Existing  BY DEF There
        <2>4. DOMAIN wish[q] = {}  BY <2>1, <2>2, <2>3 DEF CalmNow, CalmHolds, WishHolds
        <2>5. creating'.at = "insert" /\ creating'.period = q  BY <1>7 DEF AskPeriod
        <2>6. NewHolds(storedPlans, wish, creating')  BY <2>4, <2>5 DEF NewHolds
        <2> QED  BY <1>7, <2>2, <2>6 DEF AskPeriod, serverOnly, CalmNow, CalmHolds
    <1> QED  BY <1>3, <1>4, <1>5, <1>6, <1>7
\* Cancelling, saving and what comes of it.
LEMMA CalmSaves ==
    ASSUME NEW n \in Nat, TypesUpto(n), There, CleanHolds,
           calm => CalmNow, calm',
           \/ Cancel \/ Reopen \/ SavePlans \/ StartPeriods \/ PostStep \/ SaveAnswered
           \/ RefreshShell
    PROVE  CalmNow'
PROOF
    <1>1. /\ sheet \in [edited : ListsUpto(n), base : ListsUpto(n), dirty : BOOLEAN,
                        open : SUBSET MultiYears]
          /\ sheet.edited \in ListsUpto(n) /\ sheet.base \in ListsUpto(n)
          /\ wish \in [PlanPeriods -> Upto(n)] /\ shell.periods \in SUBSET PlanPeriods
          /\ planSave # NoPlanSave => planSave.edited \in ListsUpto(n)
          /\ planSave # NoPlanSave => DOMAIN planSave.edited \subseteq PlanPeriods
          /\ Existing \subseteq DOMAIN storedPlans
        BY PartsAre
    <1>2. PICK e, b, S, sp, w, s, ps, cr :
             /\ e \in ListsUpto(n) /\ b \in ListsUpto(n) /\ S \in SUBSET PlanPeriods
             /\ e = sheet.edited /\ b = sheet.base /\ S = shell.periods /\ sp = storedPlans
             /\ w = wish /\ s = planSave /\ ps = posts /\ cr = creating
        BY <1>1
    <1>3. calm => CalmHolds(sp, e, b, w, s, ps, cr)  BY <1>2 DEF CalmNow
    <1>4. calm => NewHolds(sp, NoWish, cr) /\ PostsHold(sp, w, ps)
        <2>1. cr.at # "none" => cr.period \in PlanPeriods  BY <1>2 DEF TypesUpto, NoPeriod
        <2>2. \A q \in PlanPeriods : DOMAIN NoWish[q] = {}  BY BlankIs DEF NoWish
        <2>3. calm => NewHolds(sp, w, cr) /\ PostsHold(sp, w, ps)  BY <1>3 DEF CalmHolds
        <2> QED  BY <2>1, <2>2, <2>3 DEF NewHolds
    <1>5. CASE Cancel
        <2>1. /\ calm /\ posts = {} /\ planSave = NoPlanSave
              /\ \A q \in DOMAIN b : \A c \in DOMAIN b[q] : b[q][c] = sp[q][c]
            BY <1>2, <1>5 DEF Cancel
        <2>2. PICK next : next = Summaries(S, b)  BY SummariesAre
        <2>3. sheet' = [sheet EXCEPT !.edited = next, !.dirty = FALSE]
            BY <1>2, <1>5, <2>2 DEF Cancel
        <2>4. sheet'.edited = next /\ sheet'.base = b  BY <1>1, <1>2, <2>3
        <2>5. \A q \in DOMAIN b : \A c \in DOMAIN b[q] : IsStored(sp, q, b[q], c)
            BY <1>3, <2>1 DEF CalmHolds, BaseHolds, IsStored
        <2>6. PostsHold(sp, NoWish, {})  BY DEF PostsHold
        <2>7. CalmHolds(sp, next, b, NoWish, NoPlanSave, {}, cr)
            BY <1>2, <1>4, <2>1, <2>2, <2>5, <2>6, CleanedHolds
        <2> QED  BY <1>2, <1>5, <2>1, <2>4, <2>7 DEF Cancel, serverOnly, CalmNow
    <1>6. CASE Reopen
        <2>1. calm /\ planSave = NoPlanSave /\ ~ sheet.dirty  BY <1>6 DEF Reopen
        <2>2. \A q \in PlanPeriods : DOMAIN wish[q] = {}  BY <2>1 DEF CleanHolds
        <2>3. PICK l : l = [q \in S |-> Blank]  OBVIOUS
        <2>4. DOMAIN l = S /\ \A q \in S : DOMAIN l[q] = {}  BY <2>3, BlankIs
        <2>5. sheet'.edited = l /\ sheet'.base = l  BY <1>2, <1>6, <2>3 DEF Reopen, Opened
        <2>6. EditedHolds(sp, l, w)  BY <1>2, <2>2, <2>4 DEF EditedHolds
        <2>7. BaseHolds(sp, l, w)  BY <2>4 DEF BaseHolds
        <2>8. WishHolds(l, l, w)  BY <1>2, <2>2 DEF WishHolds
        <2>9. SaveHolds(sp, l, w, s, ps)  BY <1>2, <2>1 DEF SaveHolds, NoPlanSave
        <2>10. CalmHolds(sp, l, l, w, s, ps, cr)
            BY <1>3, <2>1, <2>6, <2>7, <2>8, <2>9 DEF CalmHolds
        <2> QED  BY <1>2, <1>6, <2>5, <2>10 DEF Reopen, serverOnly, CalmNow
    <1>7. CASE SavePlans
        <2>1. PICK waits : waits = {[of |-> y, plan |-> years.edited[y]] :
                                       y \in {z \in MultiYears : years.edited[z] # years.base[z]}}
            OBVIOUS
        <2>2. calm /\ posts = {} /\ planSave = NoPlanSave  BY <1>7 DEF SavePlans
        <2>3. PICK to : to = [at |-> "years", edited |-> e, years |-> years.edited,
                              waits |-> waits]
            OBVIOUS
        <2>4. planSave' = to /\ posts' = posts \cup waits
            BY <1>2, <1>7, <2>1, <2>3 DEF SavePlans
        <2>5. \A p \in waits : p.of \in MultiYears  BY <2>1
        <2>6. to.at = "years" /\ to.edited = e /\ to.waits = waits  BY <2>3
        <2>7. CalmHolds(sp, e, b, w, NoPlanSave, {}, cr)  BY <1>2, <1>3, <2>2
        <2>8. CalmHolds(sp, e, b, w, to, waits, cr)  BY <1>2, <2>5, <2>6, <2>7, SaveBegins
        <2>9. posts' = waits  BY <2>2, <2>4
        <2> QED  BY <1>2, <1>7, <2>4, <2>8, <2>9 DEF SavePlans, CalmNow
    <1>8. CASE StartPeriods
        <2>1. calm /\ planSave.at = "years" /\ planSave.waits = {}  BY <1>8 DEF StartPeriods
        <2>2. planSave \in SavesUpto(n) /\ planSave # NoPlanSave
            BY <2>1 DEF TypesUpto, NoPlanSave
        <2>3. posts = {}  BY <1>2, <1>3, <2>1, <2>2 DEF CalmHolds, SaveHolds
        <2>4. PICK sent \in ListsUpto(n) : sent = planSave.edited  BY <1>1, <2>2
        <2>5. PICK changed :
                 changed = {q \in DOMAIN sent \cap DOMAIN b : PlansDiffer(b[q], sent[q])}
            OBVIOUS
        <2>6. PICK waits : waits = {[of |-> q, plan |-> sent[q]] : q \in changed}  OBVIOUS
        <2>7. PICK to : to = [planSave EXCEPT !.at = "periods", !.waits = waits]  OBVIOUS
        <2>8. planSave' = to /\ posts' = posts \cup waits
            BY <1>2, <1>8, <2>4, <2>5, <2>6, <2>7 DEF StartPeriods
        <2>9. to.at = "periods" /\ to.edited = sent /\ to.waits = waits
            BY <2>2, <2>4, <2>7 DEF SavesUpto
        <2>10. CalmHolds(sp, e, b, w, s, {}, cr)  BY <1>2, <1>3, <2>1, <2>3
        <2>11. s.at = "years" /\ s.edited = sent  BY <1>2, <2>1, <2>4
        <2>12. CalmHolds(sp, e, b, w, to, waits, cr)
            BY <2>5, <2>6, <2>9, <2>10, <2>11, PeriodsBegin
        <2>13. posts' = waits  BY <2>3, <2>8
        <2> QED  BY <1>2, <1>8, <2>8, <2>12, <2>13 DEF StartPeriods, CalmNow
    <1>9. CASE PostStep
        <2>1. PICK p \in posts : PostLands(p) \/ PostFails(p)  BY <1>9 DEF PostStep
        <2>2. /\ calm /\ posts' = posts \ {p}
              /\ UNCHANGED << sheet, wish, creating >>
            BY <2>1 DEF PostLands, PostFails, postOnly
        <2>3. planSave # NoPlanSave => posts = planSave.waits
            BY <1>2, <1>3, <2>2 DEF CalmHolds, SaveHolds
        <2>4. PICK to : to = planSave'  OBVIOUS
        <2>5. \/ to = NoPlanSave
              \/ /\ s # NoPlanSave /\ to.at = s.at /\ to.edited = s.edited
                 /\ to.waits = s.waits \ {p} /\ PostLands(p)
            <3>1. CASE planSave = NoPlanSave
                <4>1. [NoPlanSave EXCEPT !.waits = @ \ {p}] = NoPlanSave  BY DEF NoPlanSave
                <4> QED  BY <2>1, <2>4, <3>1, <4>1 DEF PostLands, PostFails
            <3>2. CASE planSave # NoPlanSave /\ PostFails(p)
                BY <2>1, <2>3, <2>4, <3>2 DEF PostFails
            <3>3. CASE planSave # NoPlanSave /\ PostLands(p)
                <4>1. planSave \in SavesUpto(n)  BY <3>3 DEF TypesUpto
                <4> QED  BY <1>2, <2>4, <3>3, <4>1 DEF PostLands, SavesUpto
            <3> QED  BY <2>1, <3>1, <3>2, <3>3
        <2>6. p \in ps /\ CalmHolds(sp, e, b, w, s, ps, cr)  BY <1>2, <1>3, <2>2
        <2>7. CASE storedPlans' = storedPlans /\ (p.of \notin PlanPeriods \/ ~ PostLands(p))
            <3>1. CalmHolds(sp, e, b, w, to, ps \ {p}, cr)
                BY <1>1, <1>2, <2>5, <2>6, <2>7, AnswerHolds
            <3> QED  BY <1>2, <2>2, <2>4, <2>7, <3>1 DEF CalmNow
        <2>8. CASE p.of \in PlanPeriods /\ Writes(p)
            <3>1. storedPlans' = [storedPlans EXCEPT ![p.of] = Over(p.plan, storedPlans[p.of])]
                BY <2>8, MultiYearAssumption DEF Writes
            <3>2. PICK now : now = [sp EXCEPT ![p.of] = Over(p.plan, sp[p.of])]  OBVIOUS
            <3>3. PICK E : E = Existing  OBVIOUS
            <3>4. /\ DOMAIN e \subseteq E /\ DOMAIN b \subseteq E /\ E \subseteq DOMAIN sp
                  /\ \A o \in ps : o.of \in PlanPeriods => o.of \in E
                  /\ s # NoPlanSave => DOMAIN s.edited \subseteq E
                  /\ cr.at = "rows" => cr.period \in E
                BY <1>1, <1>2, <3>3 DEF There
            <3>5. to = NoPlanSave \/ (s # NoPlanSave /\ to.at = s.at /\ to.edited = s.edited
                                      /\ to.waits = s.waits \ {p})
                BY <2>5
            <3>6. CalmHolds(now, e, b, w, to, ps \ {p}, cr)
                BY <2>6, <2>8, <3>2, <3>4, <3>5, WriteHolds
            <3> QED  BY <1>2, <2>2, <2>4, <3>1, <3>2, <3>6 DEF CalmNow
        <2>9. \/ storedPlans' = storedPlans /\ (p.of \notin PlanPeriods \/ ~ PostLands(p))
              \/ p.of \in PlanPeriods /\ Writes(p)
            <3>1. Writes(p) \/ (storedPlans' = storedPlans /\ ~ PostLands(p)) \/ PostLands(p)
                BY <2>1 DEF PostLands, PostFails
            <3>2. PostLands(p) => Writes(p)  BY DEF PostLands
            <3>3. p \in PostsUpto(n)  BY DEF TypesUpto
            <3>4. p.of \notin PlanPeriods => p.of \in MultiYears  BY <3>3, PostsAre
            <3>5. Writes(p) /\ p.of \notin PlanPeriods => storedPlans' = storedPlans
                BY <3>4 DEF Writes
            <3> QED  BY <3>1, <3>2, <3>5
        <2> QED  BY <2>7, <2>8, <2>9
    <1>10. CASE SaveAnswered
        <2>1. /\ calm /\ posts = {} /\ sheet.edited = planSave.edited /\ planSave.at = "periods"
            BY <1>10 DEF SaveAnswered
        <2>2. planSave.edited = e  BY <1>2, <2>1
        <2>3. PICK next : next = Summaries(S, e)  OBVIOUS
        <2>4. sheet' = [sheet EXCEPT !.edited = next, !.base = e, !.dirty = FALSE]
            BY <1>2, <1>10, <2>2, <2>3 DEF SaveAnswered
        <2>5. sheet'.edited = next /\ sheet'.base = e  BY <1>1, <2>4
        <2>6. WrittenHolds(sp, e, {})  BY <1>2, <1>3, <2>1, <2>2 DEF CalmHolds, SaveHolds
        <2>7. \A q \in DOMAIN e : \A c \in DOMAIN e[q] : IsStored(sp, q, e[q], c)
            BY <2>6 DEF WrittenHolds
        <2>8. PostsHold(sp, NoWish, {})  BY DEF PostsHold
        <2>9. CalmHolds(sp, next, e, NoWish, NoPlanSave, {}, cr)
            BY <1>2, <1>4, <2>1, <2>3, <2>7, <2>8, CleanedHolds
        <2>10. /\ UNCHANGED << storedPlans, posts, creating >>
               /\ planSave' = NoPlanSave /\ wish' = NoWish
            BY <1>10 DEF SaveAnswered, serverOnly
        <2> QED  BY <1>2, <2>1, <2>5, <2>9, <2>10 DEF CalmNow
    <1>11. CASE RefreshShell
        <2>1. UNCHANGED << storedPlans, wish, planSave, posts, creating, calm >>
            BY <1>11 DEF RefreshShell, serverOnly
        <2>2. CASE sheet.dirty
            BY <1>11, <2>1, <2>2 DEF RefreshShell, CalmNow
        <2>3. CASE ~ sheet.dirty
            <3>1. \A q \in PlanPeriods : DOMAIN w[q] = {}  BY <1>2, <2>3 DEF CleanHolds
            <3>2. PICK T \in SUBSET PlanPeriods : T = Existing  BY DEF Existing
            <3>3. shell'.periods = T  BY <1>11, <3>2 DEF RefreshShell
            <3>4. PICK next : next = Summaries(T, e)  OBVIOUS
            <3>5. sheet' = [sheet EXCEPT !.edited = next]
                BY <1>2, <1>11, <2>3, <3>3, <3>4 DEF RefreshShell
            <3>6. sheet'.edited = next /\ sheet'.base = b  BY <1>1, <1>2, <3>5
            <3>7. CalmHolds(sp, next, b, w, s, ps, cr)
                BY <1>2, <1>3, <2>1, <3>1, <3>4, ListHolds
            <3> QED  BY <1>2, <2>1, <3>6, <3>7 DEF CalmNow
        <2> QED  BY <2>2, <2>3
    <1> QED  BY <1>5, <1>6, <1>7, <1>8, <1>9, <1>10, <1>11
LEMMA CalmPeriods ==
    ASSUME NEW n \in Nat, TypesUpto(n), There, calm => CalmNow, calm',
           InsertPeriod \/ InsertPlanRows \/ PeriodCreated \/ PeriodFails
    PROVE  CalmNow'
PROOF
    <1>1. /\ sheet \in [edited : ListsUpto(n), base : ListsUpto(n), dirty : BOOLEAN,
                        open : SUBSET MultiYears]
          /\ sheet.edited \in ListsUpto(n) /\ sheet.base \in ListsUpto(n)
          /\ Existing \subseteq DOMAIN storedPlans
        BY PartsAre
    <1>2. PICK e, b, sp, w, s, ps, cr, E :
             /\ e = sheet.edited /\ b = sheet.base /\ sp = storedPlans
             /\ w = wish /\ s = planSave /\ ps = posts /\ cr = creating /\ E = Existing
        OBVIOUS
    <1>3. calm => CalmHolds(sp, e, b, w, s, ps, cr)  BY <1>2 DEF CalmNow
    <1>4. /\ DOMAIN e \subseteq E /\ DOMAIN b \subseteq E /\ E \subseteq DOMAIN sp
          /\ \A o \in ps : o.of \in PlanPeriods => o.of \in E
          /\ s # NoPlanSave => DOMAIN s.edited \subseteq E
        BY <1>1, <1>2 DEF There
    <1>5. creating \in [at : {"insert", "rows", "answer"}, period : PlanPeriods] \cup {NoPeriod}
        BY DEF TypesUpto
    <1>6. CASE InsertPeriod \/ InsertPlanRows
        <2>1. /\ calm /\ UNCHANGED << sheet, wish, planSave, posts >>
              /\ creating.at \in {"insert", "rows"}
            BY <1>6 DEF InsertPeriod, InsertPlanRows, createOnly
        <2>2. PICK x \in PlanPeriods : x = creating.period  BY <1>5, <2>1 DEF NoPeriod
        <2>3. creating.at = "insert" => x \notin E  BY <1>2, <2>2 DEF There
        <2>4. NewHolds(sp, w, cr)  BY <1>3, <2>1 DEF CalmHolds
        <2>5. DOMAIN w[x] = {}  BY <1>2, <2>1, <2>2, <2>4 DEF NewHolds
        <2>6. x \in E => DOMAIN sp[x] = {}  BY <1>2, <2>1, <2>2, <2>3, <2>4 DEF NewHolds
        <2>7. PICK f : /\ storedPlans' = [storedPlans EXCEPT ![x] = f]
                       /\ creating.at = "insert" => f = Blank
            BY <1>6, <2>2 DEF InsertPeriod, InsertPlanRows
        <2>8. PICK now : now = [sp EXCEPT ![x] = f]  OBVIOUS
        <2>9. PICK to : to = creating'  OBVIOUS
        <2>10. /\ creating.at = "insert" => to.at = "rows" /\ to.period = x
               /\ creating.at = "rows" => to.at = "answer"
            BY <1>5, <1>6, <2>1, <2>2, <2>9 DEF InsertPeriod, InsertPlanRows, NoPeriod
        <2>11. NewHolds(now, w, to)
            <3>1. CASE creating.at = "insert"
                <4>1. x \in PlanPeriods /\ sp \in [PlanPeriods -> Upto(n) \cup {Missing}]
                    BY <1>2 DEF TypesUpto
                <4>2. now[x] = Blank  BY <2>7, <2>8, <3>1, <4>1
                <4> QED  BY <2>5, <2>10, <3>1, <4>2, BlankIs DEF NewHolds
            <3>2. CASE creating.at = "rows"  BY <2>10, <3>2 DEF NewHolds
            <3> QED  BY <2>1, <3>1, <3>2
        <2>12. CalmHolds(sp, e, b, w, s, ps, cr)  BY <1>3, <2>1
        <2>13. CalmHolds(now, e, b, w, s, ps, to)
            BY <1>4, <2>6, <2>8, <2>11, <2>12, InsertHolds
        <2> QED  BY <1>2, <2>1, <2>7, <2>8, <2>9, <2>13 DEF CalmNow
    <1>7. CASE PeriodCreated
        <2>1. /\ calm /\ UNCHANGED << storedPlans, wish, planSave, posts >>
              /\ creating.at = "answer" /\ creating' = NoPeriod
            BY <1>7 DEF PeriodCreated, createOnly
        <2>2. PICK x \in PlanPeriods : x = creating.period  BY <1>5, <2>1 DEF NoPeriod
        <2>3. PICK next : next = Over(e, [q \in {x} |-> Blank])  OBVIOUS
        <2>4. sheet' = [sheet EXCEPT !.edited = next]
            BY <1>2, <1>7, <2>2, <2>3 DEF PeriodCreated
        <2>5. sheet'.edited = next /\ sheet'.base = b  BY <1>1, <1>2, <2>4
        <2>6. CalmHolds(sp, e, b, w, s, ps, cr)  BY <1>3, <2>1
        <2>7. CalmHolds(sp, next, b, w, s, ps, NoPeriod)  BY <2>3, <2>6, JoinHolds
        <2> QED  BY <1>2, <2>1, <2>5, <2>7 DEF CalmNow
    <1>8. CASE PeriodFails
        <2>1. calm /\ UNCHANGED << storedPlans, sheet, wish, planSave, posts >>
              /\ creating' = NoPeriod
            BY <1>8 DEF PeriodFails, createOnly
        <2>2. NewHolds(storedPlans, wish, NoPeriod)  BY DEF NewHolds, NoPeriod
        <2> QED  BY <2>1, <2>2 DEF CalmNow, CalmHolds
    <1> QED  BY <1>6, <1>7, <1>8

LEMMA CleanStays ==
    ASSUME NEW n \in Nat, TypesUpto(n), CleanHolds, PlansNext
    PROVE  CleanHolds'
PROOF
    <1>1. sheet \in [edited : ListsUpto(n), base : ListsUpto(n), dirty : BOOLEAN,
                     open : SUBSET MultiYears]
        BY DEF TypesUpto
    <1>2. \A q \in PlanPeriods : DOMAIN NoWish[q] = {}  BY BlankIs DEF NoWish
    <1>3. ASSUME wish' = wish, sheet'.dirty \/ ~ sheet.dirty  PROVE CleanHolds'
        BY <1>3 DEF CleanHolds
    <1>4. ASSUME NEW y, NEW found, NEW d, NEW open, ShowLoaded(y, found, d, open)
          PROVE  sheet'.dirty = sheet.dirty
        BY <1>4 DEF ShowLoaded
    <1>5. ASSUME NEW y \in MultiYears, RowStep(y)  PROVE CleanHolds'
        <2>1. wish' = wish
            BY <1>5 DEF RowStep, ExpandLoaded, ExpandCached, ExpandFetch, Collapse, TypeYear
        <2>2. sheet'.dirty \/ ~ sheet.dirty
            BY <1>1, <1>4, <1>5
               DEF RowStep, ExpandLoaded, ExpandCached, ExpandFetch, Collapse, TypeYear
        <2> QED  BY <1>3, <2>1, <2>2
    <1>6. ASSUME NEW q \in PlanPeriods, NEW c \in Categories, TypePlan(q, c)
          PROVE  CleanHolds'
        <2>1. PICK t : sheet' = [sheet EXCEPT !.edited[q] = t, !.dirty = TRUE]
            BY <1>6 DEF TypePlan
        <2> QED  BY <1>1, <2>1 DEF CleanHolds
    <1>7. CASE Cancel \/ SaveAnswered
        BY <1>2, <1>7 DEF Cancel, SaveAnswered, CleanHolds
    <1>8. CASE ShowPlans
        <2>1. wish' = wish /\ sheet'.dirty = sheet.dirty  BY <1>4, <1>8 DEF ShowPlans
        <2> QED  BY <1>3, <2>1
    <1>9. CASE Reopen  BY <1>3, <1>9 DEF Reopen
    <1>10. CASE \/ FetchPlans \/ FetchFails \/ SavePlans \/ StartPeriods \/ PostStep \/ RefetchPage
        BY <1>3, <1>10 DEF FetchPlans, FetchFails, SavePlans, StartPeriods, PostStep, PostLands,
                           PostFails, postOnly, RefetchPage
    <1>11. CASE RefreshShell
        <2>1. sheet'.dirty = sheet.dirty  BY <1>1, <1>11 DEF RefreshShell
        <2> QED  BY <1>3, <1>11, <2>1 DEF RefreshShell
    <1>12. CASE NewPeriodStep
        <2>1. wish' = wish /\ sheet'.dirty = sheet.dirty
            BY <1>1, <1>12 DEF NewPeriodStep, AskPeriod, InsertPeriod, InsertPlanRows,
                               PeriodCreated, PeriodFails, createOnly
        <2> QED  BY <1>3, <2>1
    <1> QED  BY <1>5, <1>6, <1>7, <1>8, <1>9, <1>10, <1>11, <1>12 DEF PlansNext

-------------------------------------------------------------------------------
(* The invariant *)

LEMMA PlansStart ==
    ASSUME PlansInit
    PROVE  PlansInv
PROOF
    <1>1. Blank \in Upto(1)  BY BlankIs, UptoGrows
    <1>2. [c \in Categories |-> Planned] \in Upto(1)
        <2>1. [c \in Categories |-> Planned] \in [Categories -> 0..1]  BY DEF Planned
        <2> QED  BY <2>1, PlansMade
    <1>3. storedPlans \in [PlanPeriods -> Upto(1) \cup {Missing}]  BY <1>2 DEF PlansInit
    <1>4. storedYears \in [MultiYears -> 0..1]  BY DEF PlansInit, Planned
    <1>5. PICK S \in SUBSET PlanPeriods : S = Existing  BY DEF Existing
    <1>6. PICK l : l = [q \in S |-> Blank]  OBVIOUS
    <1>7. l \in [S -> Upto(1)] /\ DOMAIN l = S /\ \A q \in S : DOMAIN l[q] = {}
        BY <1>1, <1>6, BlankIs
    <1>8. l \in ListsUpto(1)  BY <1>7, ListsMade
    <1>9. sheet = [edited |-> l, base |-> l, dirty |-> FALSE, open |-> {}]
        BY <1>5, <1>6 DEF PlansInit, Opened
    <1>10. NoWish \in [PlanPeriods -> Upto(1)] /\ \A q \in PlanPeriods : DOMAIN NoWish[q] = {}
        BY <1>1, BlankIs DEF NoWish
    <1>11. tally \in [plans : 0..MaxPlans, saves : 0..MaxPlanSaves] /\ tally.plans + 1 = 1
        BY MultiYearAssumption DEF PlansInit
    <1>12. TypesUpto(1)
        BY <1>3, <1>4, <1>5, <1>8, <1>9, <1>10, <1>11 DEF PlansInit, TypesUpto
    <1>13. There
        BY <1>5, <1>7, <1>9 DEF PlansInit, There, NoPeriod
    <1>14. CleanHolds  BY <1>10 DEF CleanHolds, PlansInit
    <1>15. EditedHolds(storedPlans, l, NoWish)  BY <1>7, <1>10 DEF EditedHolds
    <1>16. BaseHolds(storedPlans, l, NoWish)  BY <1>7 DEF BaseHolds
    <1>17. WishHolds(l, l, NoWish)  BY <1>10 DEF WishHolds
    <1>18. SaveHolds(storedPlans, l, NoWish, NoPlanSave, {})  BY DEF SaveHolds, NoPlanSave
    <1>19. PostsHold(storedPlans, NoWish, {})  BY DEF PostsHold
    <1>20. NewHolds(storedPlans, NoWish, NoPeriod)  BY DEF NewHolds, NoPeriod
    <1>21. CalmHolds(storedPlans, l, l, NoWish, NoPlanSave, {}, NoPeriod)
        BY <1>15, <1>16, <1>17, <1>18, <1>19, <1>20 DEF CalmHolds
    <1>22. CalmHolds(storedPlans, sheet.edited, sheet.base, wish, planSave, posts, creating)
        BY <1>9, <1>21 DEF PlansInit
    <1> QED  BY <1>11, <1>12, <1>13, <1>14, <1>22 DEF PlansInv

LEMMA PlansKeep ==
    ASSUME PlansInv, [PlansNext]_planVars
    PROVE  PlansInv'
PROOF
    <1>1. CASE UNCHANGED planVars
        <2>1. TypesUpto(tally.plans + 1)'  BY <1>1 DEF PlansInv, TypesUpto, planVars
        <2>2. There'  BY <1>1 DEF PlansInv, There, Existing, planVars
        <2>3. CleanHolds'  BY <1>1 DEF PlansInv, CleanHolds, planVars
        <2> QED  BY <1>1, <2>1, <2>2, <2>3 DEF PlansInv, planVars
    <1>2. CASE PlansNext
        <2> DEFINE Typing == \/ \E q \in PlanPeriods, c \in Categories : TypePlan(q, c)
                             \/ \E y \in MultiYears : TypeYear(y)
                             \/ \E q \in NewPeriods : AskPeriod(q)
        <2>1. TypesUpto(tally.plans + 1) /\ There /\ CleanHolds /\ (calm => CalmNow)
            BY DEF PlansInv, CalmNow
        <2>2. tally \in [plans : 0..MaxPlans, saves : 0..MaxPlanSaves] /\ MaxPlans \in Nat
            BY <2>1, MultiYearAssumption DEF TypesUpto
        <2>3. PICK n \in Nat : n = tally.plans + 1 /\ n > 0 /\ n <= MaxPlans + 1  BY <2>2
        <2>4. TypesUpto(n)  BY <2>1, <2>3
        <2>5. There'  BY <1>2, <2>1, <2>3, <2>4, RowsThere, SavesThere
                         DEF PlansNext, NewPeriodStep
        <2>6. CleanHolds'  BY <1>2, <2>1, <2>4, CleanStays
        <2>7. calm' => CalmNow'
            BY <1>2, <2>1, <2>3, <2>4, CalmRows, CalmSaves, CalmPeriods
               DEF PlansNext, NewPeriodStep
        <2>8. TypesUpto(tally.plans + 1)'
            <3>1. CASE Typing
                <4>1. tally' = [tally EXCEPT !.plans = @ + 1]
                    BY <3>1 DEF TypePlan, TypeYear, AskPeriod, CanType
                <4>2. PICK m \in Nat : m = n + 1 /\ m = tally'.plans + 1 /\ tally.plans + 2 <= m
                    BY <2>2, <2>3, <4>1
                <4>3. TypesUpto(m)
                    <5>1. /\ 0..n \subseteq 0..m /\ Upto(n) \subseteq Upto(m)
                          /\ ListsUpto(n) \subseteq ListsUpto(m)
                          /\ PostsUpto(n) \subseteq PostsUpto(m)
                          /\ LoadsUpto(n) \subseteq LoadsUpto(m)
                          /\ SavesUpto(n) \subseteq SavesUpto(m)
                        BY <4>2, UptoGrows
                    <5> QED  BY <2>4, <5>1 DEF TypesUpto
                <4>4. TypesUpto(m)'  BY <3>1, <4>2, <4>3, TypingTypes
                <4> QED  BY <4>2, <4>4
            <3>2. CASE ~ Typing
                <4>1. TypesUpto(n)'
                    BY <1>2, <2>1, <2>3, <2>4, <3>2, RowTypes, SaveTypes, OtherTypes
                       DEF PlansNext, NewPeriodStep, RowStep
                <4>2. tally'.plans = tally.plans
                    <5>1. ASSUME NEW y \in MultiYears, RowStep(y)  PROVE tally' = tally
                        BY <3>2, <5>1
                           DEF RowStep, ExpandLoaded, ExpandCached, ExpandFetch, Collapse
                    <5>2. CASE NewPeriodStep
                        BY <3>2, <5>2 DEF NewPeriodStep, InsertPeriod, InsertPlanRows,
                                          PeriodCreated, PeriodFails, createOnly
                    <5>3. CASE SavePlans  BY <2>2, <5>3 DEF SavePlans
                    <5>4. CASE \/ FetchPlans \/ FetchFails \/ ShowPlans \/ Cancel \/ Reopen
                               \/ StartPeriods \/ PostStep \/ SaveAnswered \/ RefreshShell
                               \/ RefetchPage
                        BY <5>4 DEF FetchPlans, FetchFails, ShowPlans, Cancel, Reopen,
                                    StartPeriods, PostStep, PostLands, PostFails, postOnly,
                                    SaveAnswered, RefreshShell, RefetchPage
                    <5> QED  BY <1>2, <3>2, <5>1, <5>2, <5>3, <5>4 DEF PlansNext
                <4> QED  BY <2>3, <4>1, <4>2
            <3> QED  BY <3>1, <3>2
        <2> QED  BY <2>5, <2>6, <2>7, <2>8 DEF PlansInv, CalmNow
    <1> QED  BY <1>1, <1>2

LEMMA PlansInvariant == PlansSpec => []PlansInv
PROOF
    <1>1. PlansInit => PlansInv  BY PlansStart
    <1>2. PlansInv /\ [PlansNext]_planVars => PlansInv'  BY PlansKeep
    <1> QED  BY <1>1, <1>2, PTL DEF PlansSpec

\* The page, its copies, its loads and saves hold plans of its periods, whatever is typed and
\* however often.
THEOREM PlansTypes == PlansSpec => []PlansTypeOK
PROOF
    <1>1. PlansInv => PlansTypeOK
        <2>1. SUFFICES ASSUME PlansInv PROVE PlansTypeOK  OBVIOUS
        <2>2. TypesUpto(tally.plans + 1)  BY <2>1 DEF PlansInv
        <2>3. tally \in [plans : 0..MaxPlans, saves : 0..MaxPlanSaves] /\ MaxPlans \in Nat
            BY <2>2, MultiYearAssumption DEF TypesUpto
        <2>4. PICK n \in Nat : n = tally.plans + 1 /\ n <= MaxPlans + 1  BY <2>3
        <2>5. PICK m \in Nat : m = MaxPlans + 1  BY <2>3
        <2>6. /\ 0..n \subseteq 0..m /\ Upto(n) \subseteq Upto(m)
              /\ ListsUpto(n) \subseteq ListsUpto(m) /\ PostsUpto(n) \subseteq PostsUpto(m)
              /\ LoadsUpto(n) \subseteq LoadsUpto(m) /\ SavesUpto(n) \subseteq SavesUpto(m)
            BY <2>4, <2>5, UptoGrows
        <2>7. Amounts = 0..m  BY <2>5 DEF Amounts
        <2>8. Plans = Upto(m)  BY <2>7 DEF Plans, Upto
        <2>9. Lists = ListsUpto(m)  BY <2>8 DEF Lists, ListsUpto
        <2>10. Post = PostsUpto(m)  BY <2>7, <2>8 DEF Post, PostsUpto
        <2>11. Load = LoadsUpto(m)  BY <2>9 DEF Load, LoadsUpto
        <2>12. YearPlans = [MultiYears -> 0..m]  BY <2>7 DEF YearPlans
        <2>13. TypesUpto(n)  BY <2>2, <2>4
        <2>14. TypesUpto(m)  BY <2>6, <2>13 DEF TypesUpto
        <2> QED  BY <2>7, <2>8, <2>9, <2>10, <2>11, <2>12, <2>14
                 DEF PlansTypeOK, TypesUpto, SavesUpto
    <1> QED  BY <1>1, PlansInvariant, PTL

\* As long as nothing unusual happened, what the page shows of a period is what is stored,
\* but for what was typed and neither saved nor cancelled, and what its next save is compared
\* with is stored too: through loads that the request cache answers, writes that are made in
\* any order, saves that fail half-way, and new periods.
THEOREM PlansShown == PlansSpec => []ShownPlansAreStored
PROOF
    <1>1. PlansInv => ShownPlansAreStored
        <2>1. SUFFICES ASSUME PlansInv, calm
                       PROVE  ShownPlansAreStored
            BY DEF ShownPlansAreStored
        <2>2. EditedHolds(storedPlans, sheet.edited, wish) /\ BaseHolds(storedPlans, sheet.base, wish)
            BY <2>1 DEF PlansInv, CalmHolds
        <2> QED  BY <2>2 DEF EditedHolds, BaseHolds, IsStored, ShownPlansAreStored
    <1> QED  BY <1>1, PlansInvariant, PTL

-------------------------------------------------------------------------------
(* The saves together *)

\* Each step of the composition is one of a component's own, or leaves it alone.
LEMMA SavesSteps == [SavesNext]_savesVars =>
                       /\ [Next]_vars /\ [OrdersNext]_orderVars /\ [PlansNext]_planVars
                       /\ via' = via
PROOF
    <1> SUFFICES ASSUME [SavesNext]_savesVars
                 PROVE  /\ [Next]_vars /\ [OrdersNext]_orderVars /\ [PlansNext]_planVars
                        /\ via' = via
        OBVIOUS
    <1>1. CASE BudgetStep  BY <1>1 DEF BudgetStep
    <1>2. CASE OrdersStep  BY <1>2 DEF OrdersStep
    <1>3. CASE PlansStep  BY <1>3 DEF PlansStep
    <1>4. CASE UNCHANGED savesVars  BY <1>4 DEF savesVars
    <1> QED  BY <1>1, <1>2, <1>3, <1>4 DEF SavesNext

\* Whichever way a behaviour is about, what moves keeps its types: the saves, the pages of
\* orders and receipts, and the page of plans, none of which moves the tables of another.
THEOREM SavesTypes == SavesSpec => []SavesTypeOK
PROOF
    <1>1. SavesInit => /\ Init /\ OrdersInit /\ PlansInit
                       /\ via \in {"budget", "orders", "plans"}
        BY DEF SavesInit
    <1>2. via \in {"budget", "orders", "plans"} /\ via' = via
             => (via \in {"budget", "orders", "plans"})'
        OBVIOUS
    <1>3. BudgetTypeOK /\ OrdersTypeOK /\ PlansTypeOK /\ via \in {"budget", "orders", "plans"}
             => SavesTypeOK
        BY DEF SavesTypeOK
    <1> QED  BY <1>1, <1>2, <1>3, SavesSteps, BudgetTypes, OrdersTyped, PlansTypes, PTL
             DEF SavesSpec, Spec, OrdersSpec, PlansSpec

===============================================================================
