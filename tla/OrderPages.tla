------------------------------ MODULE OrderPages ------------------------------
(***************************************************************************)
(* The pages that record purchase orders (POUpdatePage, with its quick     *)
(* form) and goods received (GRUpdatePage).  Each shows a copy of the rows *)
(* of the assets, lets its user edit it, and saves the rows it finds       *)
(* changed; a save writes every column (persistAssetRow), whatever the     *)
(* page's query left out.  An order that is new is then reported to the    *)
(* workflow by the trigger PO_CREATED.                                     *)
(*                                                                         *)
(* Abstracted: of a number or an amount there is only whether it is given, *)
(* of a date whether it is today's.  Left out: columns that all pages      *)
(* carry along, the lifecycle status (which fares like the CPR id), paging *)
(* and sorting, the snapshot a page opens with, and the GRN task that the  *)
(* receipt page would complete for a mark that nothing sets.               *)
(***************************************************************************)
EXTENDS Naturals, FiniteSets

CONSTANTS
    MaxItem,        \* assets are 1..MaxItem, in the order of the pages
    MaxQty,         \* bound on the quantity ordered
    PoUsers,        \* users with the order page open
    GrUsers,        \* users with the receipt page open
    FirstRows,      \* what the table may hold when they open it
    MaxStrokes,     \* bound on the edits of all users
    NoDate, Earlier, Today,
    NoCopy          \* editedData = []; no bundle cached

Items == 1..MaxItem
OrderUsers == PoUsers \cup GrUsers

\* po, spent and cpr: whether the number, the amount and the id are given.
AssetRow == [po : BOOLEAN, spent : BOOLEAN, cpr : BOOLEAN, date : {NoDate, Earlier, Today},
             qty : 1..MaxQty, received : 0..MaxQty]

ASSUME OrderPagesAssumption ==
    /\ MaxItem \in Nat /\ MaxQty \in Nat \ {0} /\ MaxStrokes \in Nat
    /\ PoUsers \cap GrUsers = {}
    /\ FirstRows \subseteq [Items -> AssetRow]

VARIABLES
    assetRows,      \* the assets table
    triggered,      \* assets PO_CREATED was triggered for
    forgone,        \* assets it was to be triggered for, when something failed
    screens,        \* the state of each page
    bundles,        \* the po-update pages in the cache of the backend
    strokes         \* edits so far

orderVars == << assetRows, triggered, forgone, screens, bundles, strokes >>

\* An asset on a page: isGoodsReceived and __poSentToVendorChecked besides.
Line == [po : BOOLEAN, spent : BOOLEAN, cpr : BOOLEAN, date : {NoDate, Earlier, Today},
         qty : 1..MaxQty, received : 0..MaxQty, flag : BOOLEAN, sent : BOOLEAN]
Lines == UNION {[S -> Line] : S \in SUBSET Items}

Screen == [shown : Lines, has : SUBSET Items, base : Lines, edited : Lines \cup {NoCopy},
           dirty : BOOLEAN, touched : SUBSET Items, calls : SUBSET Items, saving : BOOLEAN]
Bundle == [shown : Lines, has : SUBSET Items]

OrdersTypeOK ==
    /\ assetRows \in [Items -> AssetRow]
    /\ triggered \subseteq Items /\ forgone \subseteq Items
    /\ screens \in [OrderUsers -> Screen]
    /\ bundles \in [PoUsers -> Bundle \cup {NoCopy}]
    /\ strokes \in 0..MaxStrokes

-------------------------------------------------------------------------------
(* What the pages load *)

IsOrdered(row) == row.po \/ row.spent
AllReceived(row) == row.received = row.qty

OnPage(row) == [po |-> row.po, spent |-> row.spent, cpr |-> FALSE, date |-> NoDate,
                qty |-> row.qty, received |-> row.received,
                flag |-> AllReceived(row), sent |-> FALSE]

\* The select of the order page asks for neither the CPR id nor the date.
PoLines == [i \in Items |-> OnPage(assetRows[i])]
HasPo == {i \in Items : assetRows[i].po} \cup triggered

\* The loader of the receipt page drops the quantities too, and the page takes 0
\* of 1 for what is missing.
GrLines ==
    [i \in {j \in Items : IsOrdered(assetRows[j]) \/ AllReceived(assetRows[j])} |->
        [OnPage(assetRows[i]) EXCEPT !.qty = 1, !.received = 0]]

NewScreen(lines, has) ==
    [shown |-> lines, has |-> has, base |-> lines, edited |-> NoCopy, dirty |-> FALSE,
     touched |-> {}, calls |-> {}, saving |-> FALSE]

OrdersInit ==
    /\ assetRows \in FirstRows
    /\ triggered = {i \in Items : IsOrdered(assetRows[i])}
    /\ forgone = {}
    /\ screens = [u \in OrderUsers |-> IF u \in PoUsers THEN NewScreen(PoLines, HasPo)
                                       ELSE NewScreen(GrLines, {})]
    /\ bundles = [u \in PoUsers |-> NoCopy]
    /\ strokes = 0

\* As long as a page is not dirty its base follows what it shows.
Follow(s) == IF s.dirty \/ DOMAIN s.shown = {} THEN s ELSE [s EXCEPT !.base = s.shown]

Shown(s, lines, has) == Follow([s EXCEPT !.shown = lines, !.has = has])

ShowLines(u, lines, has) == screens' = [screens EXCEPT ![u] = Shown(@, lines, has)]

\* loadPageBundleCached; whether a cached bundle is still good is up to the clock.
PoLoad(u) ==
    /\ ShowLines(u, PoLines, HasPo)
    /\ bundles' = [bundles EXCEPT ![u] = [shown |-> PoLines, has |-> HasPo]]
    /\ UNCHANGED << assetRows, triggered, forgone, strokes >>

PoLoadCached(u) ==
    /\ bundles[u] # NoCopy
    /\ ShowLines(u, bundles[u].shown, bundles[u].has)
    /\ UNCHANGED << assetRows, triggered, forgone, bundles, strokes >>

GrLoad(u) ==
    /\ ShowLines(u, GrLines, {})
    /\ UNCHANGED << assetRows, triggered, forgone, bundles, strokes >>

-------------------------------------------------------------------------------
(* Editing *)

OnScreen(s) == IF s.dirty THEN s.edited ELSE s.shown

\* The first edit starts from what is shown; editedData left by a save that found
\* nothing to do is gone on with.
Opened1(s) == IF s.edited # NoCopy THEN s
              ELSE [s EXCEPT !.edited = s.shown, !.base = s.shown]

Stroked(s, i, lines) ==
    [Opened1(s) EXCEPT !.edited = lines, !.dirty = TRUE, !.touched = @ \cup {i}]

Edit1(u, i, lines) ==
    /\ strokes < MaxStrokes
    /\ strokes' = strokes + 1
    /\ screens' = [screens EXCEPT ![u] = Stroked(@, i, lines)]
    /\ UNCHANGED << assetRows, triggered, forgone, bundles >>

\* handleDataChange takes over the rows the table lists, the edited one among them.
WithListed(s, listed, i, line) ==
    LET mine == Opened1(s).edited
    IN  [j \in DOMAIN mine |->
            IF j = i THEN line
            ELSE IF j \in listed \cap DOMAIN OnScreen(s) THEN OnScreen(s)[j] ELSE mine[j]]

PoCell(u, i, listed) ==
    LET s == screens[u] IN
    \E line \in {[OnScreen(s)[i] EXCEPT !.po = ~@], [OnScreen(s)[i] EXCEPT !.spent = ~@],
                 [OnScreen(s)[i] EXCEPT !.cpr = ~@]}
                \cup {[OnScreen(s)[i] EXCEPT !.date = d] : d \in {NoDate, Earlier, Today}} :
        Edit1(u, i, WithListed(s, listed, i, line))

\* handlePOSentToVendorChange.
SentLine(line) ==
    IF line.sent THEN [line EXCEPT !.sent = FALSE]
    ELSE [line EXCEPT !.sent = TRUE, !.spent = TRUE,
                      !.date = IF @ = NoDate THEN Today ELSE @]

PoSent(u, i) ==
    LET s == screens[u] IN
    /\ i \notin s.has
    /\ Edit1(u, i, [Opened1(s).edited EXCEPT ![i] = SentLine(@)])

\* handleDataChange of the receipt page counts every row anew.
Recount(line) ==
    LET n == IF line.received > line.qty THEN line.qty ELSE line.received
    IN  [line EXCEPT !.received = n, !.flag = (n = line.qty)]

GrCell(u, i, listed, n) ==
    LET s == screens[u]
        lines == WithListed(s, listed, i, [OnScreen(s)[i] EXCEPT !.received = n])
    IN  Edit1(u, i, [j \in DOMAIN lines |-> Recount(lines[j])])

\* handleMarkReceivedChange.
GrMark(u, i, all) ==
    LET lines == Opened1(screens[u]).edited
    IN  Edit1(u, i, [j \in DOMAIN lines |->
            IF j # i THEN lines[j]
            ELSE [lines[j] EXCEPT !.flag = all,
                                  !.received = IF all THEN lines[j].qty ELSE 0]])

\* The copy is given up, after a save or by handleCancel.
Done(s) == Follow([s EXCEPT !.edited = NoCopy, !.dirty = FALSE, !.touched = {}, !.saving = FALSE])

Discard(u) ==
    /\ screens[u].dirty /\ ~screens[u].saving
    /\ screens' = [screens EXCEPT ![u] = Done(@)]
    /\ UNCHANGED << assetRows, triggered, forgone, bundles, strokes >>

-------------------------------------------------------------------------------
(* Saving *)

\* hasPoFieldChanges.
OrderChanged(old, new) ==
    old.po # new.po \/ old.spent # new.spent \/ old.cpr # new.cpr

\* preparePoAssetsForSave: an order without a date is given today's.
Prepared(s) ==
    [i \in DOMAIN s.edited |->
        LET line == s.edited[i] IN
        IF /\ i \in DOMAIN s.base /\ line.date = NoDate
           /\ OrderChanged(s.base[i], line)
           /\ IsOrdered(line) \/ line.cpr \/ line.sent
        THEN [line EXCEPT !.date = Today] ELSE line]

\* diffChangedPoAssets and collectGrAssetChanges.
PoChanges(s) ==
    LET lines == Prepared(s) IN
    {i \in DOMAIN lines :
        \/ i \notin DOMAIN s.base
        \/ lines[i].sent
        \/ OrderChanged(s.base[i], lines[i])
        \/ s.base[i].date # lines[i].date
        \/ s.base[i].flag # lines[i].flag}

GrChanges(s) ==
    {i \in DOMAIN s.edited \cap DOMAIN s.base :
        /\ s.edited[i].received <= s.edited[i].qty
        /\ \/ s.base[i].received # s.edited[i].received
           \/ s.base[i].flag # s.edited[i].flag}

\* Mutant: whether there is an order already is looked up after the save.
NewOrdersLate(s, changed) ==
    LET lines == Prepared(s) IN
    {i \in changed :
        /\ i \notin triggered /\ ~lines[i].po
        /\ \/ lines[i].sent
           \/ i \in DOMAIN s.base /\ OrderChanged(s.base[i], lines[i]) /\ IsOrdered(lines[i])}

\* shouldTriggerPoCreatedTask.
NewOrders(s, changed) ==
    LET lines == Prepared(s) IN
    {i \in changed :
        /\ i \notin s.has
        /\ \/ lines[i].sent
           \/ i \in DOMAIN s.base /\ OrderChanged(s.base[i], lines[i]) /\ IsOrdered(lines[i])}

\* The row that patchAssetsFull and persistAssetRow make of a line; patchAssets of
\* the receipts leaves out the CPR id and the date.
PoRow(line) == [po |-> line.po, spent |-> line.spent, cpr |-> line.cpr, date |-> line.date,
                qty |-> line.qty, received |-> line.received]
GrRow(line) == [PoRow(line) EXCEPT !.cpr = FALSE, !.date = NoDate]

PersistRows(rows, S) ==
    assetRows' = [i \in Items |-> IF i \in S THEN rows[i] ELSE assetRows[i]]

\* A save writes row by row, and may end before any of them.
BeforeFailure(S) == {{i \in S : i < k} : k \in S}

MaySave(s) == s.dirty /\ ~s.saving /\ s.calls = {}

NothingToSave(u) ==
    LET s == screens[u] IN
    /\ MaySave(s)
    /\ (IF u \in PoUsers THEN PoChanges(s) ELSE GrChanges(s)) = {}
    /\ screens' = [screens EXCEPT ![u] = Follow([s EXCEPT !.dirty = FALSE, !.touched = {}])]
    /\ UNCHANGED << assetRows, triggered, forgone, bundles, strokes >>

\* handleSave of the order page; the cached bundle stays as it is.
PoSave(u) ==
    LET s == screens[u]
        changed == PoChanges(s)
    IN  /\ MaySave(s) /\ changed # {}
        /\ PersistRows([i \in changed |-> PoRow(Prepared(s)[i])], changed)
        /\ screens' = [screens EXCEPT ![u] =
              [s EXCEPT !.saving = TRUE, !.calls = NewOrders(s, changed)]]
        /\ UNCHANGED << triggered, forgone, bundles, strokes >>

PoSaveFails(u) ==
    LET s == screens[u]
        changed == PoChanges(s)
    IN  /\ MaySave(s)
        /\ \E written \in BeforeFailure(changed) :
              /\ PersistRows([i \in written |-> PoRow(Prepared(s)[i])], written)
              /\ forgone' = forgone \cup (written \cap NewOrders(s, changed))
        /\ UNCHANGED << triggered, screens, bundles, strokes >>

\* handleSubmit of the quick form, one row of it.
QuickPo(u, i) ==
    LET s == screens[u]
        line == OnScreen(s)[i]
    IN  /\ strokes < MaxStrokes
        /\ ~s.saving /\ s.calls = {}
        /\ \E po, spent, cpr \in BOOLEAN, date \in {Earlier, Today} :
              /\ po \/ spent \/ cpr
              /\ PersistRows([j \in {i} |-> PoRow([line EXCEPT !.po = po, !.spent = spent,
                                                   !.cpr = cpr, !.date = date])], {i})
              /\ screens' = [screens EXCEPT ![u].calls =
                                IF (po \/ spent) /\ i \notin s.has THEN {i} ELSE {}]
        /\ strokes' = strokes + 1
        /\ UNCHANGED << triggered, forgone, bundles >>

\* triggerSystemTask; one that fails is not told from one that is answered.
Trigger(u, i) ==
    /\ i \in screens[u].calls
    /\ screens' = [screens EXCEPT ![u].calls = @ \ {i}]
    /\ \/ triggered' = triggered \cup {i} /\ UNCHANGED forgone
       \/ forgone' = forgone \cup {i} /\ UNCHANGED triggered
    /\ UNCHANGED << assetRows, bundles, strokes >>

\* What was edited during the save goes too.
PoSaved(u) ==
    /\ screens[u].saving /\ screens[u].calls = {}
    /\ screens' = [screens EXCEPT ![u] = Done(@)]
    /\ UNCHANGED << assetRows, triggered, forgone, bundles, strokes >>

\* handleSave of the receipt page.
GrSave(u) ==
    LET s == screens[u]
        changed == GrChanges(s)
    IN  /\ MaySave(s) /\ changed # {}
        /\ PersistRows([i \in changed |-> GrRow(s.edited[i])], changed)
        /\ screens' = [screens EXCEPT ![u] = Done(s)]
        /\ UNCHANGED << triggered, forgone, bundles, strokes >>

GrSaveFails(u) ==
    LET s == screens[u] IN
    /\ MaySave(s)
    /\ \E written \in BeforeFailure(GrChanges(s)) :
          PersistRows([i \in written |-> GrRow(s.edited[i])], written)
    /\ UNCHANGED << triggered, forgone, screens, bundles, strokes >>

-------------------------------------------------------------------------------
PoStep(u) == \/ PoLoad(u) \/ PoLoadCached(u) \/ Discard(u)
             \/ \E i \in Items : \/ PoSent(u, i) \/ QuickPo(u, i) \/ Trigger(u, i)
                                 \/ \E listed \in {Items, {i}} : PoCell(u, i, listed)
             \/ NothingToSave(u) \/ PoSave(u) \/ PoSaveFails(u) \/ PoSaved(u)

GrStep(u) == \/ GrLoad(u) \/ Discard(u)
             \/ \E i \in DOMAIN OnScreen(screens[u]) :
                   \/ \E all \in BOOLEAN : GrMark(u, i, all)
                   \/ \E listed \in {Items, {i}}, n \in 0..MaxQty : GrCell(u, i, listed, n)
             \/ NothingToSave(u) \/ GrSave(u) \/ GrSaveFails(u)

OrdersNext == (\E u \in PoUsers : PoStep(u)) \/ (\E u \in GrUsers : GrStep(u))

OrdersSpec == OrdersInit /\ [][OrdersNext]_orderVars
-------------------------------------------------------------------------------
(* Properties *)

\* What is ordered gets to the workflow: PO_CREATED was triggered for every asset
\* whose row carries an order number or amount, or is about to be, or something
\* failed that was to do it.  No page overlooks an order because it takes it for an
\* old one (shouldTriggerPoCreatedTask, assetHasPOMap).
OrdersReachTheWorkflow ==
    \A i \in Items : IsOrdered(assetRows[i]) =>
        i \in triggered \cup forgone \/ \E u \in PoUsers : i \in screens[u].calls

\* "Ubah received qty | Konsisten dengan aset": no page edits the quantity ordered,
\* so a save keeps it, and changes the quantity received only of an asset whose
\* user edited it.
QtyInSync ==
    [][\A i \in Items :
          /\ assetRows'[i].qty = assetRows[i].qty
          /\ assetRows'[i].received # assetRows[i].received =>
                \E u \in GrUsers : i \in screens[u].touched]_assetRows

===============================================================================
