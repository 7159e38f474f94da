-------------------------------- MODULE HuPage --------------------------------
(***************************************************************************)
(* The page that edits the budget of one hospital unit: BudgetHUPage, its  *)
(* data pipeline useBudgetHuPagePipeline and the diff that a save sends.   *)
(*                                                                         *)
(* The page keeps two copies of the projects: base (serverPeriodRef), what *)
(* the server had, and edited, what the user made of it.  A save sends the *)
(* difference.  Meanwhile other users save too, and the page looks for     *)
(* what they did by comparing fingerprints.  Whoever awaits an answer -    *)
(* the save, and the handlers that ask for a new code or log the change -  *)
(* goes on with the copy of edited that he started from.                   *)
(*                                                                         *)
(* Abstracted: all fields of a project are one, told apart by who wrote    *)
(* them when; of an asset there is only whether it is there.  Codes are    *)
(* the business of BudgetSave, whose save is one step here.  Left out is   *)
(* what the page adds by itself to a unit that lacks an aggregator or a    *)
(* first pipeline stage.                                                   *)
(***************************************************************************)
EXTENDS Naturals, FiniteSets, FiniteSetsExt

CONSTANTS
    HuProjects,     \* ids of projects
    HuAssets,       \* ids of assets in a project
    AtFirst,        \* the projects there are when the page opens
    MaxWrites,      \* bound on the changes of a project, by whomever
    MaxStarts,      \* bound on the handlers and saves started
    MaxPeerSaves,   \* bound on the saves of others
    Gone,           \* no project; no fingerprint
    AsIs            \* a project the user has left alone

Writes == 0..MaxWrites
ProjectRow == [fields : Writes, assets : SUBSET HuAssets]
Times == 0..MaxPeerSaves + MaxStarts + 1
Prints == [ids : SUBSET HuProjects, latest : Times]

ASSUME HuPageAssumption ==
    /\ IsFiniteSet(HuProjects) /\ AtFirst \subseteq HuProjects
    /\ MaxWrites \in Nat /\ MaxStarts \in Nat /\ MaxPeerSaves \in Nat
    /\ Gone \notin HuProjects /\ Gone \notin Writes /\ Gone \notin ProjectRow
    /\ Gone \notin Prints
    /\ AsIs \notin Writes /\ AsIs # Gone

VARIABLES
    server,     \* the rows in the database
    touchedAt,  \* updated_at of the projects
    edited,     \* editedData
    base,       \* serverPeriodRef
    dirty,      \* isDirtyRef
    known,      \* lastFingerprint
    poll,       \* the poll for what others did
    handler,    \* a handler that awaits an answer
    save,       \* the save that does
    used,       \* ids given to a project so far
    counts,     \* of writes, of handlers and saves, of saves by others
    mine,       \* what the user made of a project and has neither saved nor cancelled
    folded,     \* a refresh came while the page was dirty
    straight    \* nothing came in between of what awaited an answer

pageVars == << server, touchedAt, edited, base, dirty, known, poll, handler, save, used,
               counts, mine, folded, straight >>

Tree == [HuProjects -> ProjectRow \cup {Gone}]
Nobody == [p \in HuProjects |-> Gone]
Fingerprint == Prints \cup {Gone}

\* at: the next answer it waits for.
Poll == [at : {"idle", "fetch", "apply"}, print : Fingerprint, tree : Tree, seen : BOOLEAN]
Handler == [does : {"idle", "newProject", "newAsset", "saveProject", "massUpdate"},
            project : HuProjects \cup {Gone}, drops : HuProjects \cup {Gone},
            asset : HuAssets \cup {Gone}, tree : Tree]
Saving == [at : {"idle", "post", "answer"}, tree : Tree, changed : SUBSET HuProjects,
           deleted : SUBSET HuProjects, touched : [HuProjects -> SUBSET HuAssets]]

PageTypeOK ==
    /\ server \in Tree /\ edited \in Tree /\ base \in Tree
    /\ touchedAt \in [HuProjects -> Times]
    /\ dirty \in BOOLEAN /\ folded \in BOOLEAN /\ straight \in BOOLEAN
    /\ known \in Fingerprint
    /\ poll \in Poll /\ handler \in Handler /\ save \in Saving
    /\ used \subseteq HuProjects
    /\ counts \in [writes : Writes, starts : 0..MaxStarts, peers : 0..MaxPeerSaves]
    /\ mine \in [HuProjects -> Writes \cup {Gone, AsIs}]

-------------------------------------------------------------------------------
Listed(tree) == {p \in HuProjects : tree[p] # Gone}

\* getHuSyncStamp: the ids of the projects and the latest updated_at of a row.
ServerPrint == [ids |-> Listed(server), latest |-> Max({0} \cup {touchedAt[p] : p \in Listed(server)})]

NoPoll == [at |-> "idle", print |-> Gone, tree |-> Nobody, seen |-> FALSE]
NoHandler == [does |-> "idle", project |-> Gone, drops |-> Gone, asset |-> Gone,
              tree |-> Nobody]
NoSave == [at |-> "idle", tree |-> Nobody, changed |-> {}, deleted |-> {},
           touched |-> [p \in HuProjects |-> {}]]
Untouched == [p \in HuProjects |-> AsIs]

\* A tab that has a fingerprint from before, or has none.
PageInit ==
    /\ \E assets \in SUBSET HuAssets :
          server = [p \in HuProjects |->
                       IF p \in AtFirst THEN [fields |-> 0, assets |-> assets] ELSE Gone]
    /\ touchedAt = [p \in HuProjects |-> 0]
    /\ edited = server /\ base = server
    /\ dirty = FALSE
    /\ known \in {Gone, ServerPrint}
    /\ poll = NoPoll /\ handler = NoHandler /\ save = NoSave
    /\ used = AtFirst
    /\ counts = [writes |-> 0, starts |-> 0, peers |-> 0]
    /\ mine = Untouched
    /\ folded = FALSE
    /\ straight = TRUE

-------------------------------------------------------------------------------
(* The diff *)

AssetsOf(tree, p) == IF tree[p] = Gone THEN {} ELSE tree[p].assets

\* collectBudgetHuSaveChanges.
Deleted(old, new) == Listed(old) \ Listed(new)
Changed(old, new) == {p \in HuProjects : old[p] # new[p]}
TouchedAssets(old, new) ==
    [p \in HuProjects |-> IF new[p] = Gone THEN {}
                          ELSE SymDiff(AssetsOf(old, p), AssetsOf(new, p))]

\* Mutant: what others created is left out.
FoldInKnown(local, remote) ==
    [p \in HuProjects |->
        IF local[p] = Gone \/ remote[p] = Gone THEN local[p]
        ELSE IF local[p].assets = {} THEN [local[p] EXCEPT !.assets = remote[p].assets]
        ELSE local[p]]

\* mergeRemotePeersPreservingLocalEdits: rows of others are added, one's own stay.
\* A row that was deleted here is taken for one of others, and so are the assets of
\* a project that has none left.
FoldIn(local, remote) ==
    [p \in HuProjects |->
        IF local[p] = Gone THEN remote[p]
        ELSE IF remote[p] # Gone /\ local[p].assets = {}
        THEN [local[p] EXCEPT !.assets = remote[p].assets]
        ELSE local[p]]

-------------------------------------------------------------------------------
(* The user *)

Edited(tree) == edited' = tree /\ dirty' = TRUE

CanWrite == counts.writes < MaxWrites
Stamp == counts.writes + 1
Wrote == counts' = [counts EXCEPT !.writes = @ + 1]
Intends(p, what) == mine' = [mine EXCEPT ![p] = what]

pageOnly == << server, touchedAt, base, known, poll, used, folded >>

\* handleDataChange, and the others that change a project at once.
EditProject(p) ==
    /\ CanWrite
    /\ edited[p] # Gone
    /\ Edited([edited EXCEPT ![p].fields = Stamp])
    /\ Intends(p, Stamp)
    /\ Wrote
    /\ UNCHANGED << pageOnly, handler, save, straight >>

\* handleConfirmDeleteProject: a project that has assets is not deleted.
DeleteProject(p) ==
    /\ edited[p] # Gone /\ edited[p].assets = {}
    /\ Edited([edited EXCEPT ![p] = Gone])
    /\ Intends(p, Gone)
    /\ UNCHANGED << pageOnly, handler, save, counts, straight >>

\* handleCancel; the button is disabled during a save.
Cancel ==
    /\ dirty /\ save.at = "idle"
    /\ edited' = base
    /\ dirty' = FALSE
    /\ mine' = Untouched
    /\ folded' = FALSE
    /\ UNCHANGED << server, touchedAt, base, known, poll, handler, save, used,
                    counts, straight >>

Starts == /\ counts.starts < MaxStarts
          /\ counts' = [counts EXCEPT !.starts = @ + 1]

\* The handlers that await something before they change the copy they have read.
Await(h) ==
    /\ handler.does = "idle"
    /\ Starts
    /\ handler' = [h EXCEPT !.tree = edited]
    /\ UNCHANGED << server, touchedAt, edited, base, dirty, known, poll, save,
                    mine, folded, straight >>

\* handleCategorySelectedForNewProject asks for a code.
AskNewProject(p) ==
    /\ p \notin used
    /\ used' = used \cup {p}
    /\ Await([NoHandler EXCEPT !.does = "newProject", !.project = p])

\* handleSaveAsset does, for an asset that is new.
AskNewAsset(p, a) ==
    /\ edited[p] # Gone /\ a \notin edited[p].assets
    /\ Await([NoHandler EXCEPT !.does = "newAsset", !.project = p, !.asset = a])
    /\ UNCHANGED used

\* handleSaveProject logs the change of a project, which may have lost an asset.
AskSaveProject(p, a) ==
    /\ edited[p] # Gone /\ a \in edited[p].assets \cup {Gone}
    /\ Await([NoHandler EXCEPT !.does = "saveProject", !.project = p, !.asset = a])
    /\ UNCHANGED used

\* handleMassUpdateProjects deletes some and asks for the codes of the new ones.
AskMassUpdate(p, d) ==
    /\ p \notin used /\ edited[d] # Gone
    /\ used' = used \cup {p}
    /\ Await([NoHandler EXCEPT !.does = "massUpdate", !.project = p, !.drops = d])

\* What a handler makes of its copy once it is answered.
Made(h) ==
    CASE h.does = "newAsset" -> [h.tree EXCEPT ![h.project].assets = @ \cup {h.asset}]
      [] h.does = "saveProject" ->
            [h.tree EXCEPT ![h.project] = [fields |-> Stamp, assets |-> @.assets \ {h.asset}]]
      [] OTHER ->
            [p \in HuProjects |-> IF p = h.project THEN [fields |-> Stamp, assets |-> {}]
                                  ELSE IF p = h.drops THEN Gone ELSE h.tree[p]]

\* The answer is there, and the copy replaces whatever has become of edited.
Finish ==
    LET h == handler IN
    /\ h.does # "idle"
    /\ Edited(Made(h))
    /\ IF h.does = "newAsset" THEN UNCHANGED << counts, mine >>
       ELSE /\ CanWrite /\ Wrote
            /\ mine' = [p \in HuProjects |-> IF p = h.project THEN Stamp
                                             ELSE IF p = h.drops THEN Gone ELSE mine[p]]
    /\ handler' = NoHandler
    /\ straight' = (straight /\ edited = h.tree)
    /\ UNCHANGED << pageOnly, save >>

\* No code, or no log: a toast, or nothing at all.
FinishFails ==
    /\ handler.does # "idle"
    /\ handler' = NoHandler
    /\ UNCHANGED << pageOnly, edited, dirty, save, counts, mine, straight >>

-------------------------------------------------------------------------------
(* Saving *)

\* handleSave: the difference between the two copies, if there is one.
SaveChanges ==
    /\ dirty /\ save.at = "idle"
    /\ IF Changed(base, edited) = {} THEN
           /\ dirty' = FALSE
           /\ mine' = Untouched /\ folded' = FALSE
           /\ UNCHANGED << save, counts >>
       ELSE
           /\ Starts
           /\ save' = [at |-> "post", tree |-> edited, changed |-> Changed(base, edited),
                         deleted |-> Deleted(base, edited),
                         touched |-> TouchedAssets(base, edited)]
           /\ UNCHANGED << dirty, mine, folded >>
    /\ UNCHANGED << server, touchedAt, edited, base, known, poll, handler, used, straight >>

Now == 1 + Max({touchedAt[p] : p \in HuProjects})

\* The row a save leaves: of the assets only those touched are written.
Stored(p) ==
    LET s == save IN
    IF p \in s.deleted THEN Gone
    ELSE [fields |-> s.tree[p].fields,
          assets |-> (AssetsOf(server, p) \ s.touched[p])
                        \cup (s.tree[p].assets \cap s.touched[p])]

\* savePeriod in the backend.
PostSave ==
    /\ save.at = "post"
    /\ server' = [p \in HuProjects |-> IF p \in save.changed THEN Stored(p) ELSE server[p]]
    /\ touchedAt' = [p \in HuProjects |-> IF p \in save.changed \ save.deleted THEN Now
                                          ELSE touchedAt[p]]
    /\ save' = [save EXCEPT !.at = "answer"]
    /\ UNCHANGED << edited, base, dirty, known, poll, handler, used, counts, mine,
                    folded, straight >>

\* The save is answered: both copies are what was sent, and the page is clean.
SaveAnswered ==
    /\ save.at = "answer"
    /\ edited' = save.tree
    /\ base' = save.tree
    /\ dirty' = FALSE
    /\ save' = NoSave
    /\ mine' = Untouched /\ folded' = FALSE
    /\ straight' = (straight /\ edited = save.tree)
    /\ UNCHANGED << server, touchedAt, known, poll, handler, used, counts >>

\* "Failed to save changes.", be it that only the answer is lost.
SaveFails ==
    /\ save.at # "idle"
    /\ save' = NoSave
    /\ UNCHANGED << pageOnly, edited, dirty, handler, counts, mine, straight >>

-------------------------------------------------------------------------------
(* Polling *)

\* Mutant: a dirty page notes the fingerprint and looks at nothing.
TickUnlessDirty ==
    /\ poll.at = "idle"
    /\ known' = ServerPrint
    /\ IF ~dirty /\ (known \notin {Gone, ServerPrint} \/ Listed(edited) # Listed(server))
       THEN poll' = [NoPoll EXCEPT !.at = "fetch", !.print = ServerPrint]
       ELSE UNCHANGED poll
    /\ straight' = (straight /\ (known # Gone \/ base = server))
    /\ UNCHANGED << server, touchedAt, edited, base, dirty, handler, save, used,
                    counts, mine, folded >>

\* tick: a fingerprint that differs from the last, or on a clean page other ids,
\* call for the page again.  A dirty page notes the fingerprint at once, a clean
\* one when it has it; one that noted none takes what it finds for what it has.
Tick ==
    LET differs == known \notin {Gone, ServerPrint}
        fetches == differs \/ (~dirty /\ Listed(edited) # Listed(server))
    IN  /\ poll.at = "idle"
        /\ known' = IF dirty \/ ~fetches THEN ServerPrint ELSE known
        /\ poll' = IF fetches
                   THEN [NoPoll EXCEPT !.at = "fetch", !.print = ServerPrint, !.seen = dirty]
                   ELSE NoPoll
        /\ straight' = (straight /\ (known # Gone \/ fetches \/ base = server))
        /\ UNCHANGED << server, touchedAt, edited, base, dirty, handler, save, used,
                        counts, mine, folded >>

\* softRefetchPage.
Fetch ==
    /\ poll.at = "fetch"
    /\ poll' = [poll EXCEPT !.at = "apply", !.tree = server]
    /\ UNCHANGED << server, touchedAt, edited, base, dirty, known, handler, save, used,
                    counts, mine, folded, straight >>

Noted == known' = IF poll.seen THEN known ELSE poll.print

\* It fails without a word, or a cache of the backend answers with what the page has.
FetchMisses ==
    /\ poll.at = "fetch"
    /\ poll' = NoPoll
    /\ Noted
    /\ straight' = FALSE
    /\ UNCHANGED << server, touchedAt, edited, base, dirty, handler, save, used,
                    counts, mine, folded >>

Quiet == handler.does = "idle" /\ save.at = "idle"

\* applyPageBundle: a clean page shows what the server has, a dirty one folds it in.
Apply ==
    /\ poll.at = "apply"
    /\ base' = poll.tree
    /\ edited' = IF dirty THEN FoldIn(edited, poll.tree) ELSE poll.tree
    /\ mine' = [p \in HuProjects |->
                   IF mine[p] = Gone /\ poll.tree[p] # Gone THEN AsIs ELSE mine[p]]
    /\ folded' = dirty
    /\ Noted
    /\ poll' = NoPoll
    /\ straight' = IF save.at # "idle" THEN FALSE ELSE straight \/ (~dirty /\ Quiet)
    /\ UNCHANGED << server, touchedAt, dirty, handler, save, used, counts >>

-------------------------------------------------------------------------------
(* Other users *)

PeerSaves ==
    /\ counts.peers < MaxPeerSaves
    /\ UNCHANGED << edited, base, dirty, known, poll, handler, save, mine, folded, straight >>

PeerWrites(p) ==
    /\ PeerSaves /\ CanWrite
    /\ p \in Listed(server) \/ p \notin used
    /\ used' = used \cup {p}
    /\ \E assets \in SUBSET HuAssets : server' = [server EXCEPT ![p] = [fields |-> Stamp, assets |-> assets]]
    /\ touchedAt' = [touchedAt EXCEPT ![p] = Now]
    /\ counts' = [counts EXCEPT !.writes = @ + 1, !.peers = @ + 1]

PeerDeletes(p) ==
    /\ PeerSaves
    /\ server[p] # Gone
    /\ server' = [server EXCEPT ![p] = Gone]
    /\ counts' = [counts EXCEPT !.peers = @ + 1]
    /\ UNCHANGED << touchedAt, used >>

-------------------------------------------------------------------------------
Asks(p) == \/ AskNewProject(p)
           \/ \E a \in HuAssets : AskNewAsset(p, a)
           \/ \E a \in HuAssets \cup {Gone} : AskSaveProject(p, a)
           \/ \E d \in HuProjects : AskMassUpdate(p, d)

UserStep == \/ \E p \in HuProjects : EditProject(p) \/ DeleteProject(p) \/ Asks(p)
            \/ Cancel \/ Finish \/ FinishFails

SaveStep == SaveChanges \/ PostSave \/ SaveAnswered \/ SaveFails

PollStep == Tick \/ Fetch \/ FetchMisses \/ Apply

PeerStep == \E p \in HuProjects : PeerWrites(p) \/ PeerDeletes(p)

PageNext == UserStep \/ SaveStep \/ PollStep \/ PeerStep

PageSpec == PageInit /\ [][PageNext]_pageVars

-------------------------------------------------------------------------------
(* Properties *)

Own == {p \in HuProjects : mine[p] # AsIs}

\* Unless something came in between of a handler or save and its answer, the page
\* has every change that the user made and neither saved nor cancelled, its next save
\* deletes nothing that others created, and, if no refresh came since the page is
\* dirty, sends nothing that he did not change.
EditsStay ==
    straight =>
        /\ \A p \in Own : IF mine[p] = Gone THEN edited[p] = Gone
                          ELSE edited[p] # Gone /\ edited[p].fields = mine[p]
        /\ \A p \in Deleted(base, edited) : mine[p] = Gone
        /\ ~folded => \A p \in Changed(base, edited) : p \in Own \/ edited[p].fields = base[p].fields

\* A clean page in which the poll finds nothing to fetch shows the projects as they
\* are, assets apart, unless a fetch missed or came in between of a save.
NotedIsShown ==
    straight /\ ~dirty /\ Quiet /\ poll.at = "idle" /\ known = ServerPrint
        /\ Listed(edited) = Listed(server)
    => \A p \in Listed(server) : edited[p].fields = server[p].fields

-------------------------------------------------------------------------------
(* What the page means to guarantee, and a refresh during a handler breaks *)

\* "Only rows that really changed": a save that starts deletes what the user has
\* deleted, and nothing else.
SendsOnlyRealChanges ==
    [][save.at = "idle" /\ save'.at = "post" => \A p \in save'.deleted : mine[p] = Gone]_pageVars

===============================================================================
