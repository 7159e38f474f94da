--------------------------- MODULE ProjectListPages ---------------------------
(***************************************************************************)
(* The pages of the project list.  The backend answers the n-th page of    *)
(* one budget period; the page of several periods is merged in the browser *)
(* from chunks of each (fetchMultiPeriodMergedPage), anew for every page,  *)
(* while others insert and delete assets.  The user goes through them from *)
(* the first on.                                                           *)
(*                                                                         *)
(* Some filters scan the ids of all assets first and then fetch the rows   *)
(* of a page.  The BDD filters keep what they scanned for five minutes,    *)
(* whatever skipCache says (getBddFilteredSortedRows): their pages are cut *)
(* from a scan that may be older than the walk.                            *)
(*                                                                         *)
(* An asset is numbered by its code, in the order in which the browser     *)
(* compares codes; the database sorts them as text.  Left out: assets      *)
(* without a code, the descending order, what the filters select, and the  *)
(* caches of whole pages, which these walks skip (skipCache).              *)
(***************************************************************************)
EXTENDS Naturals, FiniteSets, SequencesExt

CONSTANTS
    MaxCode,        \* assets are 1..MaxCode
    TextRank,       \* where the database sorts an asset
    MaxPeriod,      \* periods are 1..MaxPeriod, in the order of their names
    ChunkSize,      \* PERIOD_SLICE_PAGE_SIZE
    PageSize,       \* rows of a page
    MaxPages,       \* bound on the pages of a walk
    MaxEvents       \* bound on the assets inserted and deleted during it

Codes == 1..MaxCode
Periods == 1..MaxPeriod

ASSUME ProjectListAssumption ==
    /\ MaxCode \in Nat /\ MaxPeriod \in Nat \ {0} /\ MaxPages \in Nat /\ MaxEvents \in Nat
    /\ ChunkSize \in Nat \ {0} /\ PageSize \in Nat \ {0}
    /\ TextRank \in [Codes -> Nat]
    /\ \A a, b \in Codes : TextRank[a] = TextRank[b] => a = b

VARIABLES
    listed,     \* the assets of each period
    chosen,     \* the periods shown
    scanned,    \* whether a filter needs the ids first, and the rows after
    keeps,      \* and whether the backend keeps the ids of a scan
    scans,       \* of each period none, or the one scan that is kept
    stream,     \* PeriodAssetStreamState of each period
    reader,     \* the page being fetched
    walked,     \* the pages shown so far, from the first on
    atFirst,    \* the assets the pages were to be cut from at first
    events,     \* what others did since
    settled     \* whether what the pages are cut from is still the same, and still there

listVars == << listed, chosen, scanned, keeps, scans, stream, reader, walked, atFirst, events,
               settled >>

\* counted: total > 0, or not asked yet.  wanted: the ids of a chunk whose rows
\* are still to be fetched.
Stream == [counted : {"no", "empty", "open"}, buffer : Seq(Codes), page : Nat \ {0},
           exhausted : BOOLEAN, scanning : BOOLEAN, wanted : SUBSET Codes]
Reader == [at : {"idle", "totals", "merge", "single"}, total : Nat, skipped : Nat,
           seen : SUBSET Codes, rows : Seq(Codes)]

ListTypeOK ==
    /\ listed \in [Periods -> SUBSET Codes]
    /\ chosen \subseteq Periods
    /\ scanned \in BOOLEAN /\ keeps \in BOOLEAN /\ settled \in BOOLEAN
    /\ scans \in [Periods -> SUBSET SUBSET Codes]
    /\ stream \in [Periods -> Stream]
    /\ reader \in Reader
    /\ walked \in Seq(Seq(Codes))
    /\ atFirst \subseteq Codes
    /\ events \in Seq({"insert", "delete"})

NewStream == [counted |-> "no", buffer |-> << >>, page |-> 1, exhausted |-> FALSE,
              scanning |-> FALSE, wanted |-> {}]
NoReader == [at |-> "idle", total |-> 0, skipped |-> 0, seen |-> {}, rows |-> << >>]

ListInit ==
    /\ listed \in [Periods -> SUBSET Codes]
    /\ \A p, q \in Periods : p # q => listed[p] \cap listed[q] = {}
    /\ chosen \in {{1}, Periods}
    /\ scanned \in BOOLEAN
    /\ keeps \in BOOLEAN /\ (keeps => scanned)
    /\ scans = [p \in Periods |-> IF keeps /\ p \in chosen THEN {listed[p]} ELSE {}]
    /\ stream = [p \in Periods |-> NewStream]
    /\ reader = NoReader
    /\ walked = << >>
    /\ settled = TRUE
    /\ atFirst = UNION {listed[p] : p \in chosen}
    /\ events = << >>

-------------------------------------------------------------------------------
\* What the pages of a period are cut from: the scan that is kept, or the table.
Base == [p \in Periods |-> IF scans[p] = {} THEN listed[p] ELSE UNION scans[p]]
Scanned(p) == scans' = IF keeps THEN [scans EXCEPT ![p] = {Base[p]}] ELSE scans

Shown == UNION {Base[p] : p \in chosen}
Walked == FlattenSeq(walked)
PageNo == Len(walked) + 1
\* Mutant: a last page that is not full is not counted.
PagesOfFull(total) == IF total = 0 THEN 1 ELSE total \div PageSize

PagesOf(total) == IF total = 0 THEN 1 ELSE (total + PageSize - 1) \div PageSize

InOrder(S, rank) ==
    [i \in 1..Cardinality(S) |->
        CHOOSE a \in S : Cardinality({b \in S : rank[b] < rank[a]}) = i - 1]

\* The backend sorts what it scanned as the browser does, and leaves the rest to
\* the database.
Ranks == IF scanned THEN [a \in Codes |-> a] ELSE TextRank

\* Rows (n - 1) * size + 1 to n * size of a period.
Chunk(p, n, size) ==
    LET rows == InOrder(Base[p], Ranks)
        last == IF n * size < Len(rows) THEN n * size ELSE Len(rows)
    IN  SubSeq(rows, (n - 1) * size + 1, last)

Single == Cardinality(chosen) = 1
LastIsShort == walked # << >> /\ Len(walked[Len(walked)]) < PageSize

\* The next page is asked for as long as the total of the last one promises it.
AskPage ==
    /\ reader.at = "idle"
    /\ walked = << >> \/ PageNo <= PagesOf(reader.total)
    /\ PageNo <= MaxPages
    /\ reader' = [NoReader EXCEPT !.at = IF Single THEN "single" ELSE "totals"]
    /\ stream' = [p \in Periods |-> NewStream]
    /\ UNCHANGED << listed, chosen, scanned, keeps, scans, walked, atFirst, events, settled >>

ShowPage(rows, total) ==
    /\ walked' = Append(walked, rows)
    /\ reader' = [NoReader EXCEPT !.total = total]

\* fetchPeriodTotal of all periods at once; a period without rows has no stream.
CountPeriod(p) ==
    /\ reader.at = "totals" /\ stream[p].counted = "no"
    /\ Scanned(p)
    /\ stream' = [stream EXCEPT ![p].counted = IF Base[p] = {} THEN "empty" ELSE "open"]
    /\ reader' = [reader EXCEPT
          !.total = @ + Cardinality(Base[p]),
          !.at = IF \A q \in chosen \ {p} : stream[q].counted # "no" THEN "merge" ELSE @]
    /\ UNCHANGED << listed, chosen, scanned, keeps, walked, atFirst, events, settled >>

NeedsHead(p) ==
    /\ reader.at = "merge" /\ stream[p].counted = "open"
    /\ Len(reader.rows) < PageSize
    /\ stream[p].buffer = << >> /\ ~stream[p].exhausted

\* refillPeriodStream, once it has its chunk.
Refilled(p, rows) ==
    LET s == stream[p] IN
    stream' = [stream EXCEPT ![p] =
        IF rows = << >>
        THEN [s EXCEPT !.exhausted = TRUE, !.scanning = FALSE, !.wanted = {}]
        ELSE [s EXCEPT !.buffer = rows, !.page = s.page + 1, !.scanning = FALSE,
                       !.wanted = {}, !.exhausted = Len(rows) < ChunkSize]]

RefillStream(p) ==
    /\ NeedsHead(p) /\ ~scanned
    /\ Refilled(p, Chunk(p, stream[p].page, ChunkSize))
    /\ UNCHANGED << listed, chosen, scanned, keeps, scans, reader, walked, atFirst, events,
                    settled >>

ScanIds(p, size, n) ==
    /\ ~stream[p].scanning
    /\ Scanned(p)
    /\ stream' = [stream EXCEPT ![p].scanning = TRUE, ![p].wanted = ToSet(Chunk(p, n, size))]
    /\ UNCHANGED << listed, chosen, scanned, keeps, reader, walked, atFirst, events, settled >>

\* The rows of the ids that are still there, in the order of the ids, which is that
\* of the codes.
RowsById(p) == InOrder(stream[p].wanted \cap listed[p], Ranks)

RefillScan(p) == NeedsHead(p) /\ scanned /\ ScanIds(p, ChunkSize, stream[p].page)

RefillFetch(p) ==
    /\ NeedsHead(p) /\ stream[p].scanning
    /\ Refilled(p, RowsById(p))
    /\ UNCHANGED << listed, chosen, scanned, keeps, scans, reader, walked, atFirst, events,
                    settled >>

Heads == {p \in chosen : stream[p].buffer # << >>}
Leads(p) == \A q \in Heads : Head(stream[p].buffer) <= Head(stream[q].buffer)
Ready == \A p \in chosen : ~NeedsHead(p)

\* One round of the loop of fetchMultiPeriodMergedPage.
TakeHead ==
    /\ reader.at = "merge" /\ Len(reader.rows) < PageSize /\ Ready
    /\ \E p \in Heads :
          LET a == Head(stream[p].buffer) IN
          /\ Leads(p)
          /\ stream' = [stream EXCEPT ![p].buffer = Tail(@)]
          /\ reader' =
                IF a \in reader.seen THEN reader
                ELSE IF reader.skipped < (PageNo - 1) * PageSize
                THEN [reader EXCEPT !.seen = @ \cup {a}, !.skipped = @ + 1]
                ELSE [reader EXCEPT !.seen = @ \cup {a}, !.rows = Append(@, a)]
    /\ UNCHANGED << listed, chosen, scanned, keeps, scans, walked, atFirst, events, settled >>

\* The page is full, or no stream has a row left.
EndMerge ==
    /\ reader.at = "merge"
    /\ Len(reader.rows) = PageSize \/ (Ready /\ Heads = {})
    /\ ShowPage(reader.rows, reader.total)
    /\ UNCHANGED << listed, chosen, scanned, keeps, scans, stream, atFirst, events, settled >>

\* Mutant: the range is taken to leave out its last row.
SinglePageOpen(p) ==
    /\ reader.at = "single" /\ ~scanned
    /\ LET rows == Chunk(p, PageNo, PageSize) IN
       ShowPage(IF Len(rows) < PageSize THEN rows ELSE Front(rows), Cardinality(Base[p]))
    /\ UNCHANGED << listed, chosen, scanned, keeps, scans, stream, atFirst, events, settled >>

\* A single period is paged by the backend alone.
SinglePage(p) ==
    /\ reader.at = "single" /\ ~scanned
    /\ ShowPage(Chunk(p, PageNo, PageSize), Cardinality(Base[p]))
    /\ UNCHANGED << listed, chosen, scanned, keeps, scans, stream, atFirst, events, settled >>

SingleScan(p) ==
    /\ reader.at = "single" /\ scanned /\ ~stream[p].scanning
    /\ Scanned(p)
    /\ reader' = [reader EXCEPT !.total = Cardinality(Base[p])]
    /\ stream' = [stream EXCEPT ![p].scanning = TRUE,
                                ![p].wanted = ToSet(Chunk(p, PageNo, PageSize))]
    /\ UNCHANGED << listed, chosen, scanned, keeps, walked, atFirst, events, settled >>

SingleFetch(p) ==
    /\ reader.at = "single" /\ stream[p].scanning
    /\ ShowPage(RowsById(p), reader.total)
    /\ UNCHANGED << listed, chosen, scanned, keeps, scans, stream, atFirst, events, settled >>

\* Other users, before the walk and during it.
Happens(e) ==
    /\ Len(events) < MaxEvents
    /\ events' = Append(events, e)
    /\ UNCHANGED << chosen, scanned, keeps, scans, stream, reader, walked, atFirst >>

InsertAsset(a, p) ==
    /\ a \notin UNION {listed[q] : q \in Periods}
    /\ listed' = [listed EXCEPT ![p] = @ \cup {a}]
    /\ settled' = (settled /\ scans[p] # {})
    /\ Happens("insert")

DeleteAsset(a, p) ==
    /\ a \in listed[p]
    /\ listed' = [listed EXCEPT ![p] = @ \ {a}]
    /\ settled' = FALSE
    /\ Happens("delete")

\* CACHE_TTL_MS.TABLE is over, or invalidateBddScanForPeriod.
DropScan(p) ==
    /\ scans[p] # {}
    /\ scans' = [scans EXCEPT ![p] = {}]
    /\ settled' = (settled /\ listed[p] = Base[p])
    /\ UNCHANGED << listed, chosen, scanned, keeps, stream, reader, walked, atFirst, events >>

MergeStep(p) == CountPeriod(p) \/ RefillStream(p) \/ RefillScan(p) \/ RefillFetch(p)
SingleStep(p) == SinglePage(p) \/ SingleScan(p) \/ SingleFetch(p)

ListNext ==
    \/ AskPage \/ TakeHead \/ EndMerge
    \/ \E p \in chosen : MergeStep(p) \/ SingleStep(p)
    \/ \E a \in Codes, p \in chosen : InsertAsset(a, p) \/ DeleteAsset(a, p)
    \/ \E p \in chosen : DropScan(p)

ListSpec == ListInit /\ [][ListNext]_listVars

-------------------------------------------------------------------------------
\* While what they are cut from stays the same and none of it is deleted, the pages are
\* consecutive slices of one list: no asset is on two of them, and together, as many as
\* the total promises, they hold all of it.  Where the backend sorts as the browser
\* does, the list is the sorted one.  (A scan that is kept stays the same while others
\* insert, and what they insert is on no page.)  A page of several periods never shows
\* an asset twice, whatever others do meanwhile.
PagesAreSlices ==
    /\ \A n \in DOMAIN walked : IsInjective(walked[n])
    /\ settled =>
        /\ IsInjective(Walked)
        /\ reader.at = "idle" /\ Len(walked) = PagesOf(reader.total) => ToSet(Walked) = Shown
        /\ scanned => Walked = SubSeq(InOrder(Shown, Ranks), 1, Len(Walked))

\* Where the two sort alike, or only one does, inserts and new scans move assets to later
\* pages and never out of the list: who walks to a page that is not full has seen every
\* asset that the pages were to be cut from at first, if none was deleted since then.
InsertsHideNothing ==
    LastIsShort /\ (scanned \/ Single) /\ "delete" \notin ToSet(events)
        => atFirst \subseteq ToSet(Walked)
===============================================================================
