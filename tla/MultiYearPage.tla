----------------------------- MODULE MultiYearPage -----------------------------
(***************************************************************************)
(* The page of the multi-year budget (BudgetMultiYearPage) and the calls   *)
(* of BudgetMultiYearService behind it.  Below each multi-year are its     *)
(* periods, with a plan for every category, which are loaded when its row  *)
(* is expanded.  A save sends the multi-years whose plan differs from the  *)
(* page's second copy, then every period of which a plan does, with all    *)
(* the plans the page has of it.                                           *)
(*                                                                         *)
(* Abstracted: a plan is named by when it was typed.  Left out: what is    *)
(* not a plan, new multi-years, other users, and the caches of the         *)
(* backend, which a save of the same user clears.  A row that loads, and a *)
(* dialog, keep the mouse from the rest of the page, so one load and one   *)
(* new period are under way; the keyboard still reaches the other rows.  A *)
(* period shown twice counts once, and a load reads all tables at once.    *)
(***************************************************************************)
EXTENDS Naturals

CONSTANTS
    MultiYears,
    PlanPeriods,    \* names of periods
    MultiYearOf,    \* the multi-year of each
    NewPeriods,     \* those that may not be there at first
    Categories,     \* active budget categories
    MaxPlans,       \* bound on the plans typed and periods asked for
    MaxPlanSaves,   \* bound on the saves
    Missing         \* no period; nothing fetched yet

Amounts == 0..MaxPlans + 1
Planned == 1        \* all plans at first

\* What is known of a period: the plans of some categories.
Plans == UNION {[S -> Amounts] : S \in SUBSET Categories}
Blank == [c \in {} |-> 0]
Lists == UNION {[S -> Plans] : S \in SUBSET PlanPeriods}

ASSUME MultiYearAssumption ==
    /\ MultiYearOf \in [PlanPeriods -> MultiYears] /\ NewPeriods \subseteq PlanPeriods
    /\ MaxPlans \in Nat /\ MaxPlanSaves \in Nat
    /\ MultiYears \cap PlanPeriods = {}
    /\ Missing \notin Plans \cup Lists

VARIABLES
    storedPlans,    \* budget_period_category_budgets
    storedYears,    \* budget_multi_years
    shell,          \* the app's allPeriods, and the multi-years of its bootstrap
    due,            \* which of both the page has asked for again
    sheet,          \* editedPeriods, serverPeriodsRef, isDirty, expandedRows
    years,          \* editedData, serverMultiYearsRef, and the page query's answer
    fetched,        \* the request cache: what a row was answered
    load,           \* the load of a row
    planSave,       \* the save: its copies, and the writes it awaits
    posts,          \* writes under way, those of a save that failed included
    creating,       \* the new period
    wish,           \* the plans typed and neither saved nor cancelled
    calm,           \* whether the page had its own way so far
    tally

planVars == << storedPlans, storedYears, shell, due, sheet, years, fetched, load, planSave,
               posts, creating, wish, calm, tally >>

YearPlans == [MultiYears -> Amounts]
Post == [of : MultiYears, plan : Amounts] \cup [of : PlanPeriods, plan : Plans]
Load == [at : {"fetch", "show"}, year : MultiYears, found : Lists, wasDirty : BOOLEAN]

NoLoad == [at |-> "none"]
NoPlanSave == [at |-> "idle", waits |-> {}]
NoPeriod == [at |-> "none"]

PlansTypeOK ==
    /\ storedPlans \in [PlanPeriods -> Plans \cup {Missing}]
    /\ storedYears \in YearPlans
    /\ shell \in [periods : SUBSET PlanPeriods, years : YearPlans]
    /\ due \subseteq {"shell", "page"}
    /\ sheet \in [edited : Lists, base : Lists, dirty : BOOLEAN, open : SUBSET MultiYears]
    /\ years \in [edited : YearPlans, base : YearPlans, page : YearPlans]
    /\ fetched \in [MultiYears -> Lists \cup {Missing}]
    /\ load \in Load \cup {NoLoad}
    /\ planSave = NoPlanSave \/ planSave \in [at : {"years", "periods"}, edited : Lists,
                                              years : YearPlans, waits : SUBSET Post]
    /\ posts \subseteq Post
    /\ creating \in [at : {"insert", "rows", "answer"}, period : PlanPeriods] \cup {NoPeriod}
    /\ wish \in [PlanPeriods -> Plans]
    /\ calm \in BOOLEAN
    /\ tally \in [plans : 0..MaxPlans, saves : 0..MaxPlanSaves]

Existing == {q \in PlanPeriods : storedPlans[q] # Missing}
Opened(periods) == [edited |-> [q \in periods |-> Blank], base |-> [q \in periods |-> Blank],
                    dirty |-> FALSE, open |-> {}]
NoWish == [q \in PlanPeriods |-> Blank]

PlansInit ==
    /\ \E new \in SUBSET NewPeriods :
          storedPlans = [q \in PlanPeriods |-> IF q \in new THEN Missing
                                               ELSE [c \in Categories |-> Planned]]
    /\ storedYears = [y \in MultiYears |-> Planned]
    /\ shell = [periods |-> Existing, years |-> storedYears]
    /\ due = {}
    /\ sheet = Opened(Existing)
    /\ years = [edited |-> storedYears, base |-> storedYears, page |-> storedYears]
    /\ fetched = [y \in MultiYears |-> Missing]
    /\ load = NoLoad /\ planSave = NoPlanSave /\ posts = {} /\ creating = NoPeriod
    /\ wish = NoWish /\ calm = TRUE
    /\ tally = [plans |-> 0, saves |-> 0]

-------------------------------------------------------------------------------
(* The lists of the page *)

PeriodsOf(y) == {q \in PlanPeriods : MultiYearOf[q] = y}
PlanOf(plans, c) == IF c \in DOMAIN plans THEN plans[c] ELSE 0
Over(new, old) == [x \in DOMAIN new \cup DOMAIN old |-> IF x \in DOMAIN new THEN new[x] ELSE old[x]]
Typed(plans, c, n) == Over([d \in {c} |-> n], plans)

\* periodHasCategoryBudgets.
HasPlans(plans) == DOMAIN plans # {}

\* mergePeriodSummariesPreservingBudgets, which an effect does whenever the page is
\* clean anew or the app's list is: the app's periods, with the plans that were loaded.
Summaries(periods, list) ==
    [q \in periods |-> IF q \in DOMAIN list THEN list[q] ELSE Blank]

\* isPeriodBudgetPlanDirty; and a mutant that wants all of them to differ.
PlansDifferAll(old, new) == \A c \in Categories : PlanOf(old, c) # PlanOf(new, c)
PlansDiffer(old, new) == \E c \in Categories : PlanOf(old, c) # PlanOf(new, c)

-------------------------------------------------------------------------------
(* The user *)

Free == creating = NoPeriod
CanType == tally.plans < MaxPlans /\ tally' = [tally EXCEPT !.plans = @ + 1]
Amount == tally.plans + 2

serverOnly == << storedPlans, storedYears, posts >>
asked == << shell, due, fetched >>

\* handlePeriodBudgetChange.  A period that is not in base will not be sent.
TypePlan(q, c) ==
    /\ Free /\ CanType
    /\ q \in DOMAIN sheet.edited
    /\ MultiYearOf[q] \in sheet.open /\ (load # NoLoad => load.year # MultiYearOf[q])
    /\ sheet' = [sheet EXCEPT !.edited[q] = Typed(@, c, Amount), !.dirty = TRUE]
    /\ wish' = [wish EXCEPT ![q] = Typed(@, c, Amount)]
    /\ calm' = (calm /\ q \in DOMAIN sheet.base)
    /\ UNCHANGED << serverOnly, asked, years, load, planSave, creating >>

\* handleBudgetPlanChange, handleModalSave.
TypeYear(y) ==
    /\ Free /\ CanType
    /\ years' = [years EXCEPT !.edited[y] = Amount]
    /\ sheet' = [sheet EXCEPT !.dirty = TRUE]
    /\ UNCHANGED << serverOnly, asked, load, planSave, creating, wish, calm >>

\* What a load found takes the place of what the page has of it, and of the base copy
\* too if the page was clean when the load began.  The page has its own way unless
\* that buries what was typed, or what was found is older than the last save.
ShowLoaded(y, found, wasDirty, open) ==
    LET next == Over(found, sheet.edited) IN
    /\ sheet' = [edited |-> next, base |-> IF wasDirty THEN sheet.base ELSE next,
                 dirty |-> sheet.dirty, open |-> open]
    /\ calm' = /\ calm
               /\ \A q \in DOMAIN found : found[q] = storedPlans[q] /\ ~HasPlans(wish[q])
               /\ wasDirty \/ wish = NoWish

\* toggleRow, ensurePeriodBudgetsLoaded: a row whose periods are all loaded; one that
\* the request cache has; one that is fetched.
Opens(y) == Free /\ load = NoLoad /\ y \notin sheet.open
Row(y) == PeriodsOf(y) \cap DOMAIN sheet.edited
IsLoaded(y) == Row(y) # {} /\ \A q \in Row(y) : HasPlans(sheet.edited[q])

ExpandLoaded(y) ==
    /\ Opens(y) /\ IsLoaded(y)
    /\ sheet' = [sheet EXCEPT !.open = @ \cup {y}]
    /\ UNCHANGED << serverOnly, asked, years, load, planSave, creating, wish, calm, tally >>

ExpandCached(y) ==
    /\ Opens(y) /\ ~IsLoaded(y) /\ fetched[y] # Missing
    /\ ShowLoaded(y, fetched[y], sheet.dirty, sheet.open \cup {y})
    /\ UNCHANGED << serverOnly, asked, years, load, planSave, creating, wish, tally >>

ExpandFetch(y) ==
    /\ Opens(y) /\ ~IsLoaded(y)
    /\ sheet' = [sheet EXCEPT !.open = @ \cup {y}]
    /\ load' = [at |-> "fetch", year |-> y, found |-> [q \in {} |-> Blank], wasDirty |-> sheet.dirty]
    /\ UNCHANGED << serverOnly, asked, years, planSave, creating, wish, calm, tally >>

Collapse(y) ==
    /\ Free /\ y \in sheet.open /\ (load # NoLoad => load.year = y)
    /\ sheet' = [sheet EXCEPT !.open = @ \ {y}]
    /\ UNCHANGED << serverOnly, asked, years, load, planSave, creating, wish, calm, tally >>

\* loadPeriodBudgets, or an error, which counts as no periods, in the cache as well.
FetchPlans ==
    /\ load.at = "fetch"
    /\ load' = [load EXCEPT !.at = "show",
                   !.found = [q \in PeriodsOf(load.year) \cap Existing |-> storedPlans[q]]]
    /\ UNCHANGED << serverOnly, asked, sheet, years, planSave, creating, wish, calm, tally >>

\* Mutant: what an error brings is shown like an answer.
FetchFailsShown ==
    /\ load.at = "fetch"
    /\ load' = [load EXCEPT !.at = "show", !.found = Missing]
    /\ UNCHANGED << serverOnly, asked, sheet, years, planSave, creating, wish, calm, tally >>

FetchFails ==
    /\ load.at = "fetch"
    /\ load' = [load EXCEPT !.at = "show"]
    /\ UNCHANGED << serverOnly, asked, sheet, years, planSave, creating, wish, calm, tally >>

ShowPlans ==
    /\ load.at = "show"
    /\ fetched' = [fetched EXCEPT ![load.year] = load.found]
    /\ ShowLoaded(load.year, load.found, load.wasDirty, sheet.open)
    /\ load' = NoLoad
    /\ UNCHANGED << serverOnly, shell, due, years, planSave, creating, wish, tally >>

\* handleCancel, and the effects of a page that is clean again.
Cancel ==
    /\ Free /\ sheet.dirty /\ planSave = NoPlanSave
    /\ sheet' = [sheet EXCEPT !.edited = Summaries(shell.periods, sheet.base), !.dirty = FALSE]
    /\ years' = [years EXCEPT !.edited = years.page, !.base = years.page]
    /\ wish' = NoWish
    /\ calm' = /\ calm /\ posts = {}
               /\ \A q \in DOMAIN sheet.base : \A c \in DOMAIN sheet.base[q] :
                     sheet.base[q][c] = storedPlans[q][c]
    /\ UNCHANGED << serverOnly, asked, load, planSave, creating, tally >>

\* The page is left and opened again, within the life of the request cache or later.
Reopen ==
    /\ Free /\ ~sheet.dirty /\ load = NoLoad /\ planSave = NoPlanSave
    /\ sheet' = Opened(shell.periods)
    /\ years' = [years EXCEPT !.edited = years.page, !.base = years.page]
    /\ UNCHANGED << serverOnly, asked, load, planSave, creating, wish, calm, tally >>

-------------------------------------------------------------------------------
(* Saving *)

\* handleSave: first the multi-years.  A write that a failed save has left under way
\* may land after its like.
SavePlans ==
    LET changed == {y \in MultiYears : years.edited[y] # years.base[y]}
        waits == {[of |-> y, plan |-> years.edited[y]] : y \in changed}
    IN
    /\ Free /\ sheet.dirty /\ planSave = NoPlanSave
    /\ tally.saves < MaxPlanSaves
    /\ tally' = [tally EXCEPT !.saves = @ + 1]
    /\ planSave' = [at |-> "years", edited |-> sheet.edited, years |-> years.edited,
                    waits |-> waits]
    /\ posts' = posts \cup waits
    /\ calm' = (calm /\ posts = {})
    /\ UNCHANGED << storedPlans, storedYears, asked, sheet, years, load, creating, wish >>

\* Then the periods that differ from the base copy, by now.
StartPeriods ==
    LET known == DOMAIN planSave.edited \cap DOMAIN sheet.base
        changed == {q \in known : PlansDiffer(sheet.base[q], planSave.edited[q])}
        waits == {[of |-> q, plan |-> planSave.edited[q]] : q \in changed}
    IN
    /\ planSave.at = "years" /\ planSave.waits = {}
    /\ planSave' = [planSave EXCEPT !.at = "periods", !.waits = waits]
    /\ posts' = posts \cup waits
    /\ UNCHANGED << storedPlans, storedYears, asked, sheet, years, load, creating, wish, calm,
                    tally >>

\* saveMultiYear, savePeriodCategoryPlans.
Writes(p) ==
    IF p.of \in MultiYears
    THEN storedYears' = [storedYears EXCEPT ![p.of] = p.plan] /\ UNCHANGED storedPlans
    ELSE storedPlans' = [storedPlans EXCEPT ![p.of] = Over(p.plan, @)] /\ UNCHANGED storedYears

postOnly == << asked, sheet, years, load, creating, wish, calm, tally >>

PostLands(p) ==
    /\ p \in posts
    /\ Writes(p)
    /\ posts' = posts \ {p}
    /\ planSave' = [planSave EXCEPT !.waits = @ \ {p}]
    /\ UNCHANGED postOnly

\* An error, of a write that was made or was not: the save is given up, its other
\* writes are not.
PostFails(p) ==
    /\ p \in posts
    /\ Writes(p) \/ UNCHANGED << storedPlans, storedYears >>
    /\ posts' = posts \ {p}
    /\ planSave' = IF p \in planSave.waits THEN NoPlanSave ELSE planSave
    /\ UNCHANGED postOnly

\* All are answered: the page goes on with the copies it sent, and everything is
\* asked for again.
SaveAnswered ==
    LET s == planSave IN
    /\ s.at = "periods" /\ s.waits = {}
    /\ sheet' = [sheet EXCEPT !.edited = Summaries(shell.periods, s.edited), !.base = s.edited,
                              !.dirty = FALSE]
    /\ years' = [edited |-> s.years, base |-> s.years, page |-> s.years]
    /\ due' = {"shell", "page"}
    /\ wish' = NoWish
    /\ calm' = (calm /\ posts = {} /\ sheet.edited = s.edited)
    /\ planSave' = NoPlanSave
    /\ UNCHANGED << serverOnly, shell, fetched, load, creating, tally >>

\* refreshBudgetListOnly; a clean page takes the list over.
RefreshShell ==
    /\ "shell" \in due
    /\ shell' = [periods |-> Existing, years |-> storedYears]
    /\ sheet' = IF sheet.dirty THEN sheet
                ELSE [sheet EXCEPT !.edited = Summaries(shell'.periods, @)]
    /\ due' = due \ {"shell"}
    /\ UNCHANGED << serverOnly, years, fetched, load, planSave, creating, wish, calm, tally >>

\* fetchBudgetMultiYearPageBundle: what the bootstrap has, or else the server.
RefetchPage ==
    /\ "page" \in due
    /\ \E found \in {shell.years, storedYears} :
          years' = IF sheet.dirty THEN [years EXCEPT !.page = found]
                   ELSE [edited |-> found, base |-> found, page |-> found]
    /\ due' = due \ {"page"}
    /\ UNCHANGED << serverOnly, shell, sheet, fetched, load, planSave, creating, wish, calm, tally >>

-------------------------------------------------------------------------------
(* A new period: createPeriod inserts it and then its rows *)

createOnly == << storedYears, posts, shell, fetched, years, load, planSave, wish, calm, tally >>

AskPeriod(q) ==
    /\ Free /\ storedPlans[q] = Missing /\ MultiYearOf[q] \in sheet.open
    /\ CanType
    /\ creating' = [at |-> "insert", period |-> q]
    /\ UNCHANGED << serverOnly, asked, sheet, years, load, planSave, wish, calm >>

InsertPeriod ==
    /\ creating.at = "insert"
    /\ storedPlans' = [storedPlans EXCEPT ![creating.period] = Blank]
    /\ creating' = [creating EXCEPT !.at = "rows"]
    /\ UNCHANGED << createOnly, due, sheet >>

InsertPlanRows ==
    /\ creating.at = "rows"
    /\ storedPlans' = [storedPlans EXCEPT ![creating.period] = [c \in Categories |-> 0]]
    /\ creating' = [creating EXCEPT !.at = "answer"]
    /\ UNCHANGED << createOnly, due, sheet >>

\* handleCreatePeriod: the period is shown, in one of the copies.
PeriodCreated ==
    /\ creating.at = "answer"
    /\ sheet' = [sheet EXCEPT !.edited = Over(@, [q \in {creating.period} |-> Blank])]
    /\ due' = due \cup {"shell"}
    /\ creating' = NoPeriod
    /\ UNCHANGED << createOnly, storedPlans >>

PeriodFails ==
    /\ creating.at # "none"
    /\ creating' = NoPeriod
    /\ UNCHANGED << createOnly, storedPlans, due, sheet >>

-------------------------------------------------------------------------------
RowStep(y) == \/ ExpandLoaded(y) \/ ExpandCached(y) \/ ExpandFetch(y) \/ Collapse(y)
              \/ TypeYear(y)

PostStep == \E p \in posts : PostLands(p) \/ PostFails(p)

NewPeriodStep == \/ \E q \in NewPeriods : AskPeriod(q)
                 \/ InsertPeriod \/ InsertPlanRows \/ PeriodCreated \/ PeriodFails

PlansNext ==
    \/ \E y \in MultiYears : RowStep(y)
    \/ \E q \in PlanPeriods, c \in Categories : TypePlan(q, c)
    \/ FetchPlans \/ FetchFails \/ ShowPlans \/ Cancel \/ Reopen
    \/ SavePlans \/ StartPeriods \/ PostStep \/ SaveAnswered
    \/ RefreshShell \/ RefetchPage
    \/ NewPeriodStep

PlansSpec == PlansInit /\ [][PlansNext]_planVars

-------------------------------------------------------------------------------
(* Properties *)

\* A page that had its own way shows of every period what is stored, but for what was
\* typed and neither saved nor cancelled; and the copy that its next save is compared
\* with is what is stored, too.  So what was typed is stored once a save is answered,
\* and a plan that nobody typed is never sent over another.
ShownPlansAreStored ==
    calm =>
        /\ \A q \in DOMAIN sheet.edited :
              /\ DOMAIN wish[q] \subseteq DOMAIN sheet.edited[q]
              /\ \A c \in DOMAIN sheet.edited[q] :
                    sheet.edited[q][c] = IF c \in DOMAIN wish[q] THEN wish[q][c]
                                         ELSE storedPlans[q][c]
        /\ \A q \in DOMAIN sheet.base : \A c \in DOMAIN sheet.base[q] \ DOMAIN wish[q] :
              sheet.base[q][c] = storedPlans[q][c]

===============================================================================
