# Verification of the capex application

This directory holds TLA+ models of the capex monorepo: the NestJS backend
`capexbe` (about 22 000 lines of TypeScript), which keeps its state in a
Supabase/PostgREST database, and the Next.js frontend `capex-apps` (about
83 000 lines), which talks to it through a proxy of its own.  TLC checks the
models on small instances; TLAPS proves the theorems for every value of the
constants.

The backend has no transactions.  A handler is a chain of awaited PostgREST
calls; each call is atomic in the database, and between two of them any other
request of the same process, or of another one, may run.  Nothing is locked, and
hardly any write carries a condition on what was read before it.  The browser
adds a second layer of the same kind: tabs that share cookies and
`localStorage`, and a proxy that refreshes sessions on its own.  The pages
add a third: each keeps two copies of what it shows, the edited one and the one
it will send the difference to, and refreshes both behind the user's back.  That is
why most of the models are about interleavings of handlers, about handlers that
stop half-way, and about copies that were true when they were taken.

## The system's parts

`C` marks concurrency, `F` failure half-way, `O` ordering, `T` time.

| Part | State | Operations | Hard | What makes it correct | Module |
|---|---|---|---|---|---|
| Task actions (`capexbe/src/task-actions`) | `asset_task_statuses`, `task_logs` | complete, revert, report, withdraw, reschedule, SLA override, system trigger; remarks; FS approval | C F | a Done row points at its own log; only the roles of a step complete it, only its completer reverts it | `TaskWorkflow`, `TaskRemarks`, `Studies` |
| Status recalculation (`smart-migration/recalculate-asset-task-statuses.ts`) | the same rows | reads all rows, derives Open/Locked, upserts the changed ones in a loop; the tail of most task actions | C F | the statuses follow from the Done steps; a completion is never taken back | `TaskWorkflow` |
| Auth sessions (`capexbe/src/auth`) | `auth_sessions` | login, refresh (rotation), logout, check of every request, heartbeat | C F T | one usable token per family; a revoked family stays revoked; no token outlives the absolute cap | `SessionRotation` |
| Browser session sync (`capex-apps/src/lib/auth`) | cookies, `localStorage` lock and timestamp, in-memory promise per tab | coordinated refresh, proxied data request with its own refresh, logout | C F O T | one refresh in flight; the user is not logged out by a race; every call returns | `BrowserSession` |
| Auth rate limiters | a map of windows per process | count a hit, prune | T | no more than so many hits in any window; no refusal without cause | `RateLimiter` |
| Shared and period caches (`shared/perf-cache.ts`, `budget-hu`) | maps with expiry, Redis, loads in flight | load, hit, share a load, invalidate | C T | how old an answer can be; who saved sees his save; one load at a time | `PeriodCache` |
| HU budget (`budget-hu`) | projects, assets, their codes | allocate a code, save with retries on a duplicate, cascade of deletes, save a period | C F | an answered save has left its whole payload; it touches nothing else; retries end only for cause | `BudgetSave` |
| HU budget page (`BudgetHUPage.tsx`) | edited copy, base copy, stamp of the peer sync | edit, save the difference, poll, refresh | C O | what was edited is sent, what was not is not | `HuPage` |
| Orders and receipts (`POUpdatePage`, `GRUpdatePage`, `po-update`) | assets' order columns; each page's copies; cached bundles | load, edit, quick form, save, trigger of the task | C F | an order that is saved completes its task | `OrderPages` |
| Project list (`project-list`, `fetchMergedProjectListPage.ts`) | the list, a cursor over it, the ids a filter scanned | query a page, filter in memory or in the database, merge periods | C O T | pages are consecutive slices of what they are cut from; nothing of it is skipped | `ProjectListPages` |
| Smart migration (`smart-migration`) | imported rows, counters | import in batches, row by row when a batch fails | F | what is Done has a log; a row with data is saved or reported as failed | `TaskImport` |
| Configuration (`configuration`) | workflow sets, users, roles and their children | delete and insert again; ids by maximum plus one | C F | an answered save has replaced the children, with a number for each; a role keeps its name | `Configuration` |
| Studies (`fs-updates`, `task-actions`) | `fs_submissions` | approve (update the latest, or insert), edit, create | C | what is answered hides what was there before, unless the pages prefer that as approved | `Studies` |
| Duplicate detection | none | compares names of one read | | finds what its rules say | |
| Dashboards and reports | none | aggregate | | the numbers add up | |
| Multi-year budget (`BudgetMultiYearPage.tsx`, `budget-multi-year`) | plans of periods and years; the page's copies; a request cache | load a row, edit, save the difference, create a period | C O F | what is shown is stored, but for what was typed; the next save is compared with what is stored | `MultiYearPage` |
| User administration, audit, bootstrap | one row each | insert, update | | | |
| Other frontend services and screens | caches on disk, React state | fetch, merge | O | | |

How they interact: a task action writes its row and its log and then calls the
recalculation, which rewrites other rows of the same asset; it ends by
invalidating the project-list caches without waiting.  Every proxied request
makes the backend check the session; a 401 makes the proxy refresh it, with the
cookies the request came with, while the tabs' coordinator may be rotating the
same token.  The budget page sends the difference of its copies to the save of the
period, whose end invalidates the caches its next refresh is answered from, and
leaves the stamp by which the other users' pages notice.  The pages of
orders and receipts write through the same `persistAssetRow` as the budget, and
then ask the task actions to complete the task of the asset.

`PROJECT.json` lists the same parts with their files, what is modelled of each
("components"), and the places where the code is hard to test ("hazards").

## The modules

| Module | What it is |
|---|---|
| `TaskWorkflow` | task rows, logs and the requests that change them |
| `TaskLedger` | what task actions promise: who completed what, who reported it |
| `TaskRemarks`, `Studies` | the remark of a completion and its history; feasibility studies and their approval |
| `TaskImport` | the import of completions in batches |
| `SessionRotation` | `auth_sessions` and the requests that change it |
| `BrowserSession` | the browser's side, composed with `SessionRotation` (it EXTENDS it) |
| `RateLimiter` | the window counters before the login routes |
| `PeriodCache` | three caches in front of the database, loads and invalidations |
| `BudgetSave` | the three saves of a budget, with code allocation and retries |
| `HuPage` | the page that sends them, with its peer sync |
| `OrderPages` | the pages of orders and receipts, and the save they share |
| `MultiYearPage` | the page of the multi-year budget and its service |
| `ProjectListPages` | the pages of a list, filtered, scanned or merged |
| `Configuration` | saves and deletions that replace children |
| `TaskWorkflowProofs` | theorems about `TaskWorkflow`: any number of concurrent requests; one at a time, the refinement of `TaskLedger` |
| `SessionRotationProofs` | the theorems about `SessionRotation` (types, the absolute cap, one usable token per family, dead families) and `BrowserSession` (calls that come back among them) |
| `TaskActionProofs` | the theorems of `TaskRemarks`, `Studies` and `TaskImport` |
| `AssetSaveProofs` | the theorems about `BudgetSave`, `OrderPages` and `MultiYearPage`, and about `MCAssetSaves` |
| `ConfigurationProofs` | the theorems about `Configuration` |
| `PeriodCacheProofs` | the theorems about `PeriodCache`, `HuPage` and `RateLimiter` |
| `ProjectListProofs` | the theorems about `ProjectListPages` |
| `ServiceProofs` | the services side by side (`MCServices`) |
| `MCTaskWorkflow`, `MCSessionRotation`, `MCBrowserSession`, `MCBudgetSave`, `MCOrderPages`, `MCMultiYearPage` | small instances for TLC |
| `MCServices` | eight modules that share no state, side by side |
| `MCAssetSaves` | `BudgetSave`, `OrderPages` and `MultiYearPage` side by side |

`MCServices` and `MCAssetSaves` compose modules that do not interact.  An
interleaving of two that share nothing shows nothing that one of them alone does
not, so a variable (`service`, `via`) picks one at the start and the others stand
still at their first state: the states add up and do not multiply.  What does
interact is in one module: tabs, proxy and backend sessions; handlers and
recalculation; layers of cache; a page, its server and its peers.

### TaskWorkflow

The state of one asset: `rows` is `asset_task_statuses` by task, `logs` is
`task_logs` by insertion number, and each slot of `Requests` has a program
counter `pc` (what it does when its pending await returns), local variables
`req`, and the rows its recalculation read, `snap`.

| Code | Actions |
|---|---|
| `completeWorkflow` | `CompleteRead`, `InsertLog`, `MarkDone`, recalculation |
| `revertToOpen` | `RevertRead`, `RevertMark`, `RevertUnlog`, recalculation |
| `reportNotYetDone`, `withdrawReport` | `ReportRead`, `ReportWrite`; `WithdrawRead`, `WithdrawWrite` |
| `rescheduleTask`, `updateSlaOverride` | `RescheduleRead`; `SlaRead`, `SlaWrite`; recalculation |
| `recalculateAsset` | `RecalculateAsset`, recalculation |
| `triggerSystemTask` | `TriggerStart`, (`TriggerNext`, `InsertLog`, `MarkDone`)*, `TriggerEnd`, recalculation |
| `recalculateAssetTaskStatuses` | `RecalcRead` or `RecalcSkipped`, then `RecalcWriteRow` for each changed step |
| a throw, the end of the process | `Abort` |

The reads of a handler up to its first write are one step, at the last of them:
only that one decides anything that can change under it.  Two consequences of
this are worth knowing.  What an earlier read of the same chain saw (the user,
his roles, the workflow set) does not change in the model.  And the reads of
`revertToOpen` (the row, then the log) are taken together, so a log replaced
between them is not modelled; the window after them, up to the write, is.

`RecalcRead` reads all rows at once and works on that snapshot.  Two failures are
modelled as the code has them: a failed select of the statuses is taken for an
empty table, and a failed select of the asset ends the recalculation with success.

### SessionRotation

A row stands for the refresh token whose hash it holds; a family is named by its
first row.  `now` is the clock, in units of which `Lifetime` (the refresh TTL
and the absolute cap, one constant in the code) and `IdleTimeout` are numbers.

| Code | Actions |
|---|---|
| `establishSession` | `LoginStart`, `Insert` |
| the guards of every route (`app.module.ts:66-75`): the `ThrottlerGuard`, then, unless the route is public, the `JwtAuthGuard` with `assertSessionActive` | `Admit`: `Throttled`, `SessionRevoked`, `SelectFails` or `SessionActive` and `ReadFamily`; `Unauthenticated` without a valid access token |
| `refresh` (public, with a limit of its own), `rotateSession` | `Refresh`: `Throttled`, `FindRevoked`, `FindExpired`, `FindValid` or `SelectFails`; then `ReadFamily`, `Resolve`, `Recheck`, `Supersede`, `Insert`, `TouchSession` |
| any other route | `Check` |
| `logout` (not public) | `Logout`, then `RevokeSession`, `RevokeAllForUser`; `LogoutCaught` |
| `revokeFamily` | `RevokeFamily` |
| `heartbeat` | `Heartbeat` |
| ignored errors | `ReadFamilyFails`, `RecheckFails`, `SupersedeFails`, `InsertFails`, `UpdateFails` |
| a throw, the end of the process | `Abort` |

A refusal is either a 401 ("refused") or a 429 ("throttled"): the proxy and the refresh
route tell them apart in different ways.  Since a logout gets past the guards only with a
valid access token of a live session, the branch of `AuthService.logout` that revokes by the
refresh token alone is reached by no request, and is not in the model.  What the handler
verifies once more and throws, it catches, and answers success with the session still
usable: `LogoutCaught`.

### BrowserSession

`jar` is the cookie jar, shared by the tabs; `lock` and `refreshedAt` are the two
`localStorage` entries; `flight` is `inMemoryRefresh` of each tab.  Each slot is
a call of the coordinator, a data request through the proxy or a logout, and its
backend half is the request of `SessionRotation` in the same slot.

| Code | Actions |
|---|---|
| `coordinatedRefreshSession` | `Join`, `Wait`, `Acquire`, `Arrive`, `AnswerCall`, `LoseAnswer` |
| `waitForPeerRefresh` and what follows | `PollSkip`, `PollVerify` |
| a tab is closed | `CloseTab`, `AnswerOrphan` |
| `proxyBePost` | `SendData`, `Forward`, `RefreshOnServer`, `DataServed`, `DataRenewed`, `LoseReply` |
| `logoutBackend`, the proxied `/logout` | `SendLogout`, `ArriveLogout`, `AnswerLogout`, `LoseReply` |

A logout whose access token has expired is answered 401 by the guard, and one over a limit 429;
`authBff.ts:84` deletes the cookies only on a success.  On a 401 `authenticatedFetch` asks for
a refresh and sends the logout once more, which is a call and a second logout of the model.
`logoutBackend` looks at neither answer, and the tab goes to the login page with or without
cookies left.

Taken as given: `localStorage` is atomic within a turn of a tab's event loop
(the code reads and writes the lock in one turn; browsers do not promise more);
and, unless `Faults` has "slow", a refresh is answered before its lock is stale
(`Prompt`), which is 30 seconds in the code.

### BudgetSave

`code` and `owner` are the codes of projects and assets and the project of each
asset; each slot of `Requests` walks over its payload with the rows still to do,
the row in hand (`target`), the code it wants and the attempts it made.

| Code | Actions |
|---|---|
| `savePeriod`, the saves of one project or asset, `allocateProjectCode` | `SavePeriod`, `SaveSingleProject`, `SaveSingleAsset`, `AllocateProjectCode` |
| the selects before a row is saved | `ReadProject`, `FindRoutine`, `ReadAsset` |
| `reserve*` (peek, reserve, once more), the maximum plus one | `ReservePeek`, `Reserve`, `ReserveFails`, `ReserveFailsAgain`, `ReadCodes` |
| upserts, and the answer 23505 | `UpsertProject`, `UpsertAsset`, `UpsertRefused`, `RoutineRefused`, `ClearItems`, `InsertItems` |
| `deletedProjectIds`, `deletedAssetIds` | `DropAsset`, `ReadDeletedProject`, `DropProjectAsset`, `DropProject` |
| the caches and the stamp; a throw | `Invalidate`, `Abort` |

### HuPage

`edited` and `base` are `editedData` and `serverPeriodRef`, `server` the rows of the
database, `known` and `poll` the peer sync; `mine` notes what the user wants of
each project, for the properties only.

| Code | Actions |
|---|---|
| the editing handlers | `EditProject`, `DeleteProject`, `Cancel` |
| handlers that await a code or a log | `AskNewProject`, `AskNewAsset`, `AskSaveProject`, `AskMassUpdate`; `Finish` or `FinishFails` |
| `handleSave` | `SaveChanges`, `PostSave`, `SaveAnswered` or `SaveFails` |
| the poll of the stamp, `applyPageBundle` | `Tick`, `Fetch` or `FetchMisses`, `Apply` |
| other users | `PeerWrites`, `PeerDeletes` |

### PeriodCache

Four layers in the order of the code: `response`, `memory`, `redis`, the database,
each a version and the time it was read; `loads` are the loads of any process,
`inflight` the one that others join.  A behaviour is about one key of a period, with one of
two `prefix`es: a save of the period drops the one from memory and from Redis (`Dropped`);
`app:table:budget-hu:period-network-shell` (`cache-keys.ts:24-25`) is matched by none of the
prefixes of `invalidateCachesForPeriod` (`budget-hu.service.ts:127-132`), and only its entry in
the response cache goes.

| Code | Actions |
|---|---|
| `getPeriod` and its like, with and without `skipCache` | `Ask`, `AskSkipping`, `DeleteShared` |
| `perfCacheGet`, the query, `perfCacheSet` | `GetShared`, `KeepShared`, `ReadDb`, `Store`, `SetShared` |
| a save and its invalidation | `Write`, `DropResponse`, `DropMemory`, `DropShared`, `Drop` |
| time | `CacheTick` |

### RateLimiter, TaskRemarks, Studies

| Code | Actions |
|---|---|
| `AuthRateLimiterService`, `checkEdgeRateLimit` | `Allow`, `Refuse` (with `Prune` at the edge), `LimiterTick` |
| `updateRemark` | `ReadLog`, `UpdateRemark`, or `NoColumn` and `UpdateRemarkOnly` |
| completions and reverts around it | `CompleteTask`, `RevertTask` |
| `upsertFsApproval`, `updateFeasibilityStudy`, `createFeasibilityStudy` | `Approve`, `EditStudy`, `CreateStudy`; `UpdateRow` or `InsertRow`; `MomentPasses` |

Of a project's studies two matter: `Latest`, the one touched last, which the next approval
goes into, and `OnPages`, the one that `buildFsMap` (`fs-enrichment.loader.ts:49-72`) shows on the
pages of approvals and of realizations: an approved one before any other, and of equals the
one touched last.

### Configuration

A behaviour is about one kind of entity and one schema of foreign keys, which the
repository does not have.

| Code | Actions |
|---|---|
| the saves and deletions | `SaveEntity`, `SaveNewRole`, `DeleteCall` |
| `allocateNextRoleId`, the upsert of the parent | `AllocateNextRoleId`, `UpsertEntity` |
| deletion of the children, its errors dropped for workflow sets | `ReadChildren` or `ReadUnseen`, `DeleteDetails` or `DeleteUnseen`, `DeleteChildren`, `DeleteRefused`, `DeleteEntity` |
| insertion of the new ones | `InsertChild`, `NextIntId`, `InsertWithId`, `InsertPermissions`; for users a role may not be there: `RoleNotFound` |
| and of what hangs on them, for users with a recovery of their own | `InsertDetails`, `NextDetailId`, `InsertDetailsWithId` |
| the answer; a throw | `AnswerCall`, `DieCall` |

### TaskImport

| Code | Actions |
|---|---|
| the loop of `runTaskUpdates` | `StartImport`, `SkipRow`, `RejectRow`, `CollectRow`, `FlushBatch`, `FinishImport`, `EndImport` |
| a batch | `UpsertLogs`, `UpsertStatuses`, `StatusesFail` |
| row by row, when the batch failed | `UpsertRowLog`, `UpsertRowStatus` |

### ProjectListPages

| Code | Actions |
|---|---|
| the pages of several periods, `refillPeriodStream` | `AskPage`, `CountPeriod`, `RefillStream`, `RefillScan`, `RefillFetch`, `TakeHead`, `EndMerge` |
| the pages of one period | `SinglePage`, or `SingleScan` and `SingleFetch` |
| other users | `InsertAsset`, `DeleteAsset` |
| the scan that is kept expires, or is invalidated | `DropScan` |

`scans` are the ids that `getBddFilteredSortedRows` scanned
(`project-list-assets-query.loader.ts:160-190`) and keeps for five minutes, also for a walk that
skips the caches; such a scan may be older than the walk.  The pages are cut from it while it is
kept, and from the table otherwise: `Base`.  Other filters scan anew for each chunk (`keeps` is
false).

### OrderPages

`screens` has, for each user, what the page shows, its base, what was edited and the
triggers still to call; `bundles` are the cached pages of the backend.

| Code | Actions |
|---|---|
| loads, from the database or from the cache | `PoLoad`, `PoLoadCached`, `GrLoad` |
| `handleDataChange` of either page | `PoCell`, `PoSent`, `GrCell`, `GrMark`, `Discard` |
| the saves, row by row | `PoSave`, `PoSaveFails`, `NothingToSave`, `GrSave`, `GrSaveFails` |
| the quick form; `PO_CREATED`; the end of a save | `QuickPo`, `Trigger`, `PoSaved` |

### MultiYearPage

`sheet` has the two copies of the periods, `editedPeriods` and `serverPeriodsRef`, whether
the page is dirty and which rows are open; `years` the two copies of the multi-years and
what the page query answered; `shell` what the app knows, and `due` what was asked for
again; `load`, `planSave`, `posts` and `creating` what is under way.  `wish` and `calm`
are not in the code: what the user typed and neither saved nor cancelled, and whether
the page had its own way so far.

| Code | Actions |
|---|---|
| `toggleRow`, `ensurePeriodBudgetsLoaded` | `ExpandLoaded`, `ExpandCached`, `ExpandFetch`, `FetchPlans`, `FetchFails`, `ShowPlans`, `Collapse` |
| edits, `handleCancel`, leaving the page | `TypePlan`, `TypeYear`, `Cancel`, `Reopen` |
| `handleSave`: the multi-years, the periods, the answer | `SavePlans`, `StartPeriods`, `PostLands`, `PostFails`, `SaveAnswered` |
| `onDataChange`, `pageQuery.refetch` | `RefreshShell`, `RefetchPage` |
| `handleCreatePeriod`, `createPeriod` | `AskPeriod`, `InsertPeriod`, `InsertPlanRows`, `PeriodCreated`, `PeriodFails` |

## The runs

Names of faults: "abort" a request dies between two calls; "read" and "write" a
call answers an error that the code does not look at; "limit" a request is answered 429 by the
`ThrottlerGuard` or by the limit of the refresh route; "caught" a logout catches what it
throws, and revokes nothing; "rpc" a reservation of a
number fails; "network" an answer is lost; "slow" nothing is prompt; "crash" tabs
are closed.

| Run | Instance | Question and result |
|---|---|---|
| `TaskSerial` | three steps with a gap in their order, two users, one request at a time, abort | Do rows and logs implement the ledger, does an answer mean that the statuses are derived, do overrides and reports survive?  Yes. |
| `TaskConcurrent` | three steps in a chain, one user, two requests, abort, read | What survives any interleaving?  The discipline of rows and logs; and recalculations repair the statuses once nothing else runs. |
| `SessionSerial` | three tokens, one request at a time, abort, read, limit, caught | One usable token per family, never again once it is gone?  Yes. |
| `SessionCap` | two tokens, two requests, abort, write, caught, limit | Does any token outlive the cap?  No. |
| `SessionTokenTwice` | three tokens, two requests | Can a token be rotated twice?  It can. |
| `TabsCoordinate` | two tabs, three calls | One refresh in flight, and the session kept?  Yes, when all goes well. |
| `CallsReturn` | two tabs, two calls, abort, limit, slow, crash | Does every call return?  Yes. |
| `SessionEnds` | a call, a data request, a logout, abort, limit, slow, network | When a refresh that the backend refused costs the cookies, is the session over?  Does a logout that succeeds end its session?  Yes, whatever dies, is late or over a limit. |
| `AssetSaves` | two saves of a budget, abort, rpc; two order pages and a receipt page with two edits; a page of two multi-years with two edits and a save | Is an answered save whole, does it stay within its payload, does it give up only for cause?  Do orders reach the workflow?  Are the plans shown those stored?  Yes. |
| `Services` | eight services, one per behaviour | Do they keep their promises under any interleaving and failure?  Yes. |
| `PageDeletesUnasked` | an empty budget, one user's project and one of another | Does the page send only what its user did?  No. |
| `ReceiptsDrift` | two assets that arrived, one user, one edit | Do received quantities stay what the table had, where nobody edits?  No. |

The properties, by module:

- `TaskWorkflow`: `LoggedRows` and `RecalculationConverges` hold under any
  concurrency.  `DoneHasItsLog`, `AnswerSettles`, `OverrideKept` and `LedgerSpec` (the
  refinement) hold for a client that waits for its answers, with requests aborted anywhere.
  `AuthorisedCompletion` and `ReportsStandOnDone` are proved, and not run, and so is
  `CompletionStands`, which the ledger includes.
- `SessionRotation`: `CapHolds` holds under any concurrency as long as the
  family's start is read.  `OneLiveToken` and `FamilyStaysDead` hold for one
  request at a time as long as the revocation of the old token is written.
- `BrowserSession`: `SingleFlight` and `SessionKept` hold for the coordinator
  alone, when nothing fails.  `ExpiredIsTrue` and `LogoutEndsSession` hold with
  all three kinds of request under way: when the proxy deletes the cookies because the backend
  answered its refresh with a 401, the session that was carried is over, and so it is when a
  logout was answered a success.  Of a refresh that died or was answered 429 the first says
  nothing, of a logout that the guards turned away the second; what happens then is below.
  `CallsReturn` is the liveness property.
- `BudgetSave`: `AnsweredSaveIsWhole`, a save that no other one disturbed has left
  every row of its payload, with its owner, and none of its deletions, unless it
  deleted the aggregator that it had folded another one into, which the page refuses
  (`BudgetHUPage.tsx:1213`); `NoForeignOverwrite`, no save writes a row that it was not
  sent, but the routine aggregator, which only another save may have renumbered or
  deleted between its reading and its writing;
  `GivesUpOnlyWhenCrowded`, a row is given up only after as many different
  taken codes as attempts.
- `PeriodCache`: `OwnSavesSeen`, a save that met no load is seen in its own process
  once it is answered, in the keys it drops; `StalenessBounded`, no answer is older than the layers'
  times to live together; `LoadsBounded`, one load per process but for those
  dropped while in flight.
- `RateLimiter`: `TwiceTheLimit`, the true bound of a fixed window;
  `RefusedForCause`.
- `TaskRemarks`: `RemarkExplained`, the history of a remark leads to it;
  `RemarkByItsCompleter`, whatever happens between the check and the write.
- `Studies`: `AnswerShown`, once a request is answered, if nothing was under way as it
  began or the project has one study: the study touched last is none of those that had been
  answered before it began, and the pages show one of those only while it is approved
  and no approved one is as young as the request.
- `Configuration`: `SaveReplaces`, an answered save has replaced what was there, and one
  that ran alone left exactly its children, and never fails for want of a number for a
  user's assignments or their scopes, however far the sequences lag behind
  (`NumbersAreFound`, a part of it).  A save may still leave a user without assignments, when
  it dies or when a role is not there;
  `RolesKeepTheirName`, a new role saved alone takes no other's number.
- `TaskImport`: `SavedHasItsLog`, every row that has data is counted once, and one that counts as saved
  has its status and the log this points to; no task gets two logs from an import, or
  one more when it had one, whatever fails.
- `HuPage`: `EditsStay`, what the user did is in the edited copy until it is saved or cancelled,
  and the next save deletes nothing of others; `NotedIsShown`, a clean page whose poll finds
  nothing new shows the projects as they are; `SendsOnlyRealChanges` is the one that fails.
- `ProjectListPages`: `PagesAreSlices`, while what the pages are cut from, the table or the scan
  that is kept, stays the same and none of it is deleted (`settled`), they are that list, cut;
  and a page never shows an asset twice.  `InsertsHideNothing`, inserts and new scans hide no
  asset of what the pages were to be cut from at first, where the two sides sort alike. Neither
  says that an asset inserted after a scan is on a page: it is not.
- `OrderPages`: `OrdersReachTheWorkflow`, an order in the table was reported, is
  about to be, or met a failure; `QtyInSync` is the one that fails.
- `MultiYearPage`: `ShownPlansAreStored`, the page shows what is stored but for what
  was typed, and the copy its next save is compared with is what is stored, at any time: so
  a save sends what was typed and nothing else.  It is promised as long as the page had its own
  way (`calm`), which it loses when a load or an answer buries what was typed, when it is
  shown something older than the last save, when a period is edited that the base copy
  lacks, when it is cancelled after a save that failed had written some of it, when an edit
  is made during a save, and when a save begins while writes of one that failed are
  still under way.

Properties with a premise (alone, undisturbed, quiet) say so in their comments, and
the premise is part of what the code can promise: the list of what happens
without it is below.

Why the bounds are enough.  Two request slots give every pair of handlers every
interleaving; the hazards listed are all pairs.  Two logs allow a completion, its
revert and a second completion.  The workflow of three steps has the two cases
the derivation tells apart, a gap in `step_order` and a step with two triggers;
the chain has the implied predecessor.  Three tokens are two rotations in
a row, or two of the same token.  The clock runs past every deadline: in
`SessionCap` the lifetime is 2 and the clock stops at 2, so a token rotated at 1 or 2
would expire past the cap were it not capped; in `SessionSerial` tokens expire and idle;
in `CallsReturn` it reaches the deadline of a wait that began at the last moment
allowed (`AskUntil` + `LockStale`), and a lock goes stale, and is taken over, while
its holder is still under way; in the browser runs, which count in units of
the lock's lifetime, sessions do not expire.  `MaxInFlight` and
`AskUntil` bound the browser runs.

In `AssetSaves` the payloads of `MCBudgetSave` are one of each kind that the code
tells apart: an asset that moves, a project that is deleted with its asset, a new
routine aggregator beside an old one and a row that turns into one, a project, an
asset and a code alone.  Two attempts stand for eight: the second is the first that
can fail for good.  The sequence lags behind the imported codes, so that it hands
out a taken one.  The order pages have an asset without an order and one that has
arrived; two strokes are an edit, and one made on what the first left behind.  The two
multi-years have a period each, of which one is there or is yet to be created, with two
categories, so that one row is loaded while the other is edited; what is typed and asked
for is two in all, before, during or after one save.  A behaviour ends when the page has
lost its own way (`OwnWay`), after which the property says nothing.

In `Services` two loads in two processes share a cache with `Ttl` 2 and `Refill` 1, and the
clock goes to 3, where the longest-lived copy expires.  One process saves, by time 1, and skips
the caches, as early and of the keys that a save drops; the other only loads (`CacheBounds`).
The limiter's window is 2 units of 4, so that two windows pass.  Two editors of three edits,
over two logs, lose an entry to each other and meet a log deleted and made again.  Four requests
on the studies, two at a time, are two pairs. Of the configuration, two saves at once and a
third after them see what the first two left; one of the three may die, go on blindly or name a
role that is not there (`ConfigBounds`).  The theorems have none of these bounds.  Files of
three and of six rows with `FlushEvery` 2 have full batches and a rest, tasks that come twice, a
row that is turned down and a blank one, and are imported again after a failure.  Two projects
are the user's and a peer's.  Four assets in two periods with chunks of 2 and pages of 2 refill
each stream once, and end on a full chunk; one insert or delete comes before the walk, where it
makes a scan that is kept old, or during it; the codes are numbered as the browser orders them,
and `TextRank` has the text order A1 < A10 < A11 < A2 of the database.

Behaviours end where the bounds do, so the runs with `CHECK_DEADLOCK FALSE` are those
in which a bound, and not the code, may leave nothing to do; the task and session
runs do check for deadlock.  Symmetry is used between request slots
(`SessionCap`, `SessionTokenTwice`, `AssetSaves`), and only in runs without liveness.

Fairness.  `FairSpec` has weak fairness of `Progress` for each request: an await
that has returned is resumed by the event loop.  Nobody is obliged to send a
request, so `RecalculationConverges` takes the arrival of recalculations as a
premise, and that from some time on selects are answered and none of them dies.
`FairBrowserSpec` has weak fairness of the clock, of the backend's
steps and of the steps of each call (timers fire, answers arrive or are reported
as errors); again nobody is obliged to ask, close a tab or fail.

## Disagreements with the code's own words

Three runs end in a counterexample; `PROJECT.json` quotes the line each
contradicts ("findings").

- `SessionTokenTwice`: "Refresh token reuse detected" (`session.service.ts:118`)
  compares a hash that never changes; two refreshes both rotate one token.
- `PageDeletesUnasked`: a save sends "only rows that really changed"
  (`budgetHuSaveHelpers.ts:59`), but a handler that awaited a code writes back the copy it
  started from (`BudgetHUPage.tsx:880`), and a project that a peer created and a refresh
  showed meanwhile counts as deleted.
- `ReceiptsDrift`: the quantity received stays "consistent with the asset"
  (`MANUAL_TEST_CASES.md:164`), but one corrected receipt makes the page count every row
  again (`GRUpdatePage.tsx:150`), from quantities its loader left out.

Others met on the way are not kept as runs.

Those of tasks and sessions are seen by changing a `.cfg`:

- "Only the user who completed the task can revert it."
  (`task-actions.service.ts:305`) is checked on a log read before the write at 308; with a second
  revert and a completion in between, somebody else's completion is reverted.  One request
  at a time nothing can come in between, so no property is made of it.
- The recalculation does not look at the error of the status select
  (`recalculate-asset-task-statuses.ts:36`) and reopens every Done step: `LedgerSpec` with
  the fault "read".
- A completion is lost when the recalculation of another request read the row
  before it (`recalculate-asset-task-statuses.ts:107`): `CompletionStands` with
  two requests and no fault.
- A revert deletes all logs of a task, that of a completion made meanwhile
  included (`task-actions.service.ts:322`), and later reverts answer "Task log not
  found.": `DoneHasItsLog` with two requests.
- Two requests that both read an open row both complete it, in spite of "Task is
  already completed" (`task-actions.service.ts:207`, upsert at 240), and two log rows
  remain.
- When the select of the family's start fails, the family is taken to start now
  (`session.service.ts:253`), and the cap of `auth.constants.ts:15` restarts:
  `CapHolds` with the fault "read".
- When the holder's refresh fails, all waiting tabs refresh at once
  (`authRefreshCoordinator.ts:98`, against "Single-flight" at 76): `SingleFlight`
  in `TabsCoordinate` with the fault "abort".
- The coordinator "Prevents refresh-token rotation races that revoke the whole session
  family." (`authRefreshCoordinator.ts:77`) but the proxy refreshes beside it
  (`beProxy.ts:200`): `SessionKept` with a call and a data request.
- Whatever the backend answers to the proxy's refresh but a success, a 429 of its limits
  (`auth.service.ts:286`) or an error included, deletes the cookies of a good session
  (`beProxy.ts:144` and 186, against the comment at 52): `ExpiredIsTrue` without its
  `pc[d] = "refused"`, with the fault "limit" or "abort".
- A logout with an expired access token is refused by the guard (`auth.controller.ts:209` is not
  `@Public`) and keeps the session and the cookies; `authenticatedFetch` refreshes and sends
  it once more, and if that fails too the login page is shown over a session that lives on.
  The code that would revoke by the refresh token is never reached.
- With the fault "limit" `SingleFlight` and `SessionKept` fail in `TabsCoordinate`: the holder
  that is answered 429 frees the lock and tells nobody, and those that waited refresh without it.
- A refresh in flight at logout is answered after it and puts cookies back
  (`authBff.ts:81`; `MANUAL_TEST_CASES.md:61` expects the login page).

Those of the budget, its caches and its page:

- Without the RPC, a code held by an asset that moved to another project
  (`BudgetHUPage.tsx:1132`) is invisible to the maximum and makes every retry choose the
  same code; the fallback of an update picks the maximum plus one without reserving it.
- Two new routine aggregators at once: the second save fails with 23505 rather than
  folding into the first (comment at `budget-hu-persist.util.ts:181`).  A failed select by
  id (`:158`) gives an existing project a new code.  A new project consumes two numbers.
- A save that fails half-way leaves the caches as they were.
- A load of the network shell gets the plans from before a save until its entries expire, as its
  key survives the invalidation (`cache-keys.ts:24-25`, `budget-hu.service.ts:127-132`):
  `OwnSavesSeen` without its condition.
- A load that overlaps a save stores the old answer after it; other processes keep
  their memory; a load between two steps of an invalidation refills the first cache
  from the second.  `OwnSavesSeen` says what is left.
- On the page, whoever awaits an answer goes on with the copy he started from: edits made
  meanwhile are lost, edits during a save are overwritten and the page marked clean,
  and a deletion comes back after a cancel.  A refresh of a dirty page brings back the
  projects its user deleted, and takes a peer's new fields into `base` while `edited` keeps
  the old ones, which the next save writes back.  A failed refetch is still noted as
  seen.  `handleModalSave` (`App.tsx:1397`) leaves the page even when the save failed.

Those of orders, receipts and the project list, where pages save whole rows that
their queries read in part (`persistAssetRow`, `budget-hu-persist.util.ts:268`, upserts all
columns):

- A save of receipts nulls the CPR id and the PO date and writes quantities of one; a save
  of orders nulls the CPR id and the lifecycle status
  (`project-list-query.util.ts:253-292` leaves them out), and dates an order that has a
  date ("when PO fields change and date is still empty") today.
- A save of whole rows leaves the cached bundle in place (`po-update.service.ts:114-119`):
  the refetch shows the old rows for up to five minutes, and the next edit writes them
  back.  A save that finds no changes leaves `editedData`, and the next mark goes on with
  that copy.
- Unchecking "PO sent" leaves the amount it invented, which completes the task anyway.
  A trigger that fails is swallowed (`taskService.ts:92`) while the user is told of
  success, and is never made again.  `__grnStatusChecked` is set nowhere, so the receipt
  page completes no task.
- The project list's own trigger saves a receipt of 0 although it completes the task.
- The database sorts codes as text and the browser by number: the list of several
  periods is not sorted as a whole, and one insert can hide an asset
  (`InsertsHideNothing` without its condition, 5 assets).  A delete between two chunks or
  pages hides one too; a row deleted between the scan of the ids and the select of the rows ends its
  period early (`fetchMergedProjectListPage.ts:234`).
- The scan of a BDD filter is kept for five minutes whatever `skipCache` says
  (`project-list-assets-query.loader.ts:160-190`): an asset inserted after it is on no page,
  though it was there before the walk began, and one deleted after it shortens a chunk, which
  ends its period, on an undisturbed walk too.
- A scoped user's total counts all assets of the period
  (`project-list-assets-query.loader.ts:605`).

Those of the smaller services:

- The limiters call their window sliding (`auth-rate-limiter.service.ts:34`,
  `edgeRateLimit.ts:1`); it is fixed, and twice the limit passes around its end.
- Two edits of a remark at once lose one of the entries.
- With several requests on the studies of a project under way, the conclusion of an
  approval may be hidden again: two proposals and an approval that lands last, with the
  older date, bring the other study back (`AnswerShown` without its condition, seven
  requests; the proof found it, the bound of the run did not).
- Rejecting the study touched last brings an older approved one back to the pages of approvals and of
  realizations (`fs-enrichment.loader.ts:59-63`), while the next approval goes into the rejected
  one; the other pages that show a study take whichever row their select returned last.
- Two approvals at once insert two studies, and the executive summary shows the one
  created last (`executive-summary-dashboard.loader.ts:652-687`) while approvals go to the one
  updated last.
- Two new roles saved at once get one id, and the second save renames the first role
  (`configuration.service.ts:443`).  A read error that nobody sees makes the steps of a
  workflow be appended to the old ones (`workflow-crud.util.ts:40-44`).  A failure between
  the delete and the inserts loses steps, permissions or assignments; and `saveUserEntity` needs
  none for that: it looks the roles up after the delete, and one that is not there
  ("Role not found for assignment", `configuration.service.ts:520`) leaves the user without any.
- A row of an import whose mapped cells are all empty is neither counted as saved nor as failed
  (`smart-migration.service.ts:778`).
- A row of an import that is counted as failed may have been saved, without its
  log; a revert between the two calls of a batch leaves a Done row without one.
- The disk caches of the browser (not modelled) keep the richer of two copies
  (`budgetHuDiskCache.ts:313`): a project whose deletion was saved is shown again when the
  page is reopened.
- My Tasks shows every step to a user assigned to "All"
  (`task-assignment-scope.ts:34-37`), though completion asks for the role of the step.

Those of the multi-year budget page (`BudgetMultiYearPage.tsx`) are what `calm` excludes,
and the last two besides:

- The plan of a period that was created on the page is not sent, since the base copy
  lacks the period (`if (!original) return false`), and the toast says
  "Budget plans saved successfully!" (`:674`).
- A load that began clean swallows an edit made meanwhile, with the keyboard in another row,
  into the base copy, and it is then never sent; one of a dirty page overwrites what was typed
  and leaves the base without it.
- The writes of a save that failed are not taken back, and the page may be saved again while
  they are under way (`Promise.all`, `:644-657`).  One that lands after its like undoes it:
  the page says that the new plan was saved, and the database has the old one.  It takes
  three plans and two saves, so the proof found it and the bounds of the run did not.
- After a save the page shows the years' plans of the bootstrap again, and the
  requests it repeats are answered for two minutes from a cache that the save did not
  clear.
- `BudgetSiloamPage.tsx` uses `freshCat` outside the block that declares it.

## What is proved

All theorems are checked by TLAPS for every workflow, every number of users,
slots, rows and every bound, from the named assumptions on the constants.

`TaskWorkflowProofs`, for any number of concurrent requests and all faults:

- `TypeCorrect`, `RowsAreLogged` (`LoggedRows`), `CompletionsAuthorised`
  (`AuthorisedCompletion`).  `LoggedRows` alone is not inductive: nothing in it
  keeps a request from inserting a log under a number that a row already has, or
  a recalculation from writing back a `log_id`.  `LogDiscipline` adds that the
  numbers in use lie below `nextLog`, that a request about to mark its task holds
  a log of that task, and that what a recalculation is about to write had no
  `log_id` when read.  `LogsAuthorised` adds the same for the role checks: a
  request about to log was let through.
- `RecalculationsRepair` and `RecalculationsSettle`: what `RecalculationConverges` comes
  from, with its fairness replaced by what it brings about.  A recalculation writes whole rows
  from what it has read, and another may have read before a task was completed or after; so a
  single one under way with an old copy can undo the repair of the next.  What saves it is
  that, while only recalculations run, the set of Done tasks can only shrink
  (`DoneTasks(rows') \subseteq DoneTasks(rows)`): what a loop has left was not Done when it was
  read (`LoopsOpen`), and no loop makes it so.  Once none is under way that read other Done tasks
  (`AllFresh`), it no longer shrinks and nothing gets worse, and whoever reads then has in his
  loop all that is outdated (`Covers`).

The same module, for one request at a time and no select failing unseen
(`Serial`), with aborts anywhere:

- `CompletionsKeepTheirLog`, `ReportsAreOnDone`, `AnswersSettle`,
  `OverridesStay` (`OverrideKept`), `CompletionsStand`
  (`CompletionStands`), and `ImplementsLedger`: initial states map to initial
  states, each step to a step of the ledger or a stutter.  A completion takes
  effect at `MarkDone`, a revert at `RevertMark`.  The strengthening is
  `RequestAlone`, which says for each program counter what the request read and
  still holds; in particular that the rest of a recalculation's loop is exactly
  the steps still outdated.

`SessionRotationProofs`, for any concurrency:

- `TypeCorrect`, and `CapIsKept` (`CapHolds`) unless `"read" \in Faults`.  The
  strengthening `CapInv` says that a family's first row is the oldest, that what
  a rotation read as its start is at least as early as every row of the family,
  and that the expiry it is about to insert lies under the cap of that start.

The same module, for one request at a time (`OneAtATime`) and no write failing unseen
(`WritesSeen`):

- `OneTokenPerFamily` (`OneLiveToken`) and `DeadFamilies` (`FamilyStaysDead`).
  The strengthening `LiveInv` says that the token a rotation started from is the
  family's usable one until it is superseded, and that a family has none when a
  rotation is about to insert.  Neither assumption can be dropped:
  `SessionTokenTwice` shows it of the first, `OneLiveToken` in `SessionSerial`
  with the fault "write" of the second.

The same module about `BrowserSession`, for any number of tabs, calls, data requests and
logouts:

- `BrowserTypes`, `BrowserRotates` and, unless `"read" \in Faults`, `BrowserKeepsCap`: every
  step of the browser is one of `SessionRotation` or changes nothing of it, so what is
  proved of its steps holds here.
- `ExpiredTrue` (`ExpiredIsTrue`) and `LogoutEnds` (`LogoutEndsSession`), as long as no error of the
  database goes unseen and no logout swallows what it throws (`CallsAnswered`: no "read", "write" or
  "caught") and no session expires or idles out by itself (`Timeless`; the clock counts in units of the
  lock's 30 seconds, sessions live for days).  Requests may die anywhere or be over a limit, tabs
  may close, answers may be late or lost.
  `RowsLast` says that no row expires within the run, and `Over` of every place in a
  renewal or a logout that its session is still the one that was carried, or is revoked for
  good (`SpentStays`).  `Turn` is the table of what a request does next under these
  assumptions, proved once (`TurnsTaken`) for both of the invariants.
- `OneFlight` (`SingleFlight`) and `SessionStays` (`SessionKept`), where calls of the
  coordinator are all that is sent and nothing fails (`CallsOnly`): the assumptions of
  `TabsCoordinate`, without its bounds.  The two need each other.  A call that waited
  refreshes by itself, without the lock, if it finds no word of a success (`NoVerify` says
  that it never does), so one flight at a time rests on every refresh succeeding; and that
  rests on no other one having superseded its token.  `FlightHolds` has the lock, its owner and
  the wake of a success, `Coming` follows the session through the rotation.  With a
  data request among the calls TLC finds both violated, as the proxy refreshes without
  the lock.
- `CallsComeBack`, `JoinedComeBack` and `CallsAllReturn` (`CallsReturn`), with every fault,
  data requests and logouts: a call of the coordinator ends, and one that joined it ends with it.
  `CallsKnown` says whom a call at each place is waiting for: its slot is named by a request
  that works for it (`Named`, `SlotsKnown`), what was sent is at the backend or on its way
  (`SendsIssued`), who waits for another tab has a deadline (`Attended`), and an insert never
  finds the table of sessions full (`Room`), so the bound on sessions holds up no call.
  The hypotheses are those of fairness: the call (`CallServed`) and its request
  (`RequestServed`) are not passed over for ever while they can take a step, and the clock
  gets to its end, which is beyond the longest wait.  Instead of ENABLED, which the provers
  do not know, they have the guards themselves (`CanStep`, `CanRun`), which TLC, asked on the
  instance of `CallsReturn`, finds to be ENABLED in every state.

`TaskActionProofs`, for any number of editors and edits, of studies and requests:

- `RemarksTyped`, `RemarksAreExplained`, `RemarksOfTheirCompleter`.  A remark is explained
  by its history only if every edit under way holds a history that leads to the remark it
  read, although others may have written since: `EditsHold`, with the completer of the log it
  was let through for.  Together they are `RemarksInv`.
- `StudiesTypes`, `StudiesShow` (`AnswerShown`).  A study bears the date of who wrote it
  last (`Dated`), whoever is under way beside a request that began alone began after it
  (`NoneFromBefore`), so there always is a study at least as young as that request, and
  one not written by what it came after (`YoungStudy`), which is enough for the study touched last and,
  as the pages prefer nothing but an approved study to it, for them.
- `ImportTypesHold`, `ImportsSave` (`SavedHasItsLog`), for every file, size of a batch and
  pattern of failures.  `RowsCounted` says where every row up to the current one is: counted,
  collected or left in the batch, and nowhere twice, if it is not blank.  `EntriesHold` ties
  each row collected to the log that the import takes its task to have, and `OneLogEach` says of
  the logs of a task, those written and those that a status or the import has in mind, that no
  two are of one import, and none is beside one from before; `WritesKeep` shows it once for all
  the calls that write.

`ConfigurationProofs`, for any number of requests at once, any payloads and schema:

- `ConfigTypes`, `ConfigReplaces` (`SaveReplaces`), `RolesKeepNames` (`RolesKeepTheirName`).
  What an answered save has left is known only along its way: `CallHolds` says for each place in
  the code what was deleted and inserted so far, `SweptClean` for every save and `OnItsWay` for
  one that runs alone, whose children then have one label each; as many children as labels
  follows from the bijection between them.  A role that is not there ends a save with an error,
  which the theorem does not count among the failures for want of a number.  That a free number
  is the highest plus one needs the highest of a finite set of numbers to exist:
  `FiniteMaximum`, by a smallest counterexample under inclusion.

`PeriodCacheProofs`, for any number of processes and loads:

- `CachesTyped`, `AnswersAge` (`StalenessBounded`), `SavesAreSeen` (`OwnSavesSeen`),
  `LoadsShared` (`LoadsBounded`).  `CacheInv` has a part for each: `AgesHold` bounds the age of
  an entry layer by layer, from Redis up; `SavingHolds` and `SeenHolds` say of the keys that a
  save drops that a quiet one meets no load and leaves in each layer nothing old once that layer
  was dropped; `LoadsHold` counts the loads that ask the database against the drops.

The same module, for any number of projects, assets, edits, handlers, saves and refreshes:

- `PageTypes`, `EditsKept` (`EditsStay`), `NotedShown` (`NotedIsShown`).  A fingerprint is
  the latest `updated_at` of some time before, so what is written later is touched after
  it (`PrintsHold`), whichever copy it is compared with: the one the page has, the one a
  refresh brings (`CopiesHold`), and the one a save under way sends, which is the base
  copy but for what it changes (`SentIs`).  A page without a fingerprint takes over the
  server's and may be wrong only if its base copy is.  `OwnHold` says what the two copies
  have to do with the changes of the user; that the next save deletes nothing of others
  rests on what the page lacks of the base copy being deleted by him.

The same module, for every limit, window and number of keys:

- `LimiterTyped`, `NeverMoreThanTwice` (`TwiceTheLimit`), `RefusedOnlyForCause`.  `LimiterInv` ties
  a bucket to the hits that were let through (`BucketHolds`): as many as it counts
  since it opened, none of the window before later than that; `Spread` then says that a
  hit and the one of twice the limit before it are a window apart.

`ProjectListProofs`, for every set of assets and periods, every order of the database,
size of a chunk and of a page, and walks and disturbances of any length:

- `ListTypes`, `PagesCut` (`PagesAreSlices`).  While what they are cut from stays the same and
  is still there (`settled`, `StillThere`), whether it is the table or an older scan, the pages
  are cut out of one list, also where the database sorts otherwise than the merge compares: an
  asset comes once those of the other periods are behind the largest code before it in its own
  period (`Peak`), and that order tells any two apart (`Merged`).  A stream then holds the next
  rows of its period (`StreamAt`), the reader has taken the first assets of the list
  (`ReaderAt`), the pages are the first parts of it (`WalkedAt`): `Undisturbed`.  It rests on
  what the rows of a set in an order are, which are lemmas about `InOrder`.
- `InsertsKeepAll` (`InsertsHideNothing`).  With inserts under way there is no such list.  What
  is kept is that an asset that the pages were cut from when the page under way began is on a
  page, seen by the reader, or still comes out of the stream of its period, in the order of the
  codes (`Comes`, `LeftFor`); and that one which they were cut from at first and is on no page
  has a full page of others before it for every page walked (`NothingLost`).  It survives a new
  scan as it does an insert: without deletes, what the pages are cut from only grows
  (`BaseGrows`).

`AssetSaveProofs`, for any number of projects, assets, requests and payloads, whatever
fails:

- `BudgetTypes`, `WholeSaves` (`AnsweredSaveIsWhole`), `NoForeign` (`NoForeignOverwrite`),
  `GivesUp` (`GivesUpOnlyWhenCrowded`).  `BudgetInv` says at every place of a save's
  chain of awaits what it is about to write: a row it was sent or the aggregator
  (`Aims`), the latter still the aggregator if nobody else is about (`Folds`).  Codes
  refused to a new row lie at or below the sequence and the one in hand above them
  all, so no attempt is spent twice on one code (`Mints`).  A save that is alone has
  every row of its payload either before it (`Ahead`) or written behind it (`Behind`),
  and what it deleted stays deleted (`Removed`).  The proof found two cases beyond
  TLC's bounds, which the properties now name: with three saves the
  aggregator may be renumbered between its reading and its writing, and a payload that
  deletes the aggregator may take what was folded into it along.

The same module, for any number of users and assets:

- `OrdersTyped` and `OrdersReach` (`OrdersReachTheWorkflow`).  A page may overlook an
  order because its copy has it already, so `OrdersInv` follows the copies: what any page
  shows, edits or compares with, and what is cached, has no order that is not accounted
  for, that is triggered, about to be, or given up with a failure.
- `OrderPagesKeepQuantities` (`QtyInSync`, which `ReceiptsDrift` refutes), where nobody has the
  page of receipts open: an order page saves whole rows, quantities included, from copies that
  may be old, but all of its copies have the quantities of the table (`QtyInv`).
- `PlansTypes` and `PlansShown` (`ShownPlansAreStored`), for any number of multi-years,
  periods, categories, plans and saves.  A plan is worth sending only if it differs from the
  copy it is compared with, so `PlansInv` says that what was typed does (`WishHolds`), which
  rests on the types: nothing but what is typed next has the next number (`TypesUpto`).
  What a save took along is then stored, or typed and about to be sent (`SentHolds`), and
  later stored or under way (`WrittenHolds`); what is under way changes no plan that was not
  typed (`PostsHold`), and nothing knows of a period that is not there (`There`).

`AssetSaveProofs` and `ServiceProofs` end with the compositions: `SavesTypes` (`SavesTypeOK`) and
`ServicesTypes` (`ServicesTypeOK`).  A step of one part leaves the variables of the others
alone, so every behaviour of a composition is one of each part (`SavesSteps`, `ServicesApart`),
and what is proved of a part holds in it.

Only model-checked: of the two liveness properties, that weak fairness and ENABLED bring
about what the theorems about them assume: for `CallsReturn`, that the guards are ENABLED and
that the clock gets to its end (an induction over time); for `RecalculationConverges`, that
requests keep ending and reading and that those with an old copy come to an end.
`SendsOnlyRealChanges`, and `QtyInSync` with a page of receipts, are refuted.

## What is not modelled

Abstracted inside the modules: timestamps and dates of tasks, names, the reschedule columns;
roles beyond the relation `CanComplete`; hashes, token signatures, CSRF, the audit log, the
score of suspicious logins; other assets and other users, which no handler mixes; 503 retries,
warnings and idle tabs of the browser; of a budget all columns that are copied, category budgets
and stamps, and the errors that the deletes of `deleteProjectCascade`
(`budget-hu-persist.util.ts:487-498`) do not look at; a Redis that does not answer; of a limit
of requests, how it is reached (a 429 may come at any time, apart from the windows of
`RateLimiter`).

Not modelled at all, with the reason:

- Dashboards, reports, duplicate detection and the filters of the project list compute
  an answer from one read and keep no state; what could be wrong in them is in their
  arithmetic and their wording, over columns that every module here abstracts.
- User administration, audit, bootstrap and most of the configuration write one row
  per call, with nothing between the read and the write.
- Views: most of the frontend's 83 000 lines lay out what other parts hold.
- Login, OAuth and password flows are exchanges with Supabase Auth, outside the
  repository, up to the point where `LoginStart` takes over.

## The plan

Done: tasks and their ledger, sessions and the browser, the budget with its caches and
its page, the multi-year page, orders and receipts, configuration saves, the import of completions, the
pages of the project list.

What would come next, in order of what matters to the system:

1. The disk caches of the browser and the merge of the richer copy, composed with `HuPage`.
2. The other imports of the smart migration, which allocate codes with a suffix.
3. The asset editor of the project list, which saves by `persistAssetRow` like `OrderPages`.
4. The two places where a role is asked, the scope of My Tasks and the completion rules.
