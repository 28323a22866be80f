# Flowak: specification, model checking and proofs

This directory holds TLA+ specifications of Flowak, the product-workflow
workspace in this repository: a Go server over PostgreSQL, Redis and RabbitMQ
(`src/backend`) and a React client (`src/frontend`).  TLC checks the
specifications on small instances; TLAPS proves the theorems of the `*Proofs`
modules for every value of their constants.

    tlc -workers 2 -config WorkItemMoves.cfg MCWorkItem.tla     # one run
    tlapm WorkItemProofs.tla                                    # one proof module

`PROJECT.json` lists the components, the runs with their properties, a mutant of
the code for each property (the run finds it), the source lines behind every
definition, and the hazards of the code with the properties that watch them.

## 1. The system

A **project** has members, **modules** and **work items**.  A module is a graph
of workflow nodes and edges that several people edit on a canvas; a work item is
a card of the Kanban board with a parent, a history, watchers and comments.  The
server is stateless: several copies may run, and every request is a goroutine.
What is shared lives in

| store | state | who changes it |
| --- | --- | --- |
| PostgreSQL (READ COMMITTED) | projects, members, sessions, modules, `workflow_nodes`, `workflow_edges`, `module_versions`, `work_items`, `work_item_status_history`, watchers, `event_outbox`, notifications, `ai_jobs`, `api_runs` | every handler and the worker |
| Redis | `lock:module:<id>:sync` (5 s), `cache:module:<id>:graph` (5 min), a blacklist of access tokens, which stays empty (see `Sessions`) | graph handlers |
| RabbitMQ | work-item events, AI jobs, API-run jobs | handlers publish, the worker and the SSE consumer take |
| the browser | the graph being edited with a debounced save, the board with optimistic moves, the SSE connection | the user, answers, events |

### Inventory

| component | state | operations | what is hard | correct when |
| --- | --- | --- | --- | --- |
| Work items: moves and edits | the row with `row_version`, history, watchers, notifications, events | POST transitions, PATCH, watch, unwatch | decisions on reads outside the transaction, a read of the status before the UPDATE, a read after the COMMIT | history is an unbroken chain of allowed moves in time order; no lost update; one winner per version; reasons never lost; everybody is answered |
| Work-item hierarchy | `parent_id` | create, PATCH `parent_id` | the ancestor query and the UPDATE are two statements | no cycles (only a race can close one) |
| Creation and listing | the sequence of the project, the rows | create, page-by-page listing | creations overlap and fail between two pages, filtered columns change | numbers dense and unique; a listing returns what stays, nothing twice, and ends |
| Module graph synchronisation | node and edge rows with `row_version` and tombstones, the Redis lock | PUT of a whole graph with explicit deletions | the lock expires; two clients edit from the same load; deleted rows stay in the table | no lost update, no edge to a deleted node, no duplicate edges, no cycle |
| Graph cache | the Redis entry | GET graph, invalidation and refill by a save | a reader refills with what it read before the save; nodes and edges are read in two statements | what is cached was the graph at some moment and is not older than the last completed save |
| Graph editor (browser) | nodes, edges, pending deletions, timer, the confirmed graph | edits, debounced save, answers, rollback, reload | an answer or a rollback meets newer edits | no edit is dropped silently; after a rollback saving works |
| Module baselines | `module_versions` | publish, restore | `MAX(version) + 1` under concurrency, snapshot read before | versions unique and dense; a baseline never changes |
| AI flow jobs | `ai_jobs`, the queue | enqueue, consume, redeliver | crash between effect and acknowledgement, no channel | every accepted job ends; an outcome that was shown is replaced only after a fault |
| API runs | `api_runs`, the queue | enqueue, consume | early errors are acknowledged | every run leaves `pending` |
| Events and SSE | `event_outbox`, subscriber channels, the broadcast queue | write, broadcast, replay, prune | order of commit against `created_at`, full channels, several servers | a subscriber learns of every event or is told to reload |
| Notifications | notifications and outbox rows with `dedup_key` | watchers, mentions, mark read, prune | retries | at most one notification per cause and user |
| Sessions | `user_sessions`, the cookie and the tabs of a browser | login, refresh (rotation), logout | refresh against logout and against itself | after logout no refresh succeeds; a refresh token is good once |
| Projects, members, invitations | memberships, roles, invitations | add, remove, invite, accept, archive, restore | check-then-insert, acceptance by a present member | no duplicate members; an invitation is used once; an owner stays |
| API contracts, specifications, derived views, exports, reconciliation, configuration | documents and queries | CRUD, reads | little concurrency | - |

## 2. Modules

| module | what it is |
| --- | --- |
| `Kanban` | the status machine and the rules that tie a status to its text, shared by the two levels below |
| `WorkItemBoard` | what the API promises of one work item: atomic moves and edits, and their audit trail |
| `WorkItem` | the handlers as written, one action per statement or pair of statements; implements `WorkItemBoard` |
| `WorkItemHierarchy` | parents: creation, the ancestor query, the guarded UPDATE |
| `WorkItemListing` | the sequence, creations that overlap or roll back, keyset pages below a ceiling, the client's loop |
| `ModuleSync` | load, edit and save of a module's graph by several editors: the Redis lock that runs out, the transaction statement by statement, tombstones |
| `ModuleCache` | the Redis entry of a graph: lookup, the read in two statements, store, invalidation, warming; baselines |
| `GraphEditor` | the graphs in one browser: one debounce timer, overlapping saves, answers, rollback, loads |
| `WorkerJobs` | AI jobs and API runs: handlers, queues, the worker daemon's life, redelivery |
| `ProjectEvents` | comments, restored drafts and moves on their way to the pages: outbox, broker, channels, replay, reload |
| `Sessions` | login, rotation of the refresh token, logout, the check of each request, several tabs |
| `Membership` | accounts, invitations, members of a project and of its organization |
| `MC*` | instances for TLC |
| `*Proofs` | theorems; `BrowserProofs` has those of `GraphEditor`, `ProjectEvents` and `Sessions` |

The modules meet in the code as follows.  `GraphEditor` sends the PUT that `ModuleSync`
takes apart; `ModuleCache` models what the same PUT does to the cache after its COMMIT.
A move that `WorkItem` commits is published to the queue that `ProjectEvents` consumes,
and a draft that `ModuleCache` restores is one of its records.  Each module keeps of its
neighbour what its own properties can tell apart, so that each can be checked for all
interleavings of its own steps.

### How `WorkItem` corresponds to the code

A request is a value of `Transitions` or `Updates` with a program counter.  The
actions, in the order of the handler:

| action | code |
| --- | --- |
| `TransitionCheck` | `TransitionWorkItemUseCase.Execute` up to `UpdateStatus`: input, `FindByKey`, the state machine |
| `TransitionBegin` | BEGIN and `SELECT status` |
| `TransitionUpdate` (`TransitionLock`) | the guarded UPDATE, `RowsAffected`, `SELECT user_id` of the watchers |
| `TransitionCommit` | history and notifications become visible with the row; the errors of the notifications' INSERTs, and of the query for the watchers, are dropped, so any of them may be missing |
| `TransitionReread` | the read after the COMMIT, which feeds the answer and the event |
| `TransitionPublish` | the event; an error of the publisher is dropped |
| `UpdateCheck`, `UpdateReferenceRejected`, `UpdateCommit`, `UpdateReread` | PATCH: read, merge and validate; reference checks; guarded UPDATE and COMMIT; answer |
| `DatabaseError` | any statement fails; what is not committed is rolled back; the answer is 400 like that of a failed check, after the COMMIT too |
| `Watch`, `Unwatch` | the watchers artifact |

READ COMMITTED is modelled as it is: a statement sees what is committed when it
starts, an UPDATE waits for a row lock (`RowLocked`) and evaluates its WHERE on
the row it then finds, and nobody sees a transaction's writes before its COMMIT,
so those are assigned in the commit actions.  A server that crashes is a handler
that takes no further step: the database rolls back what is not committed.  The
`row_version` of a request is one the row has had, or 0, which is refused.
`CURRENT_TIMESTAMP` is the time of BEGIN; the clock of the model moves at every
BEGIN, an idealisation of a clock that could give two transactions one instant.

Text columns have three values (NULL, blank, something), the freely editable
columns are one (`title`), and a column left out of a PATCH is `Keep`.  Logging,
activity rows and the wording of answers are left out.

### `WorkItemHierarchy`, `WorkItemListing`

In `WorkItemHierarchy` the recursive query is the least set closed under
`parent`; `Endless` says that the walk meets no root, in which case the query (a
UNION ALL) returns nothing and the handler waits.  Clients send one PATCH after
another until the versions reach `MaxVersion`.

In `WorkItemListing` a creation takes its number in the transaction that inserts
the row and holds the row lock of the sequence until it ends; a listing is a
chain of independent requests whose cursor carries a ceiling and the last number.
The filters are one set of matching items that changes at any time.  Cursors of
the older form, without a ceiling, are not modelled.

### How `ModuleSync` corresponds to the code

A save is an editor that loads the graph of one module, makes one change and sends
everything back: `loaded` is what `FindGraphByModuleID` gave it, `payload` the body of
the PUT.  `tables` is what is committed, `wrote[s]` what the transaction of save `s` has
written; a statement sees the one over the other (`View`).  `pc[s]` names the next
statement and the position of the item in the payload that it is about.

| action | code |
| --- | --- |
| `LoadNodes`, `LoadFacets`, `LoadEdges` | the three reads of `FindGraphByModuleID`, outside any transaction |
| `Bodies` | what the store of the browser makes of the graph: `updateNode`, `updateRole`, `addNode`, `addEdge`, `deleteEdge`, `deleteNode` |
| `Send`, `SendWithoutLock` | `AcquireModuleLock` (SET NX), then `DetectCycles` on the payload |
| `Node`, `UpdateNode`, `Facet` | `UpsertNodes`: SELECT, INSERT or guarded UPDATE, and `syncRoleFacet` |
| `ActiveNodes`, `Edge`, `InsertEdge`, `UpdateEdge` | `UpsertEdges` |
| `DeleteEdge`, `DeleteNode`, `TombstoneNode` | `DeleteEdges`, `DeleteNodes` |
| `Commit`, `Reread`, `Release` | COMMIT, the read for the answer, the deferred release, the answer |
| `Fail` | every early return: Rollback, then the release |
| `DatabaseError` | a statement fails, the client goes away or the server dies |
| `Expire` | the time to live of the key ends, at any moment |

`WaitsFor` is PostgreSQL's: a write waits while another transaction has written the same
row, an INSERT while another has inserted an edge with the same ends.  A wait of all
against all is ended by an error of one (`Deadlocked`).  `expired` is not in the program:
it records the saves whose lock ran out under them, so that properties can say which
behaviours need that.  A server started without Redis has no lock at all; every
interleaving it allows is one in which locks expire at once.

The columns of a node are one `text`, its role tasks and specs one `facet`, an edge has
its ends only.  A load is answered whole or fails: that `hydrateDetails` goes on after an
error of one of its queries (`find_graph_by_module_id.go:150`), so that an editor may be
given a graph without some of its facets, is left out.  Name and description are not in the body of a graph save
(`graphMutation.ts`), so the row of the module is not written.  Business rules and
decision outcomes, which are deleted and inserted anew with each node, are left out; the
cache entry that a save drops and refills is `ModuleCache`'s.

### How `ModuleCache` corresponds to the code

A graph is two sets of items, what the SELECT of the nodes and what the SELECT of the
edges gave; a save of an instance adds a node of its own and an edge from it to the node
`Old`, or removes `Old` and the edges at it.

| action | code |
| --- | --- |
| `LookUp`, `StoreRead` | `GetModuleGraphUseCase`: the cache first, otherwise the database, and `SetGraphCache` |
| `ReadNodes`, `ReadEdges`, `ReadFails` | `FindGraphByModuleID` |
| `Acquire`, `Validate`, `Reject`, `Commit` | the save: lock, what `UpsertEdges` and `DeleteNodes` look at, and what is refused for it, COMMIT |
| `Invalidate`, `Warm` | `InvalidateGraphCache`, read again and `SetGraphCache`, release |
| `LockExpires`, `Expire` | the two times to live, at any moment |
| `Allocate`, `Insert` | `PublishModuleBaseline`, `RestoreModuleBaselineHandler`: `MAX(version) + 1` and the INSERT |

`late`, `unheard` and `outlived` are not in the program: they record that a save was
committed since a read began, that an invalidation failed, and that a lock ran out before
the COMMIT of its save, so that the properties can name causes.  After the last, the tables
themselves may keep an edge at a deleted node: how that comes about, statement by statement,
and that a server without Redis has no lock at all, is `ModuleSync`'s.
A save that outlives its lock stores the cache entry all the same, and errors of Redis
are ignored, as in the code.  The older `PublishModuleBaselineHandler` has no route.

### How `GraphEditor` corresponds to the code

| action | code |
| --- | --- |
| `Edit` | `updateNode` and its like, then `debouncedSave`: one `saveTimeout` for all modules, set anew |
| `Fire`, `Persist`, `Retry` | `persistActiveModule`, after 600 ms or by the button that a conflict offers |
| `Serve` | PUT: accepted if every version is the present one, refused, or failed; it may fail after it was stored |
| `AnswerSaved`, `AnswerRefused` | the answer replaces the graph; a refusal sets it back to `confirmedGraphs`, the last load |
| `ReadProject`, `Load`, `LoadFails`, `CloseProject`, `SelectModule` | `selectProject`, `reloadActiveProject`, `selectModule` |
| `OthersSave` | somebody else's PUT |

A graph is one row version and the set of the user's edits in it; the server saves it at
once.  `forgotten` and `upset` are not in the program.  `graphRequest`, the controller that
would abort a save, is never assigned, so saves are never aborted.

### How `WorkerJobs` corresponds to the code

| action | code |
| --- | --- |
| `GenerateFlow`, `GenerateFlowFails` | `POST /ai/generate-flow`: the row, then the publication, or the execution in the handler |
| `EnqueueRun`, `RunNow`, `AnswerNow` | `POST /api-requests/:id/runs`, asynchronous or not |
| `StartAi`, `StartApi`, `CallAi`, `CallApi`, `Save` | `ProcessAIFlowJob`, `ProcessAPIRunJob`, in a consumer or in a handler |
| `Deliver`, `Settle`, `LeaveLoop` | the consumers: `Ack`, `Nack` with requeue, `ctx.Done`, the closed channel |
| `Terminate`, `Exit`, `Crash`, `Restart`, `ChannelCloses`, `ServerChannelCloses` | SIGTERM and `main` of the worker; the broker returns what was not settled |
| `ClientLeaves`, `Poll` | the request's context; `GET /ai/jobs/:id`, `GET .../runs` |

The errors that the code ignores are in `slipped`: a publication that vanished, a save
that failed, a contract that was gone.  Among them is what a comment denies: after
SIGTERM the context is done, the save of the job under way fails, and its message is
acknowledged, as is that of an API run that failed before anything was written ("Job finished and recorded in DB; return nil so message is acknowledged",
`cmd/worker/main.go:102`).  A worker whose channel is closed goes on with its execution
while the broker gives the message to another; it does not connect again.  A job that
always fails goes back to the head of its queue without limit.

A result in a row is the number of the call that gave it.  The UPDATE of an AI job keeps
the result that is there when it has none to write (`COALESCE`, `update_job_status.go:29`),
while its status goes back to `processing` or `failed`; the upsert of an API run replaces
status and body by those of its own call (`process_api_run_job.go:83`).  A message that is
delivered again after a fault can so put `blocked` and no body over the success that a
client has seen, and of two executions of one job the one that saves last is shown, be it
the older.  `ShownResultKept` is what is left: some outcome stays, and the same one as long
as there was no fault.

`ExecuteEnqueueAPIRun`, `AiGenerateFlowHandler`, `AiMockPayloadHandler` and
`AiGenerateCodeHandler` are reached by no route and not modelled; neither is a server
that dies between the INSERT of a job and its publication.

### How `ProjectEvents` corresponds to the code

| action | code |
| --- | --- |
| `Begin`, `Commit`, `Announce` | `createComment`, `RestoreModuleBaselineHandler`: change, outbox row and notifications in a transaction, then `EmitProjectEvent`; the transaction of a move, with the notifications of the watchers |
| `PublishWorkItemEvent`, `ConsumeSSEBroadcast` | a move: to the broker; the server that takes the message announces it |
| `Register`, `Replay`, `Ready`, `Deliver` | `ProjectEventsHandler` |
| `Invalidate` | the listener of `AppShell.tsx`, which starts no load while one is running |
| `ReadForPage`, `Show`, `PageLoadFails`, `EndLoad` | `loadNotifications`; the load is over when `reloadActiveProject` has ended as well |
| `Disconnect`, `CrashAndRestart`, `ChannelCloses` | faults |

Moves are never in `event_outbox`; saves of graphs, published baselines, and creations
and edits of items announce nothing; comments and drafts reach the pages of the server
that handled them only, and so does each move, as all servers consume one queue
(`docs/BACKEND_ARCHITECTURE.md:105` speaks of a broadcast).  What the code loses on the
way (a full channel, a replay that ends after 101 events, the order of `created_at`) keeps
no page from loading, since it does not use the event but only takes it as a reason to load,
and `ready` alone makes it do so.

What it loads is another matter: the project with its modules, the two lists of members, and
the user's notifications (`useStore.ts:236-262`, `AppShell.tsx:80`).  The board loads its
items when the project is opened (`KanbanView.tsx:46`) and an item's comments when the item
is (`KanbanView.tsx:374`), and no reload touches either, nor is there anything of a restored
draft in it.  So of a comment, a move or a draft that was announced a page shows, by itself,
the notification that it leaves for the user of the page, and nothing when it leaves none.
That is what `notices` and `shown` are, and what `owed` is about: the properties promise the
notification and nothing else.  `Commit` chooses whom it notifies; the latest notifications
are assumed to be on the page of the list that is read (`timelineLimit`).  `owed` is not in the
program: it records which notifications the stream of a page has promised.  A stream whose cookie has expired is refused and, as browsers do not try again
after a 401, ends for good; the model ends it and need not open it again.

### How `Sessions` corresponds to the code

| action | code |
| --- | --- |
| `Login`, `CreateSession` | `FindByEmail`, then the row and the tokens |
| `OpenPage`, `FindSessionByRefreshToken`, `RotateRefreshToken` | `initializeStore` and the two statements of a refresh |
| `Receive`, `LoseAnswer` | the cookie is the browser's, the access token the tab's |
| `AnswerFails` | an error of the database, which a refresh answers with 401 like a session that is not found, and a login with 500 |
| `Logout`, `HandleLogout`, `ReceiveLogout` | `logoutUser` and `authService.logout`, which the tab does not wait for; revocation by the cookie, its error ignored, and the cookie cleared |
| `LetIn` | `AuthMiddleware` |
| `ExpireAccess`, `ExpireSession`, `Deactivate` | 15 minutes, 30 days, `DELETE /users/:id` |

The blacklist in Redis is left out.  `HandleLogout` takes the token to put on it from the
`Authorization` header (`handle_logout.go:26-43`), and the browser's logout has none
(`authService.ts:38-40`): the token id is empty, nothing is listed (`logout_user.go:42`),
and the check in `AuthMiddleware` lets every token pass.  So it is the session alone that a
logout ends, and the session is found by the cookie: `LoggedOutStaysOut` says when that
goes wrong.  `out`, `missed`, `failed` and `beside` are not in the program; they record, with
an access token, what became of its logout and whether anything that concerns the shared
cookie happened in between.

### How `Membership` corresponds to the code

| action | code |
| --- | --- |
| `CheckEmail`, `CreateUser`, `PostUser` | registration (one transaction) and `PostUsers` (two statements, of which the second always fails and its error is ignored) |
| `Invite`, `SaveInvitation` | invitations to a project or to its organization |
| `LockInvitation`, `FindInvited`, `Accept`, `Expire` | acceptance: `SELECT ... FOR UPDATE`, the account, the memberships |
| `Manage`, `CheckTarget`, `CheckMember`, `InsertMember`, `RemoveMember` | members: every check and every write is a statement of its own |
| `Archive`, `CheckRestore`, `Restore`, `Deactivate`, `Abort` | status of the project, of a user, failures |
| `JoinDefaultOrganization`, `RepairOwnership` | what the start of a server or worker writes of members: `db.InitDB` runs the migrations again (`db.go:82-129`), of which 04 (lines 33-38) and 09 (lines 5-29) are such; they may run beside the requests of other servers |

Things a reader may not expect: the owner of a project stops managing it by accepting an
invitation to a lower role, and nobody manages it then, unless another member has the
role of an owner, until a server starts and gives it back to them; removing a member does not
withdraw an open invitation to them; acceptance asks neither for the status of the project
nor for that of the user; deactivated users stay members.  `PostUsers` inserts a membership
of `org_default` whose role is the functional one (`pm`, `backend`, ...).  The CHECK of migration 09
(line 36) refuses it each time and the error is dropped (`users.go:117-121`), so that who is created
there belongs to no organization until the next start, whose migration 04 makes them a
member, or an owner if they are a `pm`.  It inserts a row for a deactivated user too, but as an
inactive one, which counts as none until an invitation is accepted; `orgRole` holds active rows.
The project's organization may be `org_default` or another one, and the model lets a start
join everybody or nobody each time.

## 3. What is checked

| run | instance | shows |
| --- | --- | --- |
| `work_item_moves` | 2 transitions, item in Ready, 2 users who watch | `Consistent` (the inductive invariant, with `OneWinnerPerVersion` and `HistoryInTimeOrder`), `AuditTrail`, `AnswerIsTrue`, `EventNamesItsMove`, `ToldOncePerMove` |
| `work_item_edits` | 1 transition, 1 PATCH, any status | `StatusHasItsReason`, `DecidedOnWhatItChanges`, refinement of `WorkItemBoard`, `EveryRequestAnswered` |
| `work_item_hierarchy` | 3 items, 2 clients, versions up to 2 | `CyclesNeedARace`, `Validated`, `AnsweredWithoutCycles` |
| `work_item_listing` | 2 creations at a time, 5 items, pages of 2 | `NumberedWithoutGaps`, `ListingComplete` (nothing twice included), `NothingBelowCeiling`, `ListingEnds` |
| `module_sync` | 2 saves, any change, 2 nodes: with facets, with an edge, with neither | `VersionTellsContent`, `NoLostNodeUpdate`, `LockExclusion`, `DanglingNeedsExpiry`, `CyclesNeedAStaleLoad`, `EverySaveAnswered` |
| `module_cache` | one save that adds, one that removes, one reader, publisher, restorer; 1 fault | `StaleNeedsARace`, `TornNeedsARace`, `BaselinesImmutable` |
| `graph_editor` | 2 modules, 2 edits, 2 saves under way; 1 fault or save of another user | `ConflictHasACause`, `EditsSettle` |
| `worker_jobs` | 1 AI job, 1 API run, 2 workers; 1 error of the model, 1 fault | `AcceptedIsKept`, `CallsHaveACause`, `ShownResultKept`, `EveryAcceptedJobEnds` |
| `project_events` | 1 server, 1 page, 2 records, 1 move, room for one event; 1 fault | `ToldAfterCommit`, `OwedIsShown` |
| `project_events_missed` | the same with room for two and no faults | violates `EveryPageCatchesUp`: a finding |
| `sessions` | 2 tabs, 1 session; 1 fault | `OneRefreshPerToken`, `NothingForTheRevoked`, `LoggedOutStaysOut`, `DeactivationTakesEffect` |
| `membership` | the owner and one other, 2 requests, 2 invitations, 2 roles | `MembersBelong`, `OnlyManagersLetIn`, `RoleNeedsAnInvitation` |

Every module also defines a type invariant (`TypeOK`, `EventsTypeOK`, `SessionsTypeOK`);
those of the modules with proofs are proved.

**Bounds.**  Every property of `WorkItem` is violated, if at all, by two requests
of which one overtakes the other.  A cycle of two or three items needs two clients.
Five items in pages of two make a listing of three pages with creations between all of
them.  Two saves are enough for every race between a check and a write of `ModuleSync`, as
each such check concerns one other transaction, and for a release that comes after the
lock has passed on; two nodes hold the smallest cycle and the smallest dangling edge, and
a save that deletes a node numbers the others anew, so that two saves can write the rows
in opposite orders.  In `ModuleCache` a torn read needs one commit between two statements,
a torn table two saves of which one commits between the other's look and its COMMIT,
and a stale entry one store after one invalidation; the two saves meet over the lock, and
publisher and restorer over a version.  In `GraphEditor` two edits are one that a save
carries and one that comes after it, and two modules are what one timer can confuse.
Two workers are enough for a message that is delivered again while its first holder goes
on; one fault is each kind once, and AI jobs and API runs share nothing but the worker and
the channel.  `ProjectEvents` needs one fault for each way in which an event gets lost; with
two faults it was checked once (765,000 states) and needs too long for a regular run.  In `Sessions` another tab that logs in anew
needs two sessions and is outside the run (more than 12 million states without an end, and
no violation among them); two tabs that refresh, log out and expire are inside.  In `Membership` one person besides the owner can be in every relation to the
project, and two requests hold every pair of a check and a write between.
The theorems remove the bounds for the properties they state.

**Deadlock** is not checked where everything may have been answered and nobody need do
anything more: `work_item_edits`, `module_sync`, `module_cache`, `graph_editor`,
`worker_jobs` (both jobs ended and no fault left) and the runs of `ProjectEvents`.  Where
something must not stop before, a liveness property says so.

**Fairness.**  Handlers are goroutines that wait for nothing but the database, so a
handler that can take its next step takes it (weak fairness of `TransitionContinue`,
`UpdateContinue`, `CheckParent`, `Commit`); a listing's client fetches the next page
as soon as it has one (`listAll` awaits them in a loop).  In `ModuleSync` a save
takes each step that it can take, one transaction of a deadlock gets an error, and a
Redis key with a time to live ends.  In `GraphEditor` the timer runs out and a save that
was sent ends; the timer is strongly fair because the bound on the saves, which the
browser does not have, disables it for a while.  In `WorkerJobs` an execution goes on and
an idle consumer takes the next message; that some worker stays up with its channel is
the premise of `EveryAcceptedJobEnds`, not an assumption.  In `ProjectEvents` servers
write what they have for a stream, messages are consumed and loads end; in `Sessions`
the server answers and time passes.  Nothing is assumed of new requests, of faults or of
users.

### Where the code and the documents differ

One of these is a run.  The others are definitions that no run lists, because they do
not hold; put one alone into the configuration named, and TLC shows how, in seconds.

| definition | configuration | what the documents say | what happens |
| --- | --- | --- | --- |
| `EveryPageCatchesUp` | `ProjectEventsMissed.cfg` | `docs/agent-tasks/10-events-versions-notifications.md:35`: other clients receive the event and fetch the latest data | an event that arrives while the page loads is ignored, also when that load has read the notifications already (`AppShell.tsx:78`); the comment, the move or the draft itself is not fetched in any case |
| `SavedMeansSaved` (invariant) | `GraphEditor.cfg`, `MaxFaults = 0` | `docs/agent-tasks/06-node-detail-surface.md:31`: the state of saving shown is the real one | an edit of a second module within 600 ms takes the timer away from the first, whose edit is never sent; "saved" is shown after the second's |
| `LogoutIsFinal` (invariant) | `Sessions.cfg`, `SessionIds = {s1, s2}`, `MaxSessionFaults = 0` | `docs/agent-tasks/02-tenant-auth-rbac.md:48`: after logout the refresh session cannot be used again | a refresh of another tab rotates the token before the logout looks for it; nothing is revoked |
| `LogoutIsInstant` (invariant) | `Sessions.cfg`, `MaxSessionFaults = 0` | `docs/BACKEND_ARCHITECTURE.md:96`: with `blacklist:token:<jti>` a logout and the revocation of a session are instant | the logout of the browser brings no access token, so none is blacklisted; when another tab has rotated the cookie, session and access token both live on; `LoggedOutStaysOut` is what holds |
| `NoDanglingEdges` (invariant) | `ModuleSync.cfg` | `docs/agent-tasks/01-database-graph-safety.md:26`, `docs/BACKEND_ARCHITECTURE.md:98` | a save that outlives its lock deletes a node while another connects it; `DanglingNeedsExpiry` is the part that holds |
| `AcyclicGraph` (invariant) | `ModuleSync.cfg` | `sync_module_graph.go:27`: "Validate acyclic topology via cycle detector" | two editors add a->b and b->a to the same load, one after the other; the check sees one payload at a time; `CyclesNeedAStaleLoad` is what holds |
| `NoLostFacetUpdate` (property) | `ModuleSync.cfg`, `Facets = {"f", "g"}` | `README.md:94`, `docs/agent-tasks/01-database-graph-safety.md:27` | role tasks and specs are written without a look at a version |
| `DeletedEdgeCanBeDrawnAgain`, `EdgeCanBeReplacedInOneSave` (properties) | `ModuleSync.cfg` | `invariants.ts:22`, whose INV-2 admits both edges | a deleted edge stays in the UNIQUE constraint for good, and edges are written before others are deleted |
| `NoParentCycle` (invariant) | `WorkItemHierarchy.cfg` | `docs/agent-tasks/04-work-items-comments.md:50`, `docs/ARCHITECTURE-ERD.md:34` | two PATCHes that put two items under each other both pass the ancestor query and both commit; `CyclesNeedARace` is what holds |

Facts that a reader may not expect, stated in the properties: the old and new status in a
published event need not be an allowed transition, as the new one is read after the
commit; a 400 to a transition does not say that nothing was committed, as the handler
answers every error so but a conflict and a missing item (`handle_transition.go:57`), the
failed read after the COMMIT among them; watchers may not be told of a committed move, as
the INSERTs run on the transaction while the rows of the watchers are open and their errors
are dropped (`update_status.go:71`); a user who starts to watch between the reading of the
watchers and the COMMIT is not told of that move; a save may be answered as failed although it is committed; a
refused save may set the browser back to a graph that is older than its own last save,
after which the next save is refused too (`upset`).

## 4. What is proved

All proofs assume only the named ASSUMEs of the modules.

*`WorkItemProofs`.*  `AuditTrail` and the others are not inductive: that the status
read in `TransitionBegin` is still the status of the row at the UPDATE follows from the
version, and only if the row has one content per version.  The invariant `Consistent`
says so: whoever holds the row lock has it at the version of its request
(`LockedAtBase`); what a request read is either the present row or an older version
(`SnapshotsAreOld`); what it will write fits what it read (`WritesFitTheirRead`); a
transaction that can still succeed began after the last commit
(`BegunAfterLastCommit`); used-up versions are behind the row (`WinnersAreBehind`).
From it follow the trail, the reasons, the order in time, the one winner per version, no
lost update, and that every step of the handlers is a step of `WorkItemBoard` or changes
nothing of it (`BoardImplemented`).

What a request tells the world is the invariant `Reported`: an entry of the history
carries the request that made it; a request that is in the history, or that lost, has its
version behind the row, so that even one answered 400 after its COMMIT cannot move the item
again; an event about to be published, and one that was, names the status its own entry
left from and the status of that entry or a later one; a notification is about a version
the row has left behind.  The last part makes the `dedup_key` of a new notification new,
which `ToldOncePerMove` needs, for an INSERT that met an old key would tell nobody.

*`WorkItemHierarchyProofs`.*  `Validated` is inductive: a check that has been made is
undone only by another PATCH's commit, which `raced` records.  A commit whose check is
not stale closes no cycle, by the lemma that a re-parented item outside the ancestors of
its new parent cannot be on a cycle.

*`WorkItemListingProofs`.*  `NumberedWithoutGaps` is inductive; with it no step adds an
item below a ceiling.  `ListingComplete` rests on `PagesInv`: what was returned is behind
the cursor, and what is behind the cursor and has to be returned was returned.  The lemma
`Pages` says that a page is a beginning of what was found, so that the cursor that names
its last item passes nothing over.  That a page has a last item is an induction over
numbers, which is taken by its contrapositive: every set of naturals has a least element
(`LeastNumber`), from the library's theorem that `<` on the naturals is well-founded, which
has no operator for a parameter.

*`ModuleSyncProofs`.*  `TypeInvariance` carries along that the item of the next statement
exists in the payload.  `LockExclusion` is inductive, because a release deletes its own
token only.  `DanglingNeedsExpiry` rests on `JoinedInv`: while no lock has run out, only
the holder of the lock has a transaction open; every live edge joins live nodes in what
that transaction sees, not only in what is committed; the nodes that `UpsertEdges` found
active are still live at every later edge, which is where the order of the loops matters
(nodes and edges before deletions); and when a node is about to be marked deleted no live
edge is at it.

The other three hold whether or not a lock has run out.  `BodiesFit`: the body of a save is
what the browser makes of what was loaded, and passed `DetectCycles`.  `NodesInv`: a node
that a transaction has written has a later version than the committed one, no other
transaction has written it, and the committed version is the one its editor loaded; what
an editor holds of a node is what the row was in that version.  Versions only grow, so one
version has one content (`VersionTellsContent`) and a commit changes what its editor saw
(`NoLostNodeUpdate`).  `EdgesInv`: an edge never changes its ends and is never brought back
to life, no two rows have the same ends, and the loops of a transaction have done by each
statement what the payload asks up to there.  From it, if the editor
loaded the pairs that are live, then after the commit only pairs of its payload are; such a
save closes no cycle (`CyclesNeedAStaleLoad`), since the payload passed `DetectCycles` and
fewer edges have no more cycles.

*`ModuleCacheProofs`.*  What a request has read, if no commit came in between, is what the
tables hold (`Fresh`); hence a stale entry was read across a commit.  The tables have no
edge without its ends as long as no lock was outlived (`EdgesAtNodes`): until then whoever
is in its transaction holds the lock (`LockHeld`), so that nothing changes between what a
save looks at and its COMMIT.  `Numbered` says that versions have
no gaps and that nobody holds a number beyond the next one, so that the INSERT of a stale
number meets the UNIQUE constraint and `BaselinesImmutable` holds.

*`WorkerJobsProofs`.*  `Placed`: the message of a job is in one place, its queue or one
consumer whose channel is open.  `Written`: whoever is done with a job has given it a
result, or an error that the code drops has happened to it (`slipped`).  `Kept` is
`AcceptedIsKept` with what a synchronous answer promises.  `Budget` counts, for each job,
the calls that were made and the executions and messages that may still make one; all of
them are paid for by the first execution, an error of the model or a fault, from which
`CallsHaveACause` follows.  `Undisturbed` says what the state is before the first fault: a job
with an outcome has no message and no execution that could still give it another, because
every channel is open and so whoever executes it is the only one; `ShownResultKept` rests on
it and on `Written`.

*`BrowserProofs`.*  The three components that live in the browser, each a system of its
own.  The module extends all three, whose names are therefore distinct: `Spec` is the
specification of the editor, `EventsSpec` that of the pages and `SessionsSpec` that of the
sessions, and no theorem speaks of two of them.

*Editor.*  `ConflictHasACause` looks at one save at one moment and is far from inductive.
`GraphsKnown` says of every graph in the browser, on the screen, confirmed, in a load or in
a save, that its version is at most that of the row and that with the same version it has
all the row's edits (`Known`); and of those that the server sent that they have no others
(`Clean`).  So a save that is accepted has everything that was saved before, which is
`SavedStaysSaved`, however loads, rollbacks and answers overlap, and replacing a graph by an
answer or by the last load never puts an unsaved edit on the screen.  `Settled` is about the
modules that nothing has made old: at most one save is under way, of the present version,
and answered with what the row is; a conflict needs two versions.  `UnsavedIsPending`, the
safety part of `EditsSettle`, is the third: an unsaved edit waits for the timer or is in a
save, or another module has taken the timer over; beside it, fairness is all that
`EditsSettle` needs.

*Pages.*  `ToldAfterCommit` holds because a handler announces after its COMMIT (`AtHand`)
and nothing is put into the queue or a channel but by a handler.  `OwedIsComing` is the
safety part of `OwedIsShown`: the notification that a page is owed is in the database, and its
stream has yet to send something that makes it load, or a load is under way that has it or
will have it.
It is here that an event may be dropped: a channel is full only if it is not empty, so the
proof needs `Capacity` to be at least 1 (`BoundsAssumption`; it is 16 in the code).

*Sessions.*  No two sessions have one hash; a token that was traded in is the hash of no
session (`Spent`); a valid access token is of a session that was inserted (`HandedOut`).
`Alone` says of an access token that nothing has happened beside that the answer that brings
it, the browser and its logout all have the hash of its session, so that the logout finds
the session; what a logout has left alive is recorded with the token (`LeftBehind`).  `LockoutIsFinal` is
the safety part of `DeactivationTakesEffect`: when a deactivated user is let in nowhere and
no login or refresh has passed the check of `users.status`, this stays so.

*`MembershipProofs`.*  Accounts and memberships of the organization are never taken away,
so that what a request has found of them holds when it writes (`Prepared`); the lock on an
invitation belongs to one request, and to one before it is used (`Accepting`, `OneLock`).
The owner is never removed (`OwnerStays`), so that the migrations of a start change the role
of a member and let nobody in who was out.

The assumptions on constants that the proofs need say that different things are different:
`None` is no person, role or invitation and `NoToken` no token or session, `Created` is no request, a job is no worker, and
the kinds of request are disjoint.  Bounds on faults and errors are naturals.

*Only model-checked.*  Every safety property that a run checks is a theorem.  TLAPS does not
reach liveness under fairness, so these stay with TLC: `EveryRequestAnswered`,
`AnsweredWithoutCycles`, `ListingEnds`, `EverySaveAnswered`, `EditsSettle`,
`EveryAcceptedJobEnds`, `OwedIsShown` and `DeactivationTakesEffect`.  The safety part of
four of them is proved: `UnsavedIsPending`, `OwedIsComing`, `LockoutIsFinal` and, for
`EveryAcceptedJobEnds`, `AcceptedIsKept`.  The first three and `SavedStaysSaved` are in no
run, for the theorems say more; each was checked with TLC on the instance of its module
before it was proved.

## 5. What is left out

Not modelled, and why:

- The optimistic move of the Kanban board and its rollback (`KanbanView.tsx:107`): state of
  one component of the page; the moves it sends are `WorkItem`'s.
- Modules that are created, imported, renamed or deleted in the browser; business rules,
  decision outcomes and the name and description of a module in a save.
- Mention notifications and the read mark: inserts in the transaction of a comment, and a
  single UPDATE.
- Links, checklists and timelines of work items, API contracts and specifications: single
  statements that no other modelled state depends on.
- The reconciliation tool, derived views, exports and analytics: reads only.
- The legacy graph and auth handlers, most of which no route reaches.
- Configuration, routing and most of a start, which is sequential.  What a start leaves behind
  for later is modelled where it touches modelled state: the memberships and roles that its
  migrations write (`Membership`) and the pruning of old events (`ProjectEvents`).  The
  other migrations create tables or fill in prefixes and dates of expiry; the pruning of API
  runs and logs that are older than 30 and 180 days is not modelled.
- Several projects or organizations at a time in `Membership`, and several servers in the
  regular run of `ProjectEvents`.
