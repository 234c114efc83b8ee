# A TLA+ model of Workbench

Specifications, TLC configurations and machine-checked proofs for CJ Workbench.
Paths are relative to the repository, whose files are under `src/`.

1. [The system](#1-the-system)
2. [The modules](#2-the-modules)
3. [The runs](#3-the-runs)
4. [Fairness](#4-fairness)
5. [What is proved](#5-what-is-proved)
6. [Where the code departs from its documentation](#6-where-the-code-departs-from-its-documentation)
7. [What is not modelled](#7-what-is-not-modelled)
8. [The plan](#8-the-plan)

## 1. The system

A *workflow* is a row with *tabs*, each a list of *steps*.  Users change it by
*commands*, which are recorded as *deltas*: a linked list that undo and redo walk.
Each delta makes some steps stale; *renderers* compute their outputs again, one
workflow at a time, by running *modules* in processes of their own.  *Fetchers* and
*cron* bring in new data.  The processes share PostgreSQL, RabbitMQ and S3, and
nothing else.

| Part | State | Operations | Modules |
|---|---|---|---|
| **Render lock** `cjworkbench/pg_render_locker.py` | two advisory locks per workflow, two local locks per process, `_pg_lock` | enter `render_lock()`, `stall_others()`, leave | `RenderPhases`, `RenderLock`, `RenderLockProofs` |
| **Renderer** `renderer/` | its message, the workflow in memory | look up, lock, execute each step, save, requeue, ack | `RenderQueue`, `RenderCache` |
| **Work queues** `cjwstate/rabbitmq/` | queues, unacked messages, the connection | publish, deliver, ack, redeliver, reconnect | `RenderQueue`, `FetchedVersions`, `BrokerConnection` |
| **Delta chain** `cjwstate/commands.py`, `models/delta.py`, `cron/deltadeleter.py` | `delta` rows, `last_delta_id` | do, undo, redo, clean up | `UndoHistory`, `TabHistory` |
| **Commands on tabs** `models/commands/*tab*.py` | positions, soft deletion, selection | add, duplicate, delete, reorder, rename | `TabHistory`, `StepHistory` |
| **Commands on steps** `models/commands/*step*.py`, `util.py` | order, params, `last_relevant_delta_id` | add, delete, reorder, set … | `StepHistory` |
| **Commands on the report** `*block*.py`, `dbutil.py` | blocks and positions | add, delete, reorder, edit | `ReportHistory` |
| **Websockets, browser** `server/websockets.py`, `assets/js/` | the page's copy, pending mutations | send, hold, lose, reconnect, apply | `ClientUpdates`, `ClientSync`, `PendingMutations` |
| **Render cache** `cjwstate/rendercache/io.py` | rows and S3 files | cache, load, clear, recover | `RenderCache` |
| **Fetcher, auto-update** `fetcher/`, `cron/autoupdate.py` | versions, `is_busy` | queue, fetch, save, select | `FetchedVersions` |
| **Uploads, storage limits** `tusd_hooks.py`, `cjwstate/util.py` | rows and S3 files | upload, choose, delete the oldest | `Uploads`, `StorageLimits` |
| **Parameters** `cjwstate/modules/`, `renderprep.py`, `fetchprep.py` | specifications, values | validate, coerce, migrate, clean, send | `ParamTypes`, `ModuleSpecs`, `CleanParams`, `ModuleWire`, `StepParams` |
| **Module registry** `importmodule.py`, `params.py` | versions, cached migrations | import, migrate | `ModuleVersions` |
| **Module kernel** `cjwkernel/` | a child, two pipes, a result | fork, read, time out, validate | `ModuleProcess`, `ModuleResults` |
| **Payments** `cjworkbench/models/stripe.py` | customer, subscription rows | check out, hear of events | `Subscriptions` |
| **Secrets** `server/views/oauth.py`, `fetcher/secrets.py` | secrets, a session's login | log in, set, prepare | `Secrets` |
| **Copies and lessons** `server/views/workflows.py`, `lessons.py` | owners, sessions | open, duplicate, share, expire | `WorkflowCopies` |

What is hard in each, and what makes it correct:

* **Render lock.**  Every lock exists twice, four locks are taken and released in
  an order, with `await` between them, by several tasks and processes, any of
  which may die.  *Correct:* one render per workflow; nobody is refused while a
  renderer requeues; nothing is leaked; every call ends.
* **Renderer, render queue, render cache.**  A render lasts minutes and holds no
  database lock; meanwhile users edit, undo and redo, other renderers drop messages
  for the same workflow, RabbitMQ redelivers; a result is a row and a file, written
  one after the other.  *Correct:* only fresh results are cached; a stale workflow
  whose render was queued always has a message; the work ends; no row is answered
  with another delta's file.
* **Delta chain, tabs, steps, report.**  Transactions are serialized by the
  workflow's row lock, but a handler loads the tab or step it passes to the command
  *before*.  Soft deletion, undo, redo and two ways to forget deltas combine in
  sequences no test walks.  *Correct:* the chain stays linked; undo shows what was
  there; positions are 0, 1, 2 …; purges remove exactly what cannot come back; the
  set of steps a delta makes stale has all whose output changes; no update of
  positions meets the unique constraint; browsers see what the server has.
* **Fetcher, uploads.**  Versions are stored in one transaction and selected in
  another; busy flags and messages are written apart; limits delete the oldest.
  *Correct:* the version or file a step shows is stored; `is_busy` ends.
* **Parameters and modules.**  Values come from forms, from older versions and from
  modules' own code, and pass six conversions in two processes.  *Correct:* a module
  gets what its specification asks for, or the user gets errors whose quick fixes
  help; whatever it returns is validated whole.
* **Browser.**  Updates of concurrent commands overtake one another, the connection
  loses some, and the page shows the user's changes before the server has agreed.
  *Correct:* in the end the page shows what the server has, and nothing stays pending.
* **The rest.**  Events, windows, requests and sessions of the outside world come
  in any order.  *Correct:* the database follows.

`PROJECT.json` lists each hazard at its line, with the properties that cover it.

## 2. The modules

Definitions marked *Mutant* are plausible bugs; no specification uses them.
`PROJECT.json` says which property each of them breaks when it takes the place of
the definition after it.  Variables marked *auxiliary* are read by properties only.

### RenderPhases, RenderLock

`RenderPhases` is what `PgRenderLocker`'s docstring promises, as atomic phases.
`RenderLock` is the code, await by await, and refines it.  A *client* is a
`PgRenderLocker` (one process, one session); a *task* is a coroutine inside
`render_lock()`.

| Code | Model |
|---|---|
| `_local_stalls`, `_local_renders` | `localStalls[c]`, `localRenders[c]` |
| `_pg_lock`, while `pg_advisory_lock()` blocks | `pgLock[c]` |
| advisory locks (1, w) and (2, w), which stack | counts `stall[w][c]`, `render[w][c]` |
| `_transition_unlocked_to_rendering` (A) | `AcquireLocalStall`, `BeginRemoteStall`, `AcquireRemoteStall`, `AcquireLocalRender`/`RefuseLocally`, `AcquireRemoteRender`/`RefuseRemotely`, `ReleaseRemoteStall`, `ReleaseLocalStall` |
| `stall_others()` (B), also from the `finally` | `StallOthers` with `trans` "B" or "F", then the stall steps, `ReleaseRemoteRender`, `ReleaseLocalRender` |
| the end of the block (C) | `Leave`, `ReleaseRemoteStall`, `ReleaseLocalStall` |
| `exit_on_exception`, the supervisor | `FailAndExit`, `Kill`: `Restart` |

Only `pg_advisory_lock()` blocks, and so occupies `_pg_lock` visibly.  The heartbeat
is a statement without effect.  `epoch` counts ended sessions so that the refinement
can tell a restart from a normal step.

### RenderQueue

One workflow (workflows share only the renderers' time) with one tab of `NSteps`
steps.  A delta is its id and the first step it makes stale; a message is its delta
id; `queue` is a bag, since redelivery breaks the order.

| Code | Model |
|---|---|
| `commands.do/undo/redo`, then `_maybe_queue_render` | `Do`, `Undo`, `Redo` (the commit), `WebPublishes` later, or never |
| page load, reconnect | `OpenPage` |
| delivery, prefetch 1; `acking_callback` | `Deliver`, `Ack` |
| `render_workflow_and_maybe_requeue` | `Lookup`, `AcquireLock`/`Ignore`, …, `StallOthers`, `Decide`, `Requeue`, `Unlock` |
| `execute_workflow`, one tab | `Load`, `ReadInput`, `BeginStep`, `SaveStep`; `Unneeded` is UnneededExecution |
| DatabaseError; any other error; a killed process | `DatabaseFails`, `RenderFails`, `Kill` with `RabbitmqNotices`, `PostgresNotices`, `Restart` |
| cron's use of the lock | `CronLocks`, `CronProceeds` |

Its lock is an instance of `RenderPhases`, which `RenderLock` is shown to implement.
`owed` is auxiliary: a render was queued and the workflow has been stale since.
`broken` records which of the four known ways to lose a message has occurred: a
database error (acked all the same), a bug in the render (MUST_NOT_REQUEUE), a
message dropped because cron had the lock, and a killed renderer's message delivered
again before Postgres has freed its lock.

### UndoHistory, TabHistory, StepHistory, ReportHistory

`UndoHistory` is what undo and redo promise: a list of documents and a place in it.
The three others refine it, each for what it knows of the workflow.

`TabHistory` has rows of `tab` and `delta`; transactions under the row lock are
single actions.  What is *not* in the transaction is an action of its own:
`Load(u)`, the handler's `_load_tab()`, keeps the tab and position as the handler's
Tab object does, until the command uses it.  `DeleteStaleDeltas` is cron's clean-up,
`Purged` is `delete_orphan_soft_deleted_models()`.  `raced` is set once a command has
run with a Tab that was deleted, moved or purged since it was loaded, `failed` once a
purge ran into a protected step; the promises about positions are made without races.

`StepHistory` has steps in tabs that read one another.  The steps a delta makes stale
(`AffectedFrom`, `Dependents`) are computed from the dependency graph before
`forward()` runs, as in `commands/util.py`; a step's
`Outputs`, a recursive function, tell apart everything it could have been computed from,
so that a result is *true* when a render would give the same again.  The two loops of the
code that go on until nothing is new, `Dependents` and `Ready`, are stated by what they
end with, the least and the greatest set of tabs.  `dangled` says that a tab
which others read was deleted, `revived` that a step came back from a deletion
unrendered.

`ReportHistory` has automatic and custom reports, and `make_gap_in_list` and
`remove_gap_from_list` row by row under the unique constraint; `failed` says that an
update was refused.  A browser may ask for a position past the end, as it may not know of
deletions (`MaxLag` bounds them); the gap that this leaves is closed by ReorderBlocks, and
its undo does not open it again, which `closed` remembers.

### ClientUpdates, ClientSync, PendingMutations

`ClientUpdates` extends `ReportHistory` with what the server tells a browser of each
command (`load_clientside_update()`) and what `applyUpdate.js` does of it.

`ClientSync` has a browser that looks on: the page it loads, updates that are sent in
another order than committed (`held`), lost connections, and the whole workflow, but
for the blocks, on connecting.

`PendingMutations` has a browser whose user edits the report: mutations applied to the
page before they are confirmed, requests, refusals and updates under way, a connection
that loses them, while others do, undo and redo commands.  `limbo` (auxiliary) has the
mutations that no update may ever tell of, `missed` says that blocks were changed while
nobody told the page.

### RenderCache

Rows and files of one tab's results; the renderer's put and commit, with deaths
between them; CorruptCacheError and backtracking; readers who load a row under the
lock and the file without it.  A render may give another result for the same delta.

### FetchedVersions, StorageLimits, Uploads

`FetchedVersions`: requests (set busy, then publish), cron, delivery to fetchers,
`CreateResult` and `SelectVersion` (SetStepDataVersion) as two transactions, deletion, undo, redo,
choice of a version, deaths and errors.  `Uploads`: the tus hook's two transactions
and its S3 calls, API tokens, undo and deletion.  Both delete by `StorageLimits`,
the code's `find_deletable_ids()`.

### ParamTypes, ModuleSpecs, CleanParams, ModuleWire, StepParams

Data only.  `ParamTypes`: coerce(), validate(), iter_dfs of every dtype.
`ModuleSpecs`: what validate_module_spec() refuses, and the schema of the rest: built
of the parameters, or parsed from an explicit `param_schema`, which may raise.
`CleanParams`: renderprep and fetchprep.  `ModuleWire`: to Thrift and back.
`StepParams` composes them as a state machine: `Import`, `MigrateParams`, `AddStep`,
`SetStepParams`, then `Render` or `Fetch` in a context (columns, tabs, files).  A module's
own `migrate_params()` raises, or gives the default parameters, or these with one value
changed, missing or too many, or no dict.  `DependsOn` and `GraphRaises` are what the
commands' DependencyGraph makes of the migrated parameters, `InputTabSlugs` what the
renderer orders the tabs by; they are two readings of the same step.

### ModuleVersions, ModuleProcess, ModuleResults

`ModuleVersions`: an import writes S3 and then a row; renderers load params under
the lock; embed.py saves the migrated params it has computed, without it.
`ModuleProcess`: one call, with a child that writes, closes, exits and hangs as it
likes, two pipes, two readers, time limit and kill.  `ModuleResults`: the two ways of a
render(), pandas' (`RenderPandas`: coercion of None, text, lists, tuples, dicts, data
frames, a `ProcessResult` and anything else) and Arrow's (`RenderArrow`: a file that the
module wrote and messages), those of a fetch(), the message, its validation, and forged
messages.  Values are told apart by their type, the shape of their parts and whether they
are JSON; the letters of texts are not, so no text is taken for a list of letters, and no
dict for a list of its keys.

### BrokerConnection, Subscriptions, Secrets, WorkflowCopies

`BrokerConnection`: the task that connects and reconnects, publishers that wait for
it, close(); RabbitMQ stops and starts.  `Subscriptions`: checkouts, Stripe's events
in any order and more than once.  `Secrets`: login windows of two services, typed
secrets, versions that change what a parameter is, and what a fetch gets.
`WorkflowCopies`: requests of one browser on several servers, examples, duplicates,
lessons, logins that give the session another key, cron's deletion of expired copies.

### Parts, MC modules, proofs

`Parts` instantiates seven small parts that share nothing, with variables of their own,
and states the property of each.  `MCParts` extends it and has them side by side in one
run with three that are for TLC only (parameters, results, a browser's mutations): each
behaviour is one of one part, whose variables alone change.  It extends `MCStepParams`,
too, which gives `StepParams` its specifications, values and contexts.
Each other `MC*` module extends its specification and defines the instance.  Each
`*Proofs` module extends its specification and has nothing but theorems about it.

## 3. The runs

| Run | Instance | Distinct states | Shows |
|---|---|---|---|
| `render_lock` | clients c1 (tasks a1, a2) and c2 (task b1), 1 workflow, 1 call each, 1 fault | 27 137 | exclusion, no leak, every call ends, atomic phases |
| `render_lock_production` | one task per client, 2 workflows, 2 calls each, 1 fault | 55 753 | no cycle of sessions |
| `render_queue` | 2 renderers, 2 steps; 3 edits, or 2 edits, a visit of cron and a fault of any kind | 1 697 021 | nothing lost but in four ways; only fresh results cached; not requeueing is right |
| `render_queue_progress` | 2 renderers, 1 step, 2 edits, 1 fault | 111 866 | queued renders get done; the queue drains |
| `tab_history` | 1 user, 2 tabs at first, 3 at most, 4 edits | 169 994 | linked chain, positions, purges, undo and redo |
| `step_history` | three tabs of 2, 1 and 1 steps that read one another in a chain or a cycle, at most 4 tabs and 5 steps, 2 edits | 280 555 | orders, what is stale, what is queued, undo and redo |
| `report_history` | 2 tabs, 3 steps of which 1 at first, at most 3 blocks, positions to 1 past the end, 3 edits, of which 2 while a browser looks on | 478 813 | blocks, positions, undo and redo, the browser's copy |
| `render_cache` | 2 steps, 2 tables, 1 edit with undo and redo, 1 fault | 152 968 | rows and files, complete renders, downloads |
| `fetched_versions` | 2 fetchers, versions of 1 and 3 bytes, limits of 2 rows and 2 bytes, 3 fetches, 1 edit, 1 fault | 853 000 | the shown version is stored; busy steps stop being busy |
| `parts` | the ten parts of `MCParts`, one after another; the instance of each is there | 807 137 | one property of each, two of parameters |
| `step_history_deleted_tab` | as `step_history`, 1 edit | — | *violation*: a stale result passes for fresh |
| `fetched_versions_last_word` | 1 fetcher, 2 fetches, 1 edit, no fault | — | *violation*: a restored step is busy for good |

Why the bounds suffice:

* **Lock.**  Two tasks in one client and one in another give every pair of rivals
  (same client, other client) and a third that waits while two contend.  One fault
  hits any step; a second call and a second workflow matter for leaks across calls
  and for cycles, which `render_lock_production` has.  The proofs need no bound.
* **Queue.**  Three edits give do, undo, redo, back to the delta a renderer started
  from.  Two renderers give one that renders and one whose messages are dropped.
  Two steps give a fresh step before a stale one, and an interruption between
  them.  A second fault would act on a state that has lost a message already, and
  the property then promises nothing; two kills in turn are outside the run.  The
  renderers are alike, and no liveness is checked in that run, so symmetry is sound.
* **Tabs.**  Four edits give do, do, undo, do (with deltas deleted); add, delete,
  undo, redo; a clean-up may come between any two, with any cut-off, since it is
  not counted as an edit.  Two tabs that become three and one have a first, a
  middle and a last.
* **Steps.**  Three tabs give a reader of a reader, a reader of two, and cycles of tabs; two edits
  give each command after each other one, undone and redone in any order, with
  renders between.
* **Report, browser.**  Two tabs and three steps give a tab that goes with two
  blocks that are not neighbours.  A position one past the end leaves a gap; it takes
  a fourth block to see what closing it does to a redo, so the proof has that case and the
  run has not.  An update held back once is the smallest change
  of order.  Two mutations with one command of another user or one lost connection
  give every order of request, command, update and refusal; three mutations without
  trouble give the same.
* **Cache, fetches.**  Two steps give an input that is gone when it is needed.  Three
  fetches into room for two versions delete one; one edit with undo and redo brings
  back what had another selected.
* **Parts.**  Values, specifications and raw results are chosen so that each branch
  of coercion, validation and cleaning happens alone and in pairs.  Counters are
  bounded at two or three of a kind (two uploads of a user and one of a program, two
  checkouts, two windows, two requests), which gives every pair of rivals.  The two
  requests are alike, and no liveness is checked, so symmetry is sound.  Forged
  messages have any table without errors, and any errors and JSON with a few tables.

Deadlock is not checked: the models stop when their bounds are used up and all
queues are empty, as the program does when nobody works.

## 4. Fairness

* `RenderLock`: weak fairness of each task's steps.  A coroutine that can go on
  does so (the event loop is fair), Postgres answers, and a renderer's code in the
  block ends.  The waiting tasks of one client are not fair among each other: it is
  enough that each call holds the stall lock for a bounded number of steps and that
  calls are bounded.  New calls, kills and lost sessions are not fair.
* `RenderQueue`: weak fairness of each renderer's handler, of recovery (RabbitMQ
  and Postgres notice a dead client, the supervisor restarts it), of publishing
  what a web server means to publish, and of cron's visit.  That a kill delays
  but does not prevent is what `render_queue_progress` shows.  Users and faults are
  not fair.
* `RenderCache`: weak fairness of the renderer, which has a message as long as a
  download has queued one, of the row's reading and of the downloads: the client is
  told to retry, and the property is about one that does.
* `FetchedVersions`: weak fairness of each fetcher, and of the publishing that
  follows a commit in web servers and in cron (a crash may still take it away).
* The others have no liveness: what they promise, they promise of every state.

## 5. What is proved

TLAPS proves the following for every value of the constants: any number of
processes, tabs, steps, edits, requests, faults, any limits and sizes.  Each module's
theorems have a module of their own, `…Proofs`; `PROJECT.json`, "theorems", lists
them.  The property that a theorem states is the one that a run checks on a small
instance.

| Module | Proved of every behaviour |
|---|---|
| `RenderLockProofs` | `OneRenderPerWorkflow`, `StallKeepsOthersOut`, `LocksMatchTasks`, `NoSessionDeadlock` (one task per client), `ImplementsPhases` |
| `RenderQueueProofs` | `AlwaysQueuedUnlessBroken`, `OnlyFreshResultsAreCached`, `NoRequeueMeansFresh` |
| `RenderCacheProofs` | `RowMatchesFile`, `DoneMeansFresh` |
| `FetchedVersionsProofs` | `ShownVersionIsStored` |
| `TabHistoryProofs` | `ChainIsLinked`, `TabsAreInOrder`, `PurgesAreSafeAndComplete`, `ImplementsUndoHistory` |
| `StepHistoryProofs` | `StepsAreInOrder`, `StaleStepsAreQueued`, `FreshResultsAreTrueOtherwise`, `ImplementsUndoHistory` |
| `ReportHistoryProofs` | `ReportIsSound`, `NoCommandIsRefused`, `ImplementsUndoHistory`, `ClientKeepsUp` |
| `PartsProofs` | `ReconnectsAreWhole`, `SubscriptionsFollowStripe`, `SecretsFitTheirParams`, `ParamsFitTheirVersion`, `ChildrenAreHeardOut`, `VisitorsGetTheirCopy`, `ChosenFileExists` |

None of these properties is inductive.  Each proof has an invariant that is (`Typing`
and `Invariance`, or `…Invariance`), one lemma per action or group of actions that
keeps it, and a lemma that says what follows.  The arguments:

**RenderLock.**  `OneRenderPerWorkflow` says where the tasks are and nothing of the
lock that keeps them apart.  `LockInvariant` relates each lock to the set of tasks that
hold it, which their program counters define:

* a *local* lock contains workflow w exactly when some task of the client is at a
  place where it holds it, and then one only (`LocalInv`);
* an *advisory* lock of w is held by at most one live session, once at most, and
  exactly when a task of that client is at such a place (`RemoteInv`);
* `Coherent` relates `pc` and `trans`, so that B cannot be at a place of A.

`LocalInv` and `RemoteInv` are stated for *any* lock and *any* predicate "holds", so
their lemmas (`LocalKept`, `LocalAcquired`, `LocalReleased`, …) are proved once and used
for the stall and the render lock.  Sessions that were lost hold nothing on the server,
whatever their tasks believe; so the remote relation is claimed of live sessions only,
and that is why the properties are.  `Tasks` and `Clients` may be infinite: the counts
are shown to be cardinalities of sets with at most one element.

From the same invariant follows the refinement of `RenderPhases` (`Refinement`): a step
takes its task from phase to phase as `RenderPhases` allows, or stutters, and the end of
a session is its `LoseSession` or `Restart`.  `NoDeadlock` has the hypothesis
`OneTaskPerClient`: `renderer/main.py` takes one message at a time.  Without it the
property is false (section 6), and `render_lock`'s instance is not `NoSessionDeadlock`'s.

**RenderQueue.**  One actor at a time is in the lock (`LockInv`), each place in the
handler has its place in the lock's life (`PlaceInv`), and so one renderer writes to the
cache.  What it remembers of the steps is true of the delta that its message names,
wherever users have gone since (`MemoryInv`), for a delta's id is never used again and
the deltas before it never change (`ChainInv`).  So a renderer that reaches the end has
made every step fresh as of that delta; and as long as a step is stale there is a
message, or a renderer that will publish one (`QueuedInv`).

**RenderCache.**  The step that is being saved has no file while its row and file differ
(`SavingInv`), so a row and a file of one name are of one result (`MatchInv`).  The rows
before the step a renderer is at stay of the deltas that it began with: it alone writes
rows, and it gives up at a step that has another delta (`DoneInv`).

**FetchedVersions.**  While no two fetchers overlap, the one at work has the newest
version (`OneAtWork`), which `find_deletable_ids()` never returns; so it is stored from
the transaction that saves it to the one that selects it (`NewIsStored`), and then until
another is stored, which will be selected in turn.

**TabHistory.**  Whoever races, the deltas are one chain of ascending ids, each about a
tab that is there (`Inv`).  As long as nobody races, they tell a *story* (`Story`): each
takes an order of tabs to another and takes up where the one before ended, and no tab is
seen again that was added or deleted for good.  The row of each tab that a delta may
bring back has kept the position to come back to (`Fits`), since nobody moves a deleted
tab.  Hence `forward()` and `backward()` make of the rows the order that the story has
(`InOrder`), a purge takes only what the story has forgotten, and every step is one of
`UndoHistory`'s or a stutter.

**StepHistory.**  The story is of whole documents: D[0], D[1] …, such that `forward()`
of the k-th delta makes D[k] of D[k - 1], and `backward()` D[k - 1] of D[k] (`Tells`).
What the tables hold is the document at the place of the last delta, but for results and
what is selected, on which nothing else depends (`HasStory`, `Same`).  Three things make it
inductive.  A handler that finds its precondition met makes a delta that *goes there and
back* (`ThereAndBack`): here is the arithmetic of positions, and here its `amend_` method
must have kept the right old values.  A step of AddStep does not come back quite as it
was, as `backward()` leaves it the delta's id, so the story has it with that id from the
start.  And AddStep and DuplicateTab insert rows before `forward()`, so the whole past
gets them, unseen (`Grown`).  Hence positions stay 0, 1, 2 …; undo and redo show what
there was, which is `UndoHistory`; and a step that is stale after a command, and was not,
is one whose delta the command set, so that `ModifiesRenderOutput` holds and a render is
queued.

That fresh results are *true* (`FreshResultsAreTrueOtherwise`) takes more.  Undo gives a
step an older delta back, and with it may make an old result fresh; so the document of
today does not say enough.  `TruthInv` looks at the whole story: a step with the same
delta has the same output in each of its documents, and a result that is kept for a delta
is the output wherever the step has that delta (`IsTrue`).  A render keeps it so, and so
does a command, since the steps that it does not name are out of its reach: neither they
nor what they read, nor what that reads, nor what is before it, is touched, and no tab is
in another cycle than before (`Touches`, `OutputsGo`).  That `affected` is computed before
`forward()`, of which the comment in `util.py` says "I haven't proved anything", is
settled here, command by command (`WritesTruth`, `WritesConsistent`).  Outputs are
computed by recursion, down steps and the tabs they read.  The step that makes this
provable is `MirrorsTell`: if the steps of two documents can be paired such that all that
a step's output is computed from is the same or paired, then paired steps have the same
output, for of the steps at which it fails one comes first.  DeleteTab names no step, and
keeps the invariant only if nobody reads the tab: that is the exception `dangled`, and
the finding of section 6.

**ReportHistory.**  A table of blocks is placed if no two have one position.  Rows that
move by one from the outside in keep that at each row (`GapMade`, `GapRemoved`), which is
what Postgres asks for; closing a gap and opening it again gives the table back
(`ShutOpened`, `OpenedShut`), and so do, row by row, DeleteStep, DeleteTab and their undo
(`BlocksDeleted`, `BlocksReturned`).  Two workflows are alike (`Like`) if they differ in
positions at most.  A command *goes* from one workflow to another if `forward()`, from
whatever is like the first, is not refused and leads to what is like the second; it
*returns* if `backward()` does so the other way; and it is *exact* if it leads to these
very workflows.  All commands go and return, and all are exact but ReorderBlocks when it
closes a gap.  So the deltas tell a story of workflows, and the one there is now is like
a place in it, and is that very place while no gap was closed (`Inv`).  Nothing weaker is
inductive: that blocks are sound, or that nothing was refused yet, does not say what undo
and redo will meet.  What the recursive functions do row by row is proved with `UpTo`, an
induction up to a bound that rests on finite sets alone.

**ClientSync** (in `ReportHistoryProofs`).  `ClientKeepsUp` excuses a page that lags, so
it says nothing of an update that is still to come.  The invariant (`IsCurrent`) says
what the page knows (`KnowsTabs`, `KnowsReport`), or *will* know once the update that is
held back arrives.  It is kept because a command touches what its delta names and
nothing else, there and back (`Touches`), and an update tells of all of that: which is
so of a delta's command whether it is done, undone or redone (`UpdateTells`).  The
updates that list no blocks are those of commands that leave each block where it is
(`UnlistedInPlace`).  A browser changes nothing the server has, so each behaviour with
one is a behaviour of `ReportHistory` (`ClientsOnlyLookOn`) and has its invariant.

**The small parts** (`PartsProofs`; `Parts` instantiates them, with their properties):

* `BrokerConnection`: a connection is open only while the monitor watches it; its queues
  and consumers are there as long as it is.
* `Subscriptions`: only the lock's holder makes a customer; the newest that Stripe has is
  told or in an event, so with no event left what was told is the newest.
* `Secrets`: the session's login is the last that began, and an earlier one still open
  was crossed by it; a fetch loads a parameter's kind and value together.
* `ModuleVersions`: a version gets its row when its file is there; what is migrated for a
  version is that version's; every write of params or cache leaves the cache right but
  embed's, which knows.
* `ModuleProcess`: what has left a pipe is what its reader has got, up to the limit.  A
  child blocked on a full pipe has not closed it, so its reader has something to read and
  time does not run out.
* `WorkflowCopies`: workflows end once and keys come once, so what a request has found
  out stays true while others move; the index admits one copy of an example by owner.
* `Uploads`: an upload whose row is made is the newest and never too many itself, and the
  newest stays until a newer comes; the parameter is the newest, or a hook has yet to
  make it so.

**Assumptions** are on constants only, named, and stated in the modules that declare these.
Bounds are natural numbers; a task has a client, and `NoTask` is none; cron is no renderer;
there is a workflow, a step, a tab to begin with (`create_and_init` adds one), and no more
tabs than there may be; the first steps are each in one tab, once, and read tabs that are
there; the report's tabs are a list without repetitions, and its steps finitely many
numbers; a pipe keeps at least a byte; 0, which is NULL, is nobody's checkout, and a
subscription is something before it ends; a module version's parameters are of the kinds
that there are.  TLC evaluates each on its run.

**Not proved.**

* Liveness under fairness (`CallsReturn`, `QueuedRenderGetsDone`, `QueueDrains`,
  `BusyEnds`, `DownloadsWorkInTheEnd`) is out of the provers' reach, and anything with
  ENABLED.
* So is what definitions that recur over nested data compute (`UpTo` and `MirrorsTell` manage
  with a bound, or with what comes first).
  `ParamTypes`, `ModuleSpecs`, `CleanParams`, `ModuleWire`, `ModuleResults` and `StepParams`
  are about nested data; `ParamsAreCleanOrFixable`, `RendersBeginKnowingTheirTabs` and
  `ResultsSurviveTheirWay` are TLC's.
* `StepHistory`'s `TypeOK` is TLC's; the proofs rest on an invariant of their own
  (`Inv`), which has what they need of the types.
* `PendingMutations`: see the plan.

## 6. Where the code departs from its documentation

Two runs end in a counterexample; `PROJECT.json`, "findings", quotes the lines.

1. **The readers of a deleted tab stay fresh.**  DeleteTab gives no step another
   `last_relevant_delta_id`, so the cached result of a step that reads the tab goes
   on passing for fresh, though a render would now give an error.
2. **A fetcher does not always have the last word.**  It skips the message of a
   deleted step and leaves `is_busy`; when the deletion is undone, the step is busy
   and no message is left to end it.

The other models name such cases as exceptions, so that the rest of what the code
promises can be checked.  Met while modelling, by part:

**Render lock, queue, commands** (`broken`, `raced`, `failed`, `Wedged`).
* A message whose handler died of a database error is gone: `renderer/main.py:20`
  counts on RabbitMQ to give it to someone else, `rabbitmq/__init__.py:69` has acked it.
* cron can swallow a render: a renderer that is refused the lock drops its message,
  trusting the holder to requeue (`render.py:130`); `queue_fetches()` does not.
* A session lost inside `stall_others()` hangs the task: the `finally` at
  `pg_render_locker.py:317` waits for the local lock the task holds.
* With several tasks in one client, which the docstring allows ("It can lock multiple
  workflows at once"), two clients can wait for each other.
* Two racing DeleteTabs both take effect (`delete_tab.py:104` looks at an
  `is_deleted` that was read before the lock was taken).
* AddBlock's position is not checked (`handlers/report.py:50`, `add_block.py:69`).  Past
  the end it leaves a gap, which ReorderBlocks closes for good: its undo, too, numbers
  blocks 0, 1, 2 …, so an older AddBlock that is done again after it may put its block
  elsewhere (`closed`).
* A note set on a step of a tab just deleted leaves a delta that protects the step
  from the purge of its tab: the clean-up fails for good (`workflow.py:464`).
* `embed.py` reads and saves a step without the lock, though `params.py:20` says "Call
  this within a `Workflow.cooperative_lock()`".

**Render cache.**  A step rendered again for the same delta and killed between put and
commit leaves another result's file under the row's key.  A reader may combine an old
row with a newer file.  A download of a step that ended in an error answers 503 and
queues renders for ever (`DownloadsWorkInTheEnd` excepts it).  The files of purged
steps and of deleted workflows stay.

**Fetcher, uploads.**  "The user can delete all leaked files by deleting the Step"
(`tusd_hooks.py`), but a purge goes by QuerySet.delete() and leaves S3 alone.  A crash
after S3's removal leaves rows without a file.  Two uploads that finish together may
set the parameter in either order.

**Connection.**  An error while consumers are started reaches `logger.exception()`
without an argument (`connection.py:137`): the TypeError ends the task, though the
docstring promises to "reconnect forever".  Nobody awaits that task, so publishers,
close() and wait_closed() then wait for ever.  A process that consumes no queue may
publish to one that is not declared, and the message is lost though confirmed.

**Parameters.**  `coerce()` "cannot raise", and raises TypeError for a list where an
enum or a timezone is expected, and for conditions with unhashable names.  An "and" of
two levels is valid and makes cleaning raise KeyError.  A column's `tab_parameter`
inside a list, or in a `param_schema`, is not checked.  A map's cleaning stops at its
first error.  Quick fixes do not help with columns of another tab.  A menu whose
default is bad in a list, or that begins with a separator, is a valid specification
that has no schema (`WildMenu`).  So is an explicit `param_schema` that has a property
its type does not know, an enum whose default is not among its choices, or a list
without `inner_dtype` (the YAML schema has "requred" for that): nothing parses it at
import, and every command and render of such a step raises (`WildSchema`). 
DependencyGraph leaves out tabs in lists of a `param_schema`.  Of all other tab
parameters it reads what `migrate_params()` gave, where the renderer coerces: a
ModuleError or ValueError comes out of the command that asks ("we don't handle that
right now", `workflow.py:614-617`; `GraphRaises`), and nothing is said of what such a
graph would know.  The fetcher does not catch a PromptingError.

**Modules, kernel.**  A result's table may have more columns than its metadata.  An
error of `{"error": ""}` passes as an empty text.  Of a `ProcessResult`'s table the
columns that its `columns` do not name are dropped without a word; a `json` of None is
sent as "", and a bool among a message's arguments comes out as an int. 
`__render_arrow()` checks nothing of a module's messages: a source that Workbench does
not know makes `Kernel.render()` raise ValueError, and an unsafe file
ModuleExitedError.  ValueError and IndexError escape Kernel's handlers.  `chroot.py`
raises ModuleExitedError with two of its three arguments.  Importing a module with a
zip again updates nothing (`update_or_create` has no defaults).

**Payments.**  "Stripe is the authority" (`views/stripe.py:22`), but nothing compares
the ages of events: a late one leaves a stale row (`late`).

**Secrets.**  `set_secret` accepts any parameter of a module that has some string
secret (`misplaced`); `prepare_secret_oauth` then raises, though "this function should
recover from all errors" (`secrets.py:36`).  So it does when a service sends as JSON
what is none, or no object: `_refresh_oauth2_token()` catches TimeoutError and
ClientError only (`secrets.py:195-209`), so ValueError or AttributeError ends the
preparation of all secrets, though "an error parsing the server's refresh-token
response" is said to become an "error" (`secrets.py:244`).  `fetch()` does not catch
it, either; the step stays busy. An answer of 200 without a token is passed on as a
token of None.  With two login windows the last flow in the session wins, whatever the
other's parameter is (`crossed`).

**Copies.**  Lessons have no unique index: two first visits at once make two workflows,
and every later visit raises MultipleObjectsReturned (`lessons.py:97`, `twice`).  A
second Duplicate of one user meets the unique index, a 500.  `workflows.py:146`, "we
can assume our original query will succeed", fails when the copy was deleted meanwhile.
A login cycles the session's key and so loses the anonymous copy.
`expiredsessiondeleter.py:37`, "TODO fix race here", seems to be no race: the keys are a
subquery of the same statement.

**Browser.**
* A change that changes nothing (a text saved as it was) is pending for ever: the
  command returns None and sends no update, and `mutations.js` waits for one ("there
  may be a delta the client has yet to receive").  The next change of that text is
  hidden by it as soon as it is confirmed.
* So is what was under way when the connection was lost: its promises are never
  rejected.  If the block was added all the same, the page shows it twice.
* `willReorder()` compares `oldSlugs.splice()` and `newSlugs.splice()`, two empty
  arrays, where StepList's copy of it has `slice()`: an order of blocks some of which
  are gone is applied, and `selectCustomReport()` throws.  "Any update that throws an
  error will not be applied" (`selectOptimisticState.js:6`), but nothing catches it.
* On connecting the list of blocks is sent and the blocks are not: a page that was away
  when one was added throws likewise.

## 7. What is not modelled

* *Render lock:* `command_timeout` (30 s) of a blocked statement; cancellation.
* *Renderer:* what a module computes; the order of several tabs
  (`partition_ready_and_dependent()`); emails about new output.
* *RabbitMQ:* how messages are packed; more than one outage at a time.
* *Commands:* titles; handlers that set one column that nothing reads again; the legacy
  InitWorkflow delta.  After a race two tabs may have one position; Postgres may then
  show them in any order, and the model takes the lower id first.
* *Fetcher:* the input of a fetch, which is the render cache's; when the next update is
  due; the autofetch quota, a sum over one user's steps.
* *Uploads:* the tus protocol, which is tusd's.
* *Parameters:* the syntax of YAML, JSON and zips; numbers but for what bounds compare;
  the text of messages; a default that an explicit `param_schema` gives a list, dict or
  map; modules that replace `migrate_params_thrift()` itself.
* *Kernel:* sandboxes, forks and file systems, which are the operating system's.
* *Browser:* React components; the changes of tabs and steps that
  `workflow-reducer.js` makes at once; mutations of a tab's steps, which go through
  the same functions as the report's.  Requests of one connection are served in order,
  and what has arrived is served before the connection's loss is noticed.
* *Whole parts:* sign-up, profiles and other pages; reading tables and values; lessons'
  texts; translations; build and deployment.  The reasons are with each component in
  `PROJECT.json`.

## 8. The plan

All modules of the plan exist, and what is proved is above.  Of what is left to TLC,
`PendingMutations` is not to be expected of the provers: its property compares folds of
updates in two orders, an induction over data.
