# TLA+ verification of Yadinassi

Yadinassi is an implementation of the 1C:Enterprise language in Python.  Most
of it is a sequential interpreter with value types that are compared with
native observations by its own tests.  This project is about the parts that
keep state whose correctness depends on the order of events: the SQLite catalog
backend with its offline migration, the catalog objects that write through it,
the editor that connects a browser to a catalog object, the scheduler of async
routines, what the interpreter saves and restores around calls and handlers,
the object graph of value trees, and the harness that runs the native program
in a container.

## Inventory

| Component (source under `src/yadinassi`) | State | Operations | What is hard | Module |
|---|---|---|---|---|
| SQLite backend (`sqlite_catalog.py`) | one database file: rows with revision and code, `catalog_sequence`, `commit_receipt`; per instance one active view that owns a connection and its locks | `begin_read`, `begin_write`, `create`, `update`, `commit`, `rollback`, `close`, `resolve_write*` | several processes on one file, COMMIT with unknown outcome, failing cleanup, savepoints, numbering | `CatalogStore` |
| Persistence contract (`catalog_backend.py`) | database, operation ids | a transaction takes effect | atomicity, idempotence | `AtomicCatalog` |
| Catalog objects (`catalogs.py`) | edit buffer, revision, operation id, retained intent | `CreateItem`, `GetObject`, member assignment, `Write` | retry after uncertainty, termination in the middle | `CatalogObject` |
| Async scheduler (`async_runtime.py`) | promises, tasks, ready queue, notifications | `start`, await, `resolve`, `reject`, `run_until_idle`, `reset` | reentrancy, adoption chains, budget, reset | `AsyncScheduler` |
| Editor form (`ui/catalog_editor.py`) | form values, object, baseline, `pending_commit`, `pending_refresh`, `save_state` | change, row edits, save, cancel, close | commit succeeded but refresh failed, retry after doubt, changed source, rival writer | `CatalogEditor` |
| Editor session and bridge (`ui/editor_protocol.py`, `ui/local_app.py`, `client.mjs`) | revision, last id, gate, queues of one slot, failed flag | `exchange`, `close` | two renderers, timeout and late answer, close in flight | `EditorTransport` |
| Storage migration (`sqlite_catalog_migration.py`) | version, rows or columns, marker, hot journal; an operator's plan | `prepare_v1`, `migrate_v1`, `resolve_migration` | uncertain commit, crash, two plans, programs not stopped | `CatalogMigration` |
| Storage layout (`sqlite_catalog_layout.py`) | names of tables | `build_layout`, `load_layout` | names that collide after case folding and NFC | `CatalogLayout` |
| Native harness (`scripts/native_1c_*`) | container, docker commands, processes, evidence files, artifact directory | `run_owned`, `run_smoke`, client launches, exit trap, export | commands that die but are carried out, processes that outlive their group, names taken by others | `OwnedContainer`, `NativeSuite`, `ArtifactExport`, `NativeHarness` |
| Interpreter (`runtime.py`) | scopes, side and module context, handled errors, modules | call, `Try`, `Raise`, `Eval`, `Execute`, import | every way out of every nesting restores what it saved | `Interpreter` |
| Value trees (`value_trees.py`, `value_tree_sort.py`) | columns, rows, collections, registry | insert, delete, move, clear, copy, sort | kept, deleted and foreign objects; limits | `ValueTree` |
| Sections, scans and queries (`catalog_sections.py`, `queries.py`) | rows of one object; a cursor in a read view | row edits, paging | budgets, page boundaries | planned as pure operators |
| Other value types, XML, JSON, files, forms, CLI | local | language operations | sequential, no ordering hazard | not modelled |

The parts interact by calls: a routine of the interpreter calls `Write` of a
catalog object, which calls `resolve_write_outcome`, `begin_write`, `create` or
`update`, `commit_outcomes` and `close` of its process's backend.  Processes
interact through the database file alone.  The interpreter runs routines under
the scheduler, which calls them back.  The editor runs in a child process of
the loopback bridge and owns one object.  A migration runs while no program
should use the file.  The native harness is a program of its own, which shares
nothing with the rest but the language it compares.

`PROJECT.json` lists every component, also those left out with the reason, and
under `hazards` what is hard to test, each at its source line.

## Modules

**CatalogStore** models the backend.  `disk` holds the rows (revision, code and
one reference, which stands for all fields and sections) and the sequence;
`committed` and `receipts` are the `commit_receipt` table, an entry standing
for the submitted intent together with the outcome, which is what the receipt
digest binds.  `view[b]` is `backend._active`: `kind` is its class, `dead`
says that it is closed to its caller but retained because its connection did
not close, `image` and `log` are the uncommitted database and the journal of a
write view.  `lock[b]` is what the file holds for the connection.  The actions
are the backend's operations; what SQLite guarantees (locks of journal mode
DELETE, atomic COMMIT, rollback of a dead process) is external.  A failure can
strike in admission (`AdmissionFails`), in the statements of a record
(`RecordFails`), in COMMIT before or after it took effect (`CommitLost`,
`CommitDurable` with a failing close) and in every close (`Retain`).

Two calls open a connection beside the view and without an owner, whatever
`_active` is: the receipt lookup of storage version 4 and the export of the
configuration.  Here they are `LookUp`: it sees the committed database and
changes nothing, but when its close fails the connection is lost with its SHARED
lock (`stray`).  Neither `close` nor another instance in the same process
(`Reopen`) reaches it; it ends with the process or when the interpreter
finalizes it (`StrayEnds`), and until then no COMMIT takes effect.
`LocksAreOwned` is therefore about the connections of `begin_read` and
`begin_write`, which is what `docs/sqlite-catalog-admission-cleanup.md` claims:
it excludes "export/receipt standalone connections" by name.

**AtomicCatalog** is the abstract specification: an operation id that is not
used takes effect in one step, and the rows change exactly as the new receipt
entries say.  `CatalogStore!AtomicSpec` instantiates it with the identity
mapping on `disk`, `committed` and `receipts`.

**CatalogObject** extends the store with detached objects, each with a backend
of its own process.  The steps of `Write` between two calls of the backend are
separate actions, because other processes act between them; inside one process
`Write` is not interrupted.  `Accept` is `_accept_outcome`, `StageFails` and
`CommitUncertain` are the two halves of the except clause, `ProcessEnds` takes
the objects, the view and the locks of a process away, or only the objects when
the host opens its closed backend anew.  A retry asks for its receipt first,
beside whatever view there is, and compares a receipt that it found in a read
view of its own, which needs a free backend (`ResolveFound`, `ResolveAbsent`,
`ResolveFails`).  The host may read, close, export and end its process at any
time that no `Write` is on its way.  `told` records what `Write` reported.

**AsyncScheduler** models the scheduler.  A task is named by its promise; the
frames in execution form `stack`, because a routine may start tasks and settle
signals while it runs.  A settlement queues its listeners, and `Notify` drains
them before anything else happens, which is how `_settle` avoids recursion.
`mode` says whether the host, `run_until_idle` or `reset` drives.  An outcome
names the promise that produced it, so that the properties can tell whose
outcome was delivered.  Execution contexts are left out.

**EditorTransport** follows an editor event from the renderer to the session
and back.  `pages` are the `EditorClient`s of the browser; `calls` are their
requests, and the `phase` of a call is the place of its handler thread in
`do_POST` and `RuntimeBridge.exchange`.  `bridge` holds the fields of the
bridge, `wire` its two queues of one slot and the two pipes, `worker` is the
pipe thread, `child` the `CatalogEditorSession` with its process, and `server`
is where `main` and `close()` are.  Each place where a thread can be overtaken
is a step of its own: the gate, the checks, the put, the wait, and the three
steps of `close()`.  The session answers in one step, because its process has
one thread; `ChildExits` can take an answer back that was not yet flushed.
What an event does to the form is left out: it succeeds or fails, and its
snapshot can be taken or not.  Lines carry the number of their call, which is
not on the wire, so that the properties can tell whose answer arrived.

**CatalogEditor** is the application with at most one card.  `history` holds
the contents of the record by revision, `receipts` what was committed and what
the form showed at the time.  The store and `Write` are abstracted to their
outcomes: `SaveCommits`, `SaveResolves`, `SaveUncertain`, `SaveFails`,
`SaveRefused` and `SaveRaises` are the ways out of `_save`, and the
authoritative read that follows a commit is a step of its own
(`SaveRefreshes`, `RefreshFails`), because a rival may write in between.
A Save is in three steps for the same reason.  `SavePrepares` runs the handlers
and verifies the source for the last time; then `Write` of the object ends in
one of the ways above, and `begin_write` reads the source once more under the
write lock (`Admitted`), while the lookup of a receipt reads none; then the
refresh.  Between the steps a rival may write, the source may change and the
process may end; the user can do nothing before the event is answered.
`form` selects the handlers that take part: the reviewed autoform or one of the
two imported forms, whose handlers see the values at other moments.

**CatalogLayout** holds the allocation of table names as operators, a name being
a sequence of tokens that stands for its comparison key; **CatalogMigration**
extends it.  An operator prepares a plan, migrates in one exclusive transaction
and resolves a doubt; `disk` is what a recovered file holds, `hot` says that a
dead process left a journal beside it, and `truth` is what the writers wrote.
Every action has its failing outcomes: before COMMIT, in COMMIT with either
effect, in ROLLBACK, in close, and the end of the process.

**OwnedContainer** is `run_owned`: docker commands are requests to a daemon,
which is external; the CLI may die and its request be carried out at once,
later or never.  **NativeSuite** is what runs inside the container: launches
with their process groups, the census of processes, the session bus with its
process number, and the exit trap.  The files of the client are one version
number; that the server outputs are still those of the report is one Boolean.
Which of them are read again differs by mode, as in the code: the exit trap
digests the server outputs always (`build_envelope`), but the client's files
only of the async measurement (`final_async_evidence_check`, and
`async_require_snapshot` between its cases).  The probe and the watchdog read
their markers once, after the census of their launch; a service that the bus
starts later and that is gone before the final census could change these files
unseen, and nothing that the envelope reports would be compared with them again.
**ArtifactExport** fills a private directory, renames it, and takes it back
after a failure, while other programs take or swap the names.  A name may lead
to the exporter's directory or to another's, empty or not.  `os.open` pins what
the private name leads to by then, so `Pin` may adopt a directory that was
swapped in; files are only ever created in it, and the listing that follows
refuses it if it held anything else.  The cleanup looks (`Stat`) and removes by
name (`Remove`) in two steps.
**NativeHarness** composes the three: `run_smoke` and `main` run the suite in a
container and export the artifact; the second entry point drives `run_owned`.

**ValueTree** is the object graph of value trees.  A collection is named by its
owner, a row's cells are the set of their columns.  Every call is made on any
object the program was ever given, deleted ones and those of another tree
included, and under both native targets.  A call that raises changes nothing
and is a call that is not enabled.

**Interpreter** is the dynamic control of the language.  `stack` holds the
constructs being executed (module, routine, try, handler, eval, execute) and
`signal` what travels up through them: an error, a return or a jump.  The
program is arbitrary, so in every state every construct may be entered.  Each
frame carries what the code saves in local variables and restores in its
`finally`; `locals`, `sides`, `contexts`, `diagnostics`, `loading`, `cache` and
`imported` are the fields of the same names.  `LanguageMC` puts the two
language modules side by side, one of them active per behaviour, since they
share no state.

The modules with the suffix `MC` instantiate a specification for TLC; the
operators marked `mutant` are wrong variants of the definition they precede,
with which the property of the same line in `PROJECT.json` must fail.

## Runs

| Run | Question | Bounds |
|---|---|---|
| `store` | Are rows, receipts, numbers, references and locks consistent under every order of two processes' transactions and failures, and is the store an atomic catalog? | 2 backends, 3 operations (interchangeable), 2 records, codes 0..2, revisions up to 2, 2 records per transaction |
| `object` | Does a retained intent find exactly its own outcome, does nothing durable go unnoticed, and is every write in doubt decided once only programs in doubt compete? | 2 objects in 2 processes, 1 record, 1 code, 2 references of which one need not resolve, 3 operations, 1 failure nothing forces |
| `scheduler` | Are wakeups, outcomes and failures neither lost nor doubled? | 3 promises, 2 nested frames, budget 2 |
| `scheduler_live` | Does a task whose await is answered run again? | 2 promises, budget 1 |
| `transport` | Does an event take effect once, on what its page showed, and is each answer its request's own? | 2 pages, 4 requests, no fault but the timeout |
| `transport_faults` | Do bridge and server end in order when something breaks or the limit is reached, and does every request end? | 2 pages, 2 requests, 1 fault, limit 2 |
| `transport_resync` (violation) | Does Resynchronize work while the child lives, as the documentation says? | 3 requests, no fault |
| `editor` | Does a Save in doubt cost nobody a write, is what the form says true, and does a changed source stop every Save? | 3 kinds of form, 3 revisions, 2 operations, 2 values, 2 section contents |
| `editor_lock` (violation) | Does a Save called uncertain always have an intent to resolve? | the same |
| `migration` | Are the records kept, the reports true and doubts resolvable? | 2 operators, 2 records, 2 catalogs, 2 plans, 1 commit of another program |
| `native` | Are reports true, accepted evidence settled, the announced artifact earned, other programs untouched, and does the run end? | 2 exit codes, 2 launches, 2 writes of evidence, 2 files, 2 moves by others |
| `language` | Does a value tree stay sound under every call, and does the interpreter restore what its constructs saved? | 2 trees, 4 rows, 2 columns; 5 nested constructs, 3 modules, 2 errors (trees and errors interchangeable) |

Properties that several parts of the code uphold together are conjunctions of
named parts: `CatalogConsistent` (numbers, codes, references),
`TransactionsAreIsolated` (locks have owners, writers are current),
`OutcomesAreTruthful` (`NothingUnseen`, `AcceptedIsDurable`,
`DurableIsSubmitted`), `OutcomesArrive` (`DeliversWhatWasAwaited`,
`AdoptedOutcome`), `PromisesWaitSoundly` (`AdoptionCompletes`,
`PendingIsExact`), `ExchangesMatch` (`AppliedAsSeen`, `AnswersMatch`,
`OneLateRequest`), `EndsInOrder` (`FailsForCause`, `KnowsItsEvents`,
`StdinClosedQuietly`), `DoubtLosesNothing` (`LockCoversDoubt`,
`SavesLoseNothing`), `ReadyIsEarned` (with `ArtifactIsWhole`),
`StateMatchesFrames` (`ScopesMatchFrames`, `DiagnosticsMatchFrames`) and
`RemovedForGood` (an action property with `InTheTreeOrGone`).

Why the bounds are enough.

- *store*: a conflict needs two writers and a lost update a third transaction
  to show it; two records suffice for a reference, for a code taken by another
  record and for a transaction of several changes; a number that is freed by an
  update and would be given again needs a ceiling of 3 (two numbers) and
  revision 2.
- *object*: an uncertain commit, a change by the other process and the
  resolution need two operations and one failure; a third operation and a
  reference that does not resolve let a program begin and fail beside one in
  doubt again and again.
- *scheduler*: a chain of adoptions whose end closes the circle and a task that
  waits for a chain need three promises; deeper nests add frames but no new
  pair of neighbours.
- *transport*: a stale event needs two pages that have both opened and two
  events, four requests.  A fault strikes a request in each of its phases; the
  second request is the one that must survive it or be refused.
- *editor*: a Save in doubt, a rival's write and the retry reach revision 3 with
  two operations; two values tell the stored one from the edited one.
- *migration*: two plans and two operators let one migrate while the other is in
  doubt; one foreign commit makes a plan stale; two catalogs of the same name,
  which is also a table of the database, exhaust the suffixes.
- *native*: two launches show what the first leaves to the second, two writes
  one before and one after the census of a launch, two files half an artifact,
  two moves a name taken and given back, or a directory adopted and another
  swapped in between the last look and the removal.
- *language*: `ErrorInfo` inside an `Eval` inside a handler of a nested try needs
  five constructs; the copy of a parent with its child needs four rows.

The bounds are constants.  Some exist in the code as well, scaled down here:
`MaxRevision` (2^63-1), `MaxRows` of the store (`_MAX_ROWS`), `Ceiling`
(`10 ** code_length`), `Limit` (4096), the suffixes of `CatalogLayout`,
`MaxRows`, `MaxColumns`, `MaxCells` and `MaxDepth` of `ValueTree`, and
`MaxEval` and `MaxExecute` of `Interpreter`.  The others limit only the checker:
`MaxFaults`, `MaxCalls`, `MaxPromises`, `MaxDepth` of the scheduler, `MaxOps`,
`MaxPlans`, `MaxWrites`, `MaxMoves`, `Cases` and `MaxFrames`.

The runs of the store and the scheduler check for deadlock.  The others do not,
for there the system may stop: the supply of operation ids, requests or plans
ends and the programs are idle, the editor is closed, the native run is over, or
the program of the language has ended.

Two runs show a disagreement.  `transport_resync`: `docs/catalog-editor.md`
tells the user to resynchronize "while the same child is alive".  When a request
takes longer than 30 seconds, `exchange` sets `failed`, which nothing resets;
from then on the bridge refuses every request, although the child lives, has
finished the request and its answer lies in the reply queue.  `editor_lock`: a
retry of an uncertain Save may find that the commit did not take effect and then
fail inside its transaction, for whatever reason (the shortest trace is a create
without any rival).  The object drops its intent, as it should, but
`pending_commit` stays set: the card says "uncertain" with nothing retained.
The documentation says that editing is locked while the object retains its
intent.  If the retry failed because a rival wrote meanwhile, the lock is for
good: every further Save ends in the same conflict, and change, Cancel and Close
refuse.

One weakness of the transport is kept out of `KnowsItsEvents` and not called an
error: when the connection breaks before the handler has entered the bridge,
the page may resynchronize first and the event take effect afterwards.
`AppliedAsSeen` holds even so: a Save that is repeated then is refused as stale.
Likewise `ArtifactIsWhole` excepts an export whose fresh private directory could
not be opened: it is left behind, empty, without a cleanup error.

A comment of the cleanup (`native_1c_full_host.py:2105`) says that it removes
"never a replacement directory reached through a changed visible path".  For the
files this holds, they are unlinked through the pinned descriptor.  But
`os.rmdir` goes by name after the comparison of the inodes: an empty directory
of somebody else that is swapped in between is removed in place of the
exporter's, which stays wherever it was moved, and no cleanup error is reported.
`ArtifactIsWhole` and `OthersKept` except exactly this window
(`moves > export.looked` at the removal); without the exceptions TLC finds it in
the run `native`.

## Fairness

`CatalogObject!Fairness`: a call of `Write` that has begun goes on (nothing in
it waits longer than SQLite's timeout of 0.2 s), and a program whose object is
in doubt calls `Write` again, the only thing the object then admits.
`DoubtEnds` assumes that obstacles cease: retained and lost connections, open
read views (a reader that is always there when COMMIT asks can starve a writer in
SQLite) and closed backends.  It also assumes that programs which are not in
doubt stop taking the write lock (`Competing`).  Without that it is false of the
code: nothing queues for the lock, and a program that begins and fails, again
and again, can hold it whenever another's `BEGIN IMMEDIATE` gives up after its
0.2 s; weak fairness of the retry does not help where each retry is answered
"busy".  What is left is the question the code can be asked: programs in doubt
take the lock only after their receipt was found absent, and their retries end,
so none of them waits for another for ever.

`AsyncScheduler!Fairness`: the drain, the pump and the reset are loops; a frame
reaches its end or an await whatever it calls before, which is strong fairness
per depth of the stack (the code says that its budget does not preempt a
routine that never awaits); and the host pumps again and again, as the outer
boundary of `execute` does.

`EditorTransport!Fairness`: the handler threads, the worker and `main` go on
when they can, and a `get` with a timeout ends.  Nothing is assumed of the
renderer, of the child, which may never answer, or of a write to a pipe that
the child does not read.

`NativeHarness!Fairness`: every wait of the host has a deadline, so the host
goes on whatever docker or the container does; nothing is assumed of these.

The editor, the migration and the language have no liveness property: the user,
the operator and the program decide what happens next.

## Proofs

`CatalogObject_proofs` is about the store and its clients.  Its first part
proves of `CatalogStore`, for any set of backends, operations and records and
any ceiling and bounds that satisfy `StoreAssumption`:

- `StoreInvariant`: `StoreInv` is an invariant.  The properties of `disk` alone
  are not inductive, because a commit publishes the image of a write view.
  `WritersAreCurrent` says that this image is the present database plus the
  view's own journal and is as sound together with it as the database; it stays
  true because `LockDiscipline` leaves no second writer.  So the induction
  carries four parts together: the soundness of `disk`, the same for every
  image, the locks that usable views hold, and types.
- `StoreTyped`, `ReceiptsAreExact`, `NumbersAreFresh`, `CodesStayUnique`,
  `ReferencesStayResolved` and from them `CatalogStaysConsistent`;
  `WritersStayCurrent`, `LocksStayOwned` and from them
  `TransactionsStayIsolated`: the invariants that the run `store` checks.
- `ReadsAreSnapshots`: the action property of read views; a usable reader holds
  SHARED, and a commit needs that no other connection holds a lock.
- `StoreImplementsAtomicCatalog`: the refinement.  Only `CommitDurable` maps to
  a step of `AtomicCatalog`; what the step requires is `Current` of the
  committing view.

The argument about numbering rests on two lemmas about `AllocateCode`
(`LeastNatural`, `AllocateCodeFree`): the least free code exists when any is
free, and is not below the counter.

Its second part proves about any number of objects and processes
(`ObjectAssumption`: an object writes through a backend that may write, and what
a buffer can hold is an intent of the store) that every step of an object is a
step of the store or leaves it alone (`ObjectsImplementStore`).  So what is
proved of the store holds for its clients, `ObjectsAreAtomic` among it.
`ObjectInv` adds what an object knows of the file: its operation id is its own,
between the steps of `Write` the view of its process is the one it opened, and
a retained intent is in the receipts, if anywhere, exactly as it was submitted.
`OutcomesStayTruthful` and `ObjectsTyped` follow.

`CatalogMigration_proofs` has two parts.  `BuiltLayoutsLoad` is about
`build_layout` for any catalogs and suffixes: if two catalogs shared a table
there would be a first catalog whose table is taken, and `Allocate` returns a
free one.  The second part is `MigrationInv` for any set of operators (`Nobody`
must not be one of them): plans are distinct and never change, one transaction
holds the file and its image is its plan's, the marker names a plan that nobody
will apply again, and without foreign writes a plan is as current as the file.
`NothingLost` alone is not inductive, since a COMMIT publishes the holder's
image.  `MigrationLosesNothing`, `MigrationReportsTruly`, `DoubtsAreResolvable`
and `LayoutsAreLoadable` follow.

`CatalogEditor_proofs` proves `EditorInv` for any values, contents and numbers of
revisions and operations: receipts match the history, the baseline is what was
stored at the card's revision, an intent in doubt is the one of the card's
operation and of the content held then, a refresh is due for a commit that took
place, what the form shows as saved is stored, and a Save that is on its way has
its operation and, in the autoform, holds what is shown (`SaveIsPrepared`).  From
it `DoubtsLoseNothing` and `FormStaysTruthful`, and the action properties
`NothingIsLeftOpen` and `ChangedSourcesStopSaves`: the check of the form is over
when the write begins, so the latter rests on the check under the lock.

`NativeHarness_proofs` has an invariant for each of the parts, for any number of
cases, writes and moves and any finite set of files.  Of `run_owned`: once `create` has
been answered no request is left that can create.  Of the suite: after the last
census nothing runs that could write, so that what the envelope was accepted for
stays as it was, and the pidfd is the bus's whoever has its
number.  Of the export: a promoted directory was whole, one that was cleaned up
is gone, and between the cleanup's look and its removal the name changes only by
a move of somebody else (`LookedBefore`).  Of the host: a stage is reached only with what the stages before it
earned.  `HarnessInvariant` needs them together, for `run_smoke` uses the answers
of the other three.  `OthersStayUntouched` is an action property.

`EditorTransport_proofs` proves `TransportInv` for any number of pages and
requests, any limit and number of faults.  It follows the one line that is
between the bridge and the session: at most one of the request queue, the
worker, the child's pipes and the reply queue holds it, it carries the number
of the call that holds the gate or of one that timed out, and a bridge that is
usable has no other.  None of the three properties is inductive without it: that an
answer is the request's own (`ExchangesStayMatched`) needs that nothing older is
in a pipe, and this needs that a timeout makes the bridge fail for good.
`SessionStaysInStep` and `EndsStayInOrder` follow as well.

`AsyncScheduler_proofs` proves `SchedulerInv` for any number of promises, any depth
and budget.  It follows the listeners: one stays with the promise it waits for
until that is settled, is then in the queue of notifications, and is called
once.  A wakeup, an adoption and the record of a failure are three uses of this.
That no adoption closes a circle (`NoCircle`) is kept by the test in `_resolve`,
which walks the chain of the adopted promise; `Chain` is the least set closed
under adopting, so that the walk needs no induction.  The theorems are
`WakeupsStaySingle`, `OutcomesKeepArriving`, `PromisesKeepWaitingSoundly`,
`FailuresStayReportedOnce`, `SchedulerStaysTyped` and the action property
`OutcomesStayFinal`.

`Interpreter_proofs` proves `InterpreterInv` for any modules, programs, errors and
limits that satisfy `InterpreterAssumption` (no module is called `server`, and
an error is not one of the other signals).  What the code keeps in one field or
list each construct saves or appends to on entry and restores on the way out;
the invariant says that the present value is what the constructs on the stack make
it.  A scope is where the innermost construct of its interpreter put it, and
each construct saved where it was below (`ScopesSaved`).  The sides, contexts,
handled errors and boundaries list, in stack order, what the constructs that
push to them hold (`SidesTraced`, `DiagnosticsTraced`: the place of a construct
in the list is its `Rank` on the stack).  Imports are nested, each for the one
below it, and the loading paths are theirs (`LoadsAreNested`,
`LoadingIsExact`).  Without the saved values the properties are not inductive,
as leaving a construct shows the one below again.  Every action pushes a
construct, pops one or rewrites the top, and the lemmas about these three
(`ScopesPush`, `ScopesPop`, `ScopesKept` and so on for the other parts) carry
the invariant.  `ImportsAlwaysWhole` and `StateAlwaysMatchesFrames` follow.

`ValueTree_proofs` proves `TreeInv` for any finite sets of trees, rows and
columns and any budget that satisfy `TreeAssumption` (a tree is not a row, the
limits are naturals).  `NeverCorrupt` is what the preflight would find, and it is
not inductive: it says nothing of the objects outside the trees, which a
program keeps and calls, nor of the rows and columns that are unused.  `TreeInv`
says where each object is: a column is active exactly when it is in the list of
its table (`ColumnsSound`), a live row is registered and is an item of the
collection that it names, at its depth, and the collections of a tree hold no
other rows (`RowsPlaced`, `CollectionsSound`), cells are keyed by the columns of
the tree (`CellsSound`), what was deleted or not created holds nothing
(`NothingElse`), and the budget is kept.  The preflight walks the graph down to
the deepest level; a row's depth is the level at which the walk meets it, so the walk
ends before its bound and `Below` is the least set that holds the collection and
is closed under its rows (`BelowFacts`, `BelowIsClosed`).  From this, without induction
over the tree: the walk from the root meets the whole registry (`WholeIsBelow`,
by a missed row of least depth), no row is below itself (`NotBelowItself`), and
what is left after a removal does not lead into what was removed
(`PruneFacts`).  A copy needs that enough unused objects give an injection
(`ClonesFacts`) and that this renames the tree, places, depths and order
included (`CopiesInv`).  The theorems are `TreeInvariant`, `TreesNeverCorrupt`
and the action property `RemovedStaysRemoved`.

Each inductive invariant was checked by TLC on the bounds of its run before it was
proved.  The assumptions are those the modules declare, about constants only,
and TLC evaluates them in every run.

Only model-checked: the liveness properties `DoubtEnds`, `AnsweredTasksRun`,
`ExchangesEnd`, `ServerStops` and `NativeRunEnds` (liveness under fairness needs
ENABLED, which the prover cannot handle).  Every other property of a passing run
is a theorem.

## Plan

Done: the store with its abstract specification and proofs, objects, scheduler,
transport, editor form, layout and migration, native harness, value trees and
the interpreter's dynamic control, with proofs of the safety of all of them.
Left, in this order:

1. Pure operators with reference definitions: page boundaries of
   `_scan_catalog`, section budgets.
2. The server cases of the native harness.

## Not modelled

- Store and objects: field values and their encoding, tabular sections beyond
  "the data of a record", inspection and creation of the file, scans and
  queries, the preparation of objects by their modules (a refusal is
  `StageFails`).
- Editor and transport: choices of references, paging and size limits of the
  snapshot, the limit of 10000 form events, the form of requests (HTTP headers,
  capability, `validate_request`; pages send well-formed requests, the answer to
  another carries no id and makes the bridge fail).
- Migration: the DDL and the section tables; the admission checks of the file
  are one outcome.
- Native harness: what reports, envelopes and markers contain and how they are
  validated (an outcome each), the server cases and the other profiles, a
  container that the daemon creates after `run_smoke` has listed and gone.  Of
  the export: another's directory with the very bytes of the artifact (the last
  look compares digests, not inodes), and programs that publish the private
  directory or write into it.
- Interpreter: values, variables and expressions, copies of parameters across
  sides, redefinition of routines, calls back into a module through a receiver
  such as `ThisObject` (`runtime.py:898`), which run a routine of that module's
  interpreter as an imported call does, a second and later Import statement of
  one file (the code loops over them before the module's body,
  `runtime.py:622`; the model takes one per file), and more than one execution
  context (the tasks are in `AsyncScheduler`, without contexts).
- Value trees: the values of cells and the calls that only read or set them.
- Lexer, parser, the other value types, XML, JSON, files, form simulation,
  configuration import and the command line: sequential functions of their
  input, which the repository's tests compare with native observations.
