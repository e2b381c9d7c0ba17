# Fidan: TLA+ verification project

Fidan is a language implementation in Rust: a compiler front end, an interpreter
with a JIT, two ahead-of-time back ends over one runtime library, a package
manager, an installer of toolchains and a language server.  This project models
the parts of it that interleave, nest, fail half way or survive a crash, checks
them with TLC on small instances, and proves the most important invariants with
TLAPS for every value of the constants.

Paths below are relative to `src/`; `PROJECT.json` maps every definition to the
lines it was translated from.

1. [The system](#1-the-system)
2. [Modules](#2-modules-and-how-they-follow-the-code)
3. [Runs](#3-runs-bounds-and-what-they-show)
4. [Fairness](#4-fairness)
5. [Proofs](#5-proofs)
6. [Disagreements with the
   documentation](#6-where-the-code-and-its-documentation-disagree)
7. [Not modelled](#7-not-modelled)
8. [Plan](#8-plan)

## 1. The system

### Parts and how they interact

A source file goes through lexer, parser, type checker, HIR, MIR and
optimisation passes (`fidan-driver` runs the pipeline).  The MIR is then
interpreted by a `MirMachine` (`fidan-interp`), which compiles hot functions
with Cranelift, or compiled with LLVM or Cranelift against the C ABI of
`fidan-runtime`.  Both ways of running a program share the values of
`fidan-runtime`, `Shared` cells among them, but **each has a task scheduler of
its own**.  A program's imports are found on disk, where `fidan dal` puts
packages; the compiler itself is installed by `fidan self`.  The language server
runs the front end over the texts an editor sends.

| component | state it keeps | operations | what is hard | what makes it correct |
|---|---|---|---|---|
| Interpreter task scheduler (`fidan-interp/mir_interp.rs`) | table of pending tasks, ready queue, the machine's own call stack | `spawn`, `concurrent`, `await`, `std.async.{sleep,ready,gather,waitAny,timeout}` | an await runs *other* tasks on top of the caller; a task's table entry is removed while the task runs and stored again afterwards; polling loops | no task lost, doubled or overtaken; a handle settles once and is handed out once; blocks join everything; no deadlock that programs do not cause |
| Interpreter calls (`mir_interp.rs`, `ffi.rs`) | call counters, table of compiled functions and its flags, errors in two places, snapshots of the globals, one error slot per loop | calls, compilation at the threshold, native dispatch, attempts, `parallel for` | worker machines share the tables; errors cross native frames as a placeholder; workers fail at the same time | one compiler per function; a flagged function is stored; a program cannot tell tiers apart; the first failure is raised |
| Compiled runtime (`fidan-runtime/parallel.rs`, `ffi.rs`) | a scheduler per OS thread, `FidanPending` slots shared by threads | the same as the interpreter, and `parallel` blocks on OS threads | a join empties the slot before the result exists; slots cross threads, scheduler entries do not; combinators that only poll | one holder per result; results of cooperative tasks stay on their thread; no thread outlives its block |
| Shared cells (`fidan-runtime/shared_ref.rs`) | a mutex per cell, a list of held cells per thread | `get`, `set`, `update(callback)`, display | user code runs under the lock, nests, awaits, fails, panics | no lost update, no self-deadlock, guards given back on every path |
| DAL project state (`fidan-cli/src/dal`, `fidan-driver/src/dal.rs`) | `dal.toml`, `dal.lock`, package trees, command shims, operation lock | `dal add`, `dal remove` | several processes, an error or a crash between any two file operations, rollback that fails | imports never see a lock that names a lost tree; the two files stay recoverable; commands never write on stale reads |
| Dependency resolver (`dal/resolver.rs`) | the branch explored: selected versions, demands, features | a backtracking search | constraints of rejected branches, features that grow, locked and yanked versions | a graph only if it answers the problem, none only if nothing does, the preferred one of several |
| Import graph (`fidan-driver/src/import_graph.rs`) | work lists, walk stack, visible names | load, order, check, make visible | a file reached again with more names; cycles | each file once, after its dependencies; visible names are the least fixed point |
| Language server (`fidan-lsp`) | document store with versions, suspended handlers, diagnostics on show | open, change, close, refresh of dependents, background loading | handlers interleave at every `.await`, with texts taken before it | the store holds the editor's latest text; diagnostics are those of the newest sources |
| Installer (`fidan-driver/src/install.rs`, `fidan-cli/src/self_cmd.rs`, `distribution.rs`) | installed versions, `installs.json`, `active-version.json`, `current` pointer, publication locks | list, install, use, remove | several files replaced one after the other, without a common lock; deaths in between | no release is lost to a refresh; the next command repairs what an earlier one left |
| MIR lowering, passes and instructions (`fidan-mir/lower.rs`, `fidan-passes`, `mir_interp.rs`) | the builder's block, variables and open loops; the interpreter's frames, locals and handlers | lower, optimise, run | variables become locals per block, and locals are dropped; an attempt has five ways out; every pass must keep what the others rely on | a program prints, and ends, as its statements say, before and after optimisation |
| Credentials (`dal/config.rs`, `fidan-secrets`) | legacy and scoped keychain entries | login, logout, migration | failures between the steps | a logout is final |
| REPL (`repl.rs`, `mir_interp/api.rs`) | source so far, globals, checker | one input | failing inputs | a failed input leaves no trace |
| Front end, code generators, formatter, standard library, helpers, embedding | none across calls, or one request | pure translation, input and output | size, not interleaving | covered by the repository's tests |

All but the last three rows are modelled here (DAL, the
installer and MIR in part).
They meet in few places: tasks of both schedulers run on the values of
`SharedCell`; a `parallel for` of `JitTiering` runs bodies whose tasks
`MirScheduler` schedules, one machine each; `DalProject` takes the resolver as
any graph that satisfies the roots, which is what `Resolver` is checked to
return; the index of `PackageStore` is what imports resolve against, and the
resolved imports are the programs of `ImportGraph`; the language server runs
that walk over its own sources, which `LspDocuments` keeps as `Imported`.  The
bodies that the schedulers and `JitTiering` leave abstract are the functions that
`MirRun` lowers and interprets.

`PROJECT.json` lists all components with their status, and under `hazards` the
places where something could go wrong that a test would hardly reach, with the
properties that guard them.

## 2. Modules and how they follow the code

```
Promise      <--refines--  MirScheduler       <-- MCMirScheduler       MirSchedulerProofs
OneShot      <--refines--  DeferredScheduler  <-- MCDeferredScheduler  DeferredSchedulerProofs
Calls        <--refines--  JitTiering         <-- MCJitTiering         JitTieringProofs
                           SharedCell         <-- MCSharedCell         JitTieringProofs
PackageStore <--refines--  DalProject         <-- MCDalProject         DalProjectProofs
                           Resolver           <-- MCResolver           ResolverProofs
                           ImportGraph        <-- MCImportGraph        ImportGraphProofs
                           LspDocuments       <-- MCLspDocuments       LspDocumentsProofs
                           Installer          <-- MCInstaller          InstallerProofs
Meaning  <--compared with--  MirRun           <-- MCMirRun
Mir  <-- Lowering, Passes  <-- MirRun
```

The first four on the left are abstract specifications: what a component promises to
whoever uses it.  The modules next to them are translated from the code and
instantiate the abstract one with a refinement mapping.  The others are
compared with definitions of their results instead: a least fixed point, the
graphs that answer a problem, the texts of the editor, the meaning of a program.  `MC...` modules hold
only instances; `...Proofs` modules hold only theorems and what they need.  (The
proofs about `SharedCell` are a section of `JitTieringProofs`; the two modules have
nothing else in common, and `SharedCell`'s specification is `CellsSpec`.)

### MirScheduler: tasks of the interpreter

One OS thread.  `await` does not suspend its caller:
`resolve_pending_with_yield` and `resolve_same_thread_pending` run queued tasks
*on top of the caller's call stack* until the awaited one has a result.  So the
state is a stack of activities, and only the innermost can move.

| variable | code |
|---|---|
| `st`, `result`, `body` | `pending_tasks: FxHashMap<u64, PendingTaskState>`: absent, `Queued`, `Running`, `Ready` and its result; `DeferredTask` |
| `queue`, `next` | `pending_ready`, `next_pending_task_id` |
| `timer` | `FidanPending` of `std.async.sleep` and its deadline |
| `stack` | the nested Rust frames of `run_next_same_thread_task` and of the loops that await: what each is resolving (`on`), in which loop (`op`) |
| `answer` | history: what the last await was told |

| actions | code |
|---|---|
| `Spawn`, `Block`, `Combine`, `Sleep` | `Instr::SpawnExpr`, `Instr::SpawnConcurrent`, `exec_async_op`, `FidanPending::sleep`; all but the last end in `queue_pending_task` |
| `Await`, `CodeEnds` | user code of a task body: awaits any visible handle, then ends, throws or panics |
| `Resolve`, `RunNext`, `GiveUp` | the loop of `resolve_same_thread_pending`: take if ready, else run the next queued task, else panic |
| `Poll`, `TimeoutExpires`, `Idle` | `wait_any_async`, `timeout_async`: look, run one task or sleep, look again |
| `AllResolved`, `Receive`, `Finish` | join and gather go on to the next handle; `await` rethrows; the result is stored |

Bodies are abstract: any sequence of these operations.  Handles may reach any
activity because they can be stored in shared mutable values; handles of a
`concurrent` block cannot, since the MIR lowering never gives them a name.

### DeferredScheduler: tasks and threads of compiled programs

The same language constructs in the AOT runtime, with three differences that
change what holds: each thread has its own queue and stack (thread-local
`DeferredScheduler`), a join **takes the entry out of the `FidanPending` slot
first** and resolves it afterwards (`try_join_exception`), and the `waitAny` and
`timeout` closures only poll and never run a queued task.  `slot` is the
mutex-protected slot of a handle, `entry` what the owner's scheduler knows of
it, `made` what was fixed at creation, `held` marks the activity that has taken
the entry.  `Claim`/`Resolve`/`GiveUp` are the parts of a join, `Parallel` and
the thread's bottom activity are `fdn_spawn_task`/`fdn_join_all`, `Foreign` in
`OneShot` is the error of a cooperative handle on another thread.

`OneShot` differs from `Promise` in exactly one way, and that difference is the
finding on this component: `nothing` may be answered while the result is
still to come.

### SharedCell: `Shared` values

`lock` is the mutex of a cell, `inside` the open callbacks of a thread
(`HELD_SHARED` and the guards on its Rust stack), `want` an access that has
passed the recursion check and is blocked on the mutex.  `Access` is that check,
`Visit` a lock-read-or-write-unlock in one step (get, set), `Enter` and `Leave`
the two ends of a callback, `Panic` an unwinding that drops all guards of the
thread and poisons their mutexes.  A cell's value counts the updates committed
to it; `done` is the history it is compared with.

### JitTiering: calls, tiers, errors and parallel loops

A thread is a stack of open calls (`stack`), each at a place in
`call_function_positional`: `flag` (is it compiled?), `lookup`, `count`,
`compile`, `publish`, and then `interp` or `native`, or waiting in a `loop`.
`counters`, `fns` and `flags` are `jit_counters`, `jit_fns` and `jit_compiled`,
shared by all machines; counting is one step, compiling and publishing are
steps of their own, and anyone may come between them.  An error is in one of
three places: the `Err` given to an interpreted frame (`out`), `jit_signal` of
the machine (`signal`), the pending exception of the thread (`exn`, where a
`Placeholder` stands for what `signal` holds).  `globals` and `frozen` are a
machine's globals and the snapshot it reads while there is one.  `loop` is a
parallel loop: workers to come, its body, the workers that run and the slot for
the first error.  Bodies are any sequence of calls, errors, attempts, writes and
loops.

`Calls` has no tiers: a call begins, ends, fails, an error unwinds through
frames unchanged until an attempt catches it, a write is seen by the next read.

### DalProject: the project state of the package manager

One action per file operation: acquiring the operation lock, reading both files,
installing one tree or the two renames of a forced replacement, the backup copy,
the two writes of `commit_metadata_pair` and its rollback, the command shim, and
deletions tree by tree (a deletion that is interrupted leaves a partial tree).
`Fail`, `SwapFails`, `UndoFails`, `WriteSecondFails`, `RollbackFails`,
`DropBackupFails` are the I/O error of one operation with what the code then
does; `Crash` is the end of the process between two operations, which releases
the lock (an OS file lock).  `seen` and `plan` are what the command read and
what it is going to write.  The resolver is *any* graph that satisfies the
roots, so what is checked does not depend on how it searches.

`PackageStore` is what an import relies on: an index replaced in one step over
trees, never naming one that is not on disk in full.  A tree that a replacement
has moved to its backup directory counts as on disk: that is the strongest claim
the two renames of `archive.rs` allow.  A crash between them does leave a locked
tree out of its place, in the backup directory, until the next successful `add`
(property `AddRepairs`).  The one add that does not make the two files agree, of a
package that the manifest lists as optional, has a name, `AddsOptional` (section 6).

Abstractions: contents of trees are "equal to the registry's archive or not";
`write_atomic` is one step (temporary file and rename); the registry does not
change and does not go down in the middle (a download that fails is the failure
of the step that needs it).  Left out: the global store and its empty roots,
`--into`, features, and leftovers of staging directories.

### Resolver: the search for a package graph

`search` is recursive; its state here is the branch explored (`selected`), what
was computed for it from the roots (`demands`, `expanded`) and the alternatives
of the frames below.  `Pass` is one pass of the loop that expands requirements
until nothing changes, `Choose` takes the first undecided package by name and
orders its versions, `Try` takes the next of them or backtracks, `Found` ends the
search with a graph, if no package of it depends on itself.  A requirement is the set of
versions it matches, and a release its dependencies with its features: parsing of
versions and requirements is left out.  Each optional dependency of a release has
one requirement, whichever feature brings it in, and a feature names only optional
dependencies and features that the manifest has (`validate_feature_member`); what a
feature brings in replaces a plain dependency on the same package.  `Solves` says
what an answer is without any search.  `BranchIsSound`, `NoneIsNone` and
`AnswerIsPreferred` are about graphs whose releases list no package both ways
(`Regular`); section 6 says what happens with the others.  `DalProject` plans with graphs that are closed and meet their
requirements; `Answers` asks for that and, of the part that `DalProject` leaves
out, for features, usable and yanked releases.

### ImportGraph: loading, ordering, checking and visibility

The phases of `load_imported_hirs`.  `Load` takes any file from the work list;
`Visit` takes one frame of the iterative depth-first walk, which keeps frames that
enter a file and frames that leave it on one `stack`; then, file by file in
dependency order and for the entry last, `visible_modules` (`Begin`, `Walk`)
collects which files are shown with which names, and the file is checked against
those (`Walked`).  An empty mask lets every name through, which is why the merge of masks is worth
checking: no name and all names are written alike.

### LspDocuments: what the language server believes

tower-lsp starts the handlers of notifications in order and runs up to four at a
time on one task, so two handlers interleave only where one is suspended.
Between two awaits a handler runs alone: `Start` is a handler up to its first
publication, `Resume` goes on from there to the next.  `refresh_dependents`
copies the texts of all dependents and refreshes them one by one across awaits:
`todo` is that copy.  `store` is the `DocumentStore` with its rule that an
editor's newer text is not replaced by an older one, `shown` is what the editor
shows, with the texts that the analysis has read instead of its messages,
`disk` the files, and `inbox` the notifications under way.  `Lookup` is what
every request may do to the store: load a document from disk.

One assumption is on the editor (`Shows`): diagnostics for an older version than
those on show are not shown.  The server sends the version for that, and relies
on it: a late refresh publishes although the store has refused its text
(`server.rs:549`).  For an editor that shows what comes last,
`DiagnosticsAreCurrent` does not hold: TLC finds a counterexample at once.

### Installer: versions of the compiler

Each command is a process, each file operation a step, and a process may die
between any two.  `tree` is the directories under `versions/` with staging and
backup directories among them, `active`, `recorded` and `pointer` are
`active-version.json`, `installs.json` and `current`.  `Scan` to `Link` are
`load_or_repair_metadata`, `Check` to `EnterRecord` an installation under the
publication lock of one version, `Count` to `Forget` a removal, `Wipe` the shell
that deletes everything after the last version was removed.  `owed` is history:
the releases published and not removed.  `alone` marks commands that nobody has
disturbed since they began: the code locks nothing but a publication, so what
two commands do to each other is bounded only by what holds for all
(`Consistent`), and what a command owes its user is stated for those.

### Mir, Lowering, Passes, MirRun, Meaning: from statements to instructions

`Mir` is the blocks, phis, instructions and terminators of `mir.rs`.  `Lowering`
is `lower.rs`: a builder is threaded through the statements, with the current
block and whether it has its terminator (`cur`, `done`), the local that holds
each variable now (`env`), and every break and continue with the variables it
leaves with (`jumps`), from which loop heads and exits get their phis.
`LowerStmt` ends with the drops of what a statement has left dead
(`DeadLocals`).  `LowerAttempt` is the only construct with handlers: `PushCatch`
around the body, a dispatch block that tests the clauses, a second handler
(`Guard`) for errors of clauses when there is a `finally`.

`Passes` is `run_all` in its order: folding of constants, inlining, folding,
copy propagation, dead code, unreachable blocks; and `RunPreservingCallFrames`,
the same without inlining, for runs that are traced.

`MirRun` takes one program of a set, lowers it (`Lower`), may optimise it in
either way (`Optimise`), and interprets it (`Execute`, then an action per kind of
instruction and terminator).  `Raise` sends an error to the innermost frame with
a handler.  `Meaning` says what the program should do, from the language's
README and tests, hence it is not mapped: an evaluator of statements that knows
neither blocks nor locals.  The lowering of attempts does not follow it in all
cases; `Keeps` says in which it does, and section 6 which losses the others are.

Left out: objects and globals, dictionaries and string interpolation,
comprehensions, `check` as an expression, default parameters, spawns and
parallel loops, types (with the pass `NullableRepresentation`), and declarations
that shadow a variable.

## 3. Runs, bounds and what they show

| run | instance | checks |
|---|---|---|
| `mir_sched` | 2 tasks of all kinds, 1 timer, lists up to 2; 92 500 states, with fairness | `Consistent`, `StartsInOrder`, `OwnTasksNeverDeadlock`, `BlockIsAllOrNothing`, refinement of `Promise` (`KeepsPromises`), `ActivitiesEnd` |
| `deferred_safety` | 3 handles of every kind, on up to 4 threads, lists up to 2; 1 232 000 states | `Consistent`, `CooperativeStaysHome`, `BlockIsAllOrNothing`, `OwnTasksNeverDeadlock`, refinement of `OneShot` (`IsOneShot`) |
| `deferred_gather` | 3 handles | counterexample to `GatherCollectsAll` |
| `jit_tiering` | 3 functions, 3 threads, 4 operations, call depth 3, thresholds 0 and 2; 332 000 states, with fairness | `Consistent`, `FirstErrorIsRaised`, refinement of `Calls` (`ActsAsInterpreter`), `Ends` |
| `shared_cells` | 2 threads, 2 cells, 4 accesses each; 109 000 states, with fairness | `CellsConsistent`, `NoLostUpdate`, `AccessesEnd` |
| `dal_project` | 2 processes, 3 packages in 2 versions, 3 commands of 3 kinds, a hand-written manifest with an optional dependency, 2 faults; 307 000 states, with fairness | `Consistent`, `PairsAgree`, `NoHalfCommit`, `AddRepairs`, refinement of `PackageStore`, `Ends` |
| `resolver` | 3 packages in 2 versions, 1 feature: each of 2 880 ways to fill the registry, 3 sets of roots, 4 locks with and without checksums; 917 000 states, with fairness | `BranchIsSound`, `NoneIsNone`, `AnswerIsPreferred`, `Ends` |
| `import_graph` | every shape of program with 3 files and up to 2 imports each, unreadable and unsound files, and every choice of masks on 5 edges; 662 000 states, with fairness | `WalkIsRight`, `VisibleIsLeast`, `ContractsAreThere`, `Ends` |
| `lsp_documents` | 3 documents in a chain or a circle, 2 suspended handlers, 4 acts of the editor; 220 000 states, with fairness | `Consistent`, `DiagnosticsAreCurrent`, `NeverGoesBack`, `Settles` |
| `installer` | 2 versions, 3 commands, 2 at a time, 1 fault; 2 222 000 states | `Consistent`, `CommandsRepair`, `RemovalIsSafe` |
| `mir_lowering` | 1 983 programs, each lowered, run as it is and optimised in the two ways of `fidan-passes`; 316 000 states | `RunsAsWritten` |
| `mir_finally` | the same programs | counterexample to `FinallyRuns` |

`Consistent` is, in each module, the type invariant together with the named
invariants that relate its variables; the modules state the parts one by one.

* `MirScheduler`: table, queue and stack agree (`QueueIsExact`,
  `RunningIsOnStack`), whoever made a task is below it (`CreatorIsBelow`), no
  combinator polls a task that was never started (`PolledTasksAreStarted`), and a
  task of a `concurrent` block is on the list that its maker is joining
  (`BlocksAreJoined`).
* `DeferredScheduler`: the same for every thread, `OneHolder` of a result, a
  block's list names each of its tasks and threads once and untouched
  (`JoinsAreExact`, `BlocksAreJoined`), and no failure is dropped on the way
  through it (`FailuresAreKept`).
* `JitTiering`: one compiler per function, a flagged function is stored, a hot
  one is not left to the interpreter, a worker runs only while its parent waits.
* `SharedCell` (`CellsConsistent`): held cells are locked, no thread waits for itself, a callback's
  snapshot is current.
* `DalProject`: the lock names no lost tree, and what a command has read stays
  true until it writes.
* `LspDocuments`: a server at rest agrees with its editor (`StoreIsEditors`,
  `ClosedShowNothing`).
* `Installer`: releases survive refreshes, and none stays locked.

`PairsAgree`, `CommandsRepair`, `WalkIsRight`, `BranchIsSound` and
`AnswerIsPreferred` join related properties in the same way.

Why the bounds are enough.

* *Schedulers.*  What is delicate needs an awaiting activity, a task that is
  suspended below it and one that is run in between: three activities, so two
  tasks above the main program for every pairing.  Lists of two handles give a
  combinator and a block a first and a last, a failing and a succeeding member.
  Timers matter only as something that ends without being run; one is enough.
  What the bounds leave open is liveness only: all safety properties of both
  schedulers are proved for any number of tasks and threads.
* *Threads.*  Three handles give two worker threads and one task, or one thread
  and two tasks on either side; a handle passed to a foreign thread needs two.
* *Calls.*  Two workers can reach the threshold, fail or write at the same time.
  Threshold 2 lets a function be called below, at and above it, 0 turns the JIT
  off; one function is compiled in advance and one cannot be compiled, so that
  frames alternate between tiers.  Depth 3 lets an error cross a native frame
  between two interpreted ones, and the limit be reached.
* *Cells.*  Two threads and two cells are the smallest system with a circular
  wait; four accesses let one thread nest both cells, leave, and come back.
* *Packages.*  Package 1 needs 2, and one version of 2 needs 3, so that a new
  version adds and drops a transitive dependency.  Three commands are: one that
  makes a state, one that fails in it and one that meets what was left.  Two
  faults are a failure and the failure of its rollback, or a crash of each of
  two commands.  The safety properties are proved for any registry and any number
  of commands, processes and faults.
* *Resolver.*  Three packages are a root, a package whose versions differ, and
  one that two others constrain: conflicts, cycles, a feature that is asked for
  after its package was expanded, features that bring in a dependency, replace one
  or are their own part, and backtracking over two levels.  The safety properties
  are proved for any packages, features and lock files, and any finite number of
  versions.
* *Files.*  Three files have every kind of graph a walk can get wrong: chains,
  diamonds, cycles through the entry and not, several files in one cycle.
  The safety properties are proved for any files and programs.
* *Editor.*  Three documents have a direct and an indirect dependent; four acts
  are a close, a reopening and a change around one suspended handler, and two
  suspended handlers of the four that the server allows are enough for each to
  overtake the other.  Agreement with the editor is proved for any documents,
  edits and handlers.
* *Installer.*  One fault is a death in the middle of one command; the second
  runs next to it and the third meets what they have left.  The properties are
  proved for any number of versions, commands and faults.
* *Programs.*  Two variables are printed at the end, each assigned from the
  other, so that a value lost at a join or dropped early is seen.  Between
  are one or two constructs of every kind, nested, around blocks that do
  nothing, assign, exchange the variables, leave the loop or the function, fail,
  or hold an attempt.  Loops turn at least twice, so a stale phi is read.  Each
  conjunct of `Keeps` is needed: without any of them the run finds a
  program that `RunsAsWritten` does not hold for.

The `Max...` constants are the only bounds; each is a guard on creating something
and none stops what was created.  `MaxDecisions` and `MaxDepth` are the code's
own limits, made small: reaching one is an outcome that the code has.

Deadlock is checked for the schedulers, `jit_tiering` and `mir_lowering`: one that
can neither move nor sleep and look again before the program has ended would be
reported (`Idle`, `PollsOn`, `Terminated` and `Finished` are the steps that may
change nothing).  It is not checked for `shared_cells`, where a program that nests two
cells in opposite orders really blocks for ever (the README says: use a
consistent lock order), nor for the others, which stop when the work is done, no
command is left or the editor has nothing more to do.

Every checked property is broken by at least one small mutation of a mapped
definition (`PROJECT.json`, `mutants`): a dropped lock, a queue entered at the
wrong end, a join that stops at the first failure, a rollback that is forgotten.

## 4. Fairness

* `MirScheduler`: the one thread keeps running (`WF` on what the scheduler
  does), deadlines pass (`WF(TimerFires)`), and a user body that is scheduled
  again and again ends (`SF(CodeEnds)`).  The last is an assumption on programs,
  not on the runtime: a body that spawns and awaits for ever is not the
  scheduler's fault.  Strong fairness is needed because a body is disabled
  whenever it awaits.
  `ActivitiesEnd` is claimed **only while nobody polls** (`[]NobodyPolls => ...`):
  with a polling combinator it is false, see section 6.
* `DeferredScheduler`: no liveness is claimed.  The instance creates boundedly
  many handles, deadlock is checked, and `OwnTasksNeverDeadlock` says that nobody
  is refused a task of its own.
* `MirRun`: none; the programs end, and a run that could not go on would be a
  deadlock.
* `JitTiering`: each thread keeps running.  Programs have finitely many
  operations (`MaxOps`), so nothing is assumed of them.
* `SharedCell`: a thread gets a lock that *stays* free, weak fairness, which is
  all a mutex without queueing promises; callbacks end.  `AccessesEnd` assumes
  in addition that accesses nest in one order.
* `DalProject`: each process goes on to its next file operation.  Nothing is
  assumed about crashes and errors.  A crash gives the operation lock back
  because the operating system drops a file lock with its process.  Commands are
  finitely many (`MaxOps`), so that waiting for the lock cannot starve.
* `Resolver`, `ImportGraph`: sequential code keeps running (`WF_vars(Next)`); that
  it ends is a matter of its loops alone.
* `LspDocuments`: the server starts a handler that may start and lets some
  suspended handler go on; nothing is assumed of the editor.  A publication is a
  message to a client that reads its input, so it does not block for ever.
* `Installer`: no liveness is claimed; a command that dies is simply gone.

## 5. Proofs

TLAPS checks these from the assumptions on the constants that the modules state;
they hold for any number of tasks, threads, cells, packages, processes, commands
and faults, and for any files, names and programs.

**MirSchedulerProofs** (from `BoundsAssumption` and `KindsAssumption`).
`Invariance` (`Consistent`), the action properties `FifoStart` (`StartsInOrder`),
`OwnTasksSafe` (`OwnTasksNeverDeadlock`) and `BlocksAreStructured`
(`BlockIsAllOrNothing`), and the refinement `HandlesArePromises`
(`KeepsPromises`).  The inductive invariant is

    InOrder == TypeOK /\ QueueIsExact /\ RunningIsOnStack /\ CreatorIsBelow
               /\ PolledTasksAreStarted /\ HistoryIsOrdered
    Consistent == InOrder /\ BlocksAreJoined

The parts of `InOrder` lean on one another.  That the queue is sorted and holds the
queued tasks makes the head of the queue the oldest task; with the history
(arguments are older than their combinator) a combinator that starts finds
nothing queued in its list, which is `PolledTasksAreStarted`; a task's creator
is running when it makes it, and what is started goes on top, which is
`CreatorIsBelow`; a scheduler that gives up found the task running, hence by
`RunningIsOnStack` below, while the asker is on top: so the asker cannot be the
creator, which is `OwnTasksNeverDeadlock`.  `BlocksAreJoined` is proved on top of
`InOrder`: what a block makes is hidden from every other activity, so only the join
that lists it can take its result, and what is no longer on the list was received.

Steps are grouped by what they do to the invariant: steps that make tasks
(`NewTasks`), that start one (`RunNextStep`), that end one (`FinishStep`), and
quiet ones (`QuietStep`), which may take a ready result away but leave the queue
and the order of the stack alone.  The refinement maps each entry of the task
table to a promise (`Promises == [h \in Handles |-> PromiseOf(h)]`); only making,
finishing, receiving and the timer are steps of `Promise`.

**DeferredSchedulerProofs** (from the assumptions of the same names).
`DeferredIsConsistent` (`Consistent`), `ResultsStayHome`
(`CooperativeStaysHome`), `NobodyIsRefusedItsOwn` (`OwnTasksNeverDeadlock`),
`BlocksAreStructured` (`BlockIsAllOrNothing`) and `HandlesAreOneShot`, the
refinement of `OneShot`.

    Consistent == TypeOK /\ QueueIsExact /\ RunningIsOnStack /\ CreatorIsBelow
                  /\ OneHolder /\ JoinsAreExact /\ BlocksAreJoined
                  /\ FailuresAreKept /\ PolledTasksAreStarted /\ HistoryIsOrdered

One stack, queue and scheduler per thread; only slots are shared.  Here a join
takes the right to a result before it has the result, so the argument is about
that right: `OneHolder` says that one activity at most has it, and that the slot
is empty and the entry still there meanwhile, so nobody answers for it but the
holder.  `JoinsAreExact` keeps the members of a block untouched until their turn,
which gives `BlocksAreJoined` its induction, and `FailuresAreKept` says that an
activity which has met no failure has taken none, so that a block which goes on
has none.  A cooperative handle is taken only after `validate_pending_thread`, so
its holder is on its own thread: `ResultsStayHome`.  The refinement settles a
computation when its code or its thread ends (`SettledAs`), gives the right to it
to the first join that claims it (`RightTo`), and answers when the right or a
`nothing` reaches the asker (`LastAnswer`).

**JitTieringProofs** (from `JitAssumption` and `NoErrorAssumption`).
`MachinesAreConsistent` (`Consistent`) and `LoopsRaiseTheFirst`
(`FirstErrorIsRaised`), from

    IInv == TypeOK /\ TierInv /\ ErrInv /\ LoopInv

`TierInv` is about the shared tables: below its threshold a function is neither
flagged nor being compiled (`Early`), so the increment that reaches the threshold
finds no other compiler, and who is about to flag a function has stored it.  `ErrInv` says which of the three places an error can be in:
the machine keeps one exactly while the thread has the placeholder, an
interpreted frame that is given one has none pending, and a pending exception is
the concern of a native frame on top.  `LoopInv` says that a running worker has one parent, which
waits in a loop, that workers that have ended have nothing open, and that the
slot is the first of the failures of the loop's own workers.  Steps are grouped
by what they do to a stack (push, pop, move on, stay); a lemma per group says
what else stays true, and the step lemmas add the tables and the errors.

Last comes `TiersImplementCalls`: `Spec =>
ActsAsInterpreter`, the refinement of `Calls`.  Places are forgotten and the
three places of an error become one, so most steps stutter; the invariant is
needed where an error changes its place, since it must not meet another.

Its second section is about **SharedCell** (from `ConstantsAssumption`).
`CellsAreConsistent` (`CellsConsistent`) and `UpdatesAreAtomic` (`NoLostUpdate`):
the invariants of the run are, together, inductive.  An open callback's snapshot is
current because its cell is locked by its thread and only the holder commits; that
no one holds a cell twice is what makes the commit of an inner callback harmless to
an outer one.  There is one lemma per action.

**DalProjectProofs** (from the assumptions of `DalProject`).
`ProjectIsConsistent` (`Consistent`), `ProjectIsAStore` (`Spec =>
StoreRefined`, the whole refinement), and about the pair of files
`PairsAreRecoverable` (`PairsAgree`), `NothingIsHalfCommitted` (`NoHalfCommit`)
and `AddsRepair` (`AddRepairs`).

    IInv == TypeOK /\ Exclusive /\ (\A p \in Proc : WorkAt(p)) /\ LockHeld

`Exclusive` says that whoever is past the lock holds it.  `WorkAt(p)` says, for
each program counter, what the command knows: what it read is still on disk
until its commit, the trees of its plan that are no longer on its list are
verified, the tree that a replacement has moved away is absent from its place,
and what it is going to delete is not named by the lock it has written. `Effect`
classifies every step as one of the four steps of `PackageStore` (stutter,
fetch, discard, publish); `Kept` says that a step has an effect and keeps
exclusion and work, and is proved once for each action.  `LockHeld` follows from
the effects alone, which is why it is not part of the case analysis.

The pair needs an invariant of its own, `MInv`, on top of `IInv`: outside the two
writes of a commit and its rollback the lock covers the manifest, or the backup
directory keeps a manifest that it covers (`Recoverable`); and what a command is
going to write covers itself and agrees, but for what `PlansAgree` exempts
(`GoodPlan`, `MetaAt`).  That a plan is good is a fact about the algorithms that make
it, proved as lemmas about the model's operators: a pruned lock is closed under the
requirements of what it keeps (`PruneCloses`), hence `RemovePlan`; a graph that
satisfies the roots covers the manifest that lists them, hence `AddPlan`.  Steps
are outside the pair, or they end a command, read, or work on it (`StepKinds`).

**ImportGraphProofs** (from `EntryIsNoModule`, `ProgramsAssumption` and
`NamesAssumption`).  `WalkAlwaysRight` (`WalkIsRight`), `VisibleAlwaysLeast`
(`VisibleIsLeast`) and `ContractsAlwaysThere` (`ContractsAreThere`), for any finite
or infinite set of files and every program, from

    IInv == TypeOK /\ LoadInv /\ WalkInv /\ CheckInv /\ VisibleInv

one part per phase.  `LoadInv`: what is loaded or queued is in every set of files
that holds the entry's imports and what its loaded members import, so when the queue
is empty the graph is what the entry leads to.  `WalkInv` is about the stack.  Its
leaving frames are the files being visited, and every frame is for an import of the
nearest leaving frame below (`Path`): a file that is met again while it is visited
closes a cycle.  What a visited file imports is visited, or on the stack (`Keeps`),
and without a cycle above it (`Above`), so the order is sorted (`Sorted`); a sorted
order leaves no cycle, by the least position of a file of it.  `VisibleInv`: whatever
is shown or pending is justified by a chain of re-exports, and what is shown goes on
to what is shown or pending; with nothing pending that is the least fixed point
(`Visible`; one lemma, `FollowingKeeps`, says what a step of the work list keeps of
it).  `CheckInv`: of the files before the current one, each that was not checked has
errors of its own or sees one that was not (`Explained`).  Because a chain of
re-exports leads only to files that come before (`Sorted` again), that reason was
there when the file was checked.  What speaks of one stack, order or graph is stated
of any, as lemmas about constants, and the steps cite it.

**InstallerProofs** (from `BoundsAssumption`).  `ReleasesAreSafe` (`Consistent`),
`CommandsAlwaysRepair` (`CommandsRepair`) and `RemovalsAreSafe` (`RemovalIsSafe`), from

    IInv == VarTypes /\ Safe(tree, owed, lock, job) /\ Undisturbed

`Safe` is what holds whatever runs at the same time: who publishes has the lock of
its version and nobody else has one, a process that has not set a release aside has
no backup on disk, a release whose backup is about to go is whole, and each release
that is owed is in its place or in the backup of a process that remembers its
version.  It is stated of any trees, locks and commands, so that a lemma per kind of
file operation (`AsideSafe`, `PublishSafe`, `PutBackSafe`, `TidySafe`, `DeleteSafe`)
and per kind of move (`MoveSafe`, `StaySafe`, `LockSafe`) can be put together for
each action: that is how a death between any two operations costs one lemma.
`Undisturbed` is an argument as for a sequential program: of a command that runs
alone, `Knows` gives each place the facts about the files that hold there (from
`activate` on the version to be activated is whole, from `record` on
active-version.json names it, before the deletion the pointer is on another
version, and so on), and assumes nothing of what it found at its start.  `Advances` says of a step
of a busy command that it keeps `Safe`, leaves the others as they are, reaches a
place with its facts, and ends well only with what `EndsRight` promises; there is
one lemma per action, and the three properties follow.

**LspDocumentsProofs** (from `LayoutsAssumption` and `BoundsAssumption`).
`ServerAgrees` (`Consistent`), `NothingGoesBack` (`NeverGoesBack`) and
`WhatIsShownIsCurrent` (`DiagnosticsAreCurrent`), for any
documents, circles of imports included, any number of edits and of handlers at a
time.  The second needs types only: every write goes through `Insert` or `Load`.
The first is about a server at rest, so it needs what holds of one that is not:

    IInv == TypeOK /\ Filled(handlers) /\ \A d \in Docs \ late : Kept(d, ...)

`Kept` says that the version on show is that of the store, and has three more
parts.  `Orderly`: the stored entry, the messages under way and
the editor's entry are one sequence in which versions grow until the document is
closed, and which ends in the editor's entry; so a message that is handled is newer
than what is stored, or what is stored is of a document that was closed.  `Behind`:
what a handler copied for later is the stored entry, or older and the same document
still, so a late refresh leaves the store as it is.  That is where `late` is
excluded: `Behind` does not hold of a document that was closed meanwhile.  `Loaded`:
an import that is not stored, because it was closed, is going to be loaded by a
handler that has the importer on its list or has yet to make the list
(`ImportersDepend`).  One lemma (`KeptOnward`) says when a step of another document
keeps the three, one each says what sending and handling a message does to
`Orderly`, and there is one lemma per action.  The walks of the module are stated
as the least closed set (`Common`), which is what makes `ImportersDepend` a matter
of definitions.

The third is about chains of imports, any link of which may change while a refresh
is pending:

    DInv == IInv /\ Informed /\ Fresh

`Fresh` says of every open document whose trace meets no late one that what is shown
of it is `Clean` (it has every source of the trace as the store has it) or that it
is `Pending`: it is on a list as it is stored (`InTurn`), or the store leads from it
to a document that has a message in the inbox, or a handler without a list yet
(`Spreads`), along documents that are not late (`Without`).  `Informed` is what makes
an unstored document safe: without a message it is closed in the editor, and what
is stored of it is in its file.  Four lemmas carry the argument.  `TraceSame`: a
trace depends on nothing outside of it, so a step elsewhere leaves `Clean` alone
(`StepOnward`, `CleanFresh`).  `FollowedReached`: the store has every document that
is traced, so a change of any of them makes the list of its handler reach the importer.
`TraceRead`: what a refresh reads has the whole trace, so its turn makes a document
clean.  `AffectedOnward`: a step may drop imports from the store only of a
document that spreads itself, so whoever was pending still is (`UpToDateOnward`).
At rest nothing is pending.

**ResolverProofs** (from `NumbersAssumption` and `ProblemAssumption`).  `Typed`
(`TypeOK`: what a branch requires is required by the roots or by its own releases),
`BranchesAreSound` (`BranchIsSound`), `SearchIsComplete` (`NoneIsNone`) and
`PreferredIsFound` (`AnswerIsPreferred`).  The last two say something of all graphs
that the search has *not* returned, so the invariant has to follow every one of them:

    IInv == Types /\ Sourced /\ Kept /\ Settled /\ Permitted /\ Ending
            /\ Fits /\ NothingIsLost /\ LockIsFirst /\ InOrder

A branch is what it decided.  `Sourced` and `Kept` say that its requirements are
those of the roots and of its expanded releases; when a pass changes nothing
(`Settled`) nothing is missing, and with all decided and no circle that is a solution.
`Fits` is the converse: a solution that took the same decisions requires all that
the branch requires, because features only grow towards those of the solution
(`Regular` is needed here and only here).  So a conflict, a circle, or a version not
in `Able` rules out no solution, which is `NothingIsLost`: each solution agrees with the branch
being explored or has an untried version of a decision above it.  When nothing is
left to try there is none.  `LockIsFirst`: a solution held by `dal.lock`, with or without checksums, is never
backtracked from, since its versions are the first of every decision.  `InOrder`:
decisions are nested and what was tried before is preferred, so no solution has a
newer version of the package decided first.  That the features of a release form a
least closed set, and that a requirement not met by a subset of them is not met by
more, are lemmas about constants.

**Only model-checked**: every liveness property (fairness and `ENABLED` are
beyond the prover), and all of `MirRun` (whose lowering is recursive, hence out of
the prover's reach).

## 6. Where the code and its documentation disagree

Two of these are runs that fail as expected, and `findings` entries with the
lines quoted.

* **A gather that collects `nothing`** (`parallel.rs:484`, compiled programs
  only; run `deferred_gather`). A join empties the slot before it has the result,
  so a gather that runs on top of that join takes the handle for one that was
  consumed.
* **A finally that does not run** (`lower.rs:3086`, run `mir_finally`).  An error
  that no clause takes is thrown on after the handler that leads to the finally
  was popped; an attempt without clauses, or left by `return`, `break` or
  `continue`, does not run it either.  The documentation says that it always
  runs.

Others were met on the way and are stated here without a run.

* *A deadlock that is none* (`mir_interp.rs:1198`, `parallel.rs:230`).  `main`
  spawns `x` and makes `gather([x])`; `x` awaits a timer.  The await runs the
  gather on top of `x`, the gather finds `x` running and nothing queued, and the
  scheduler gives up with "deadlocked while awaiting a running task", although
  `x` would end with its timer.  `OwnTasksNeverDeadlock` is what holds: nobody is
  refused a task of its own.
* *A waitAny that never returns* (`mir_interp.rs:1069`).  In the same situation
  `waitAny([x])` polls on top of `x` for ever; hence `NobodyPolls` in
  `ActivitiesEnd`.
* *A remove that cannot work* (`fidan-driver/src/dal.rs:570`).  `dal remove` asks
  the lock for every direct dependency, the optional ones included, which `dal
  add` never locked (`RemoveWorks`, false with the hand-written manifest of the run).
* *An add that forgets a requirement* (`dal/mod.rs:401`).  `dal add` of a package
  that the manifest lists as optional resolves it as if any version would do, and
  then keeps the requirement that `dal.toml` lists (`dal/mod.rs:463`), so the lock
  may hold a version that the manifest excludes; `add` reports success.  The proofs
  of `PairsAgree` and `AddRepairs` failed on it, and TLC has the counterexample in
  eleven steps; both now exempt exactly that case, by name (`AddsOptional`).  In the
  same way a dependency may be listed twice (`dal.rs:633`).
* *A remove that fails after its commit* (`dal/mod.rs:630`) leaves trees that
  nothing names.
* *A `use` that cannot work* (`install.rs:451`).  A `current` pointer whose
  target is gone does not count as existing, so it is not removed, and the new
  one cannot be made (`UseSucceeds`, false).
* *Two commands of the installer* (`self_cmd.rs:302`).  `self remove` may delete
  the version that `self use` activates at the same time; `RemovalIsSafe` is
  about commands that run undisturbed.  Staging and backup directories that a
  dead command left count as installed versions (`install.rs:256`).
* *Dependents through closed documents* (`store.rs:84`).  Dependents are found by
  walking what is stored, and only what open documents import is sure to be, so a
  change is not traced through two closed documents in a row.  Nor through one
  that somebody else imports.  The proof of `WhatIsShownIsCurrent` failed on it, and
  TLC has the counterexample in nine states with four open documents, of which `d`
  imports `p`, `p` imports `y` and `y` imports `w`.  `y` is closed and leaves the store;
  its handler lists `d` and `p` and refreshes `d`; `w` changes while `y` is absent,
  so its list has neither; the refresh of `p` loads `y` again, and `d` keeps
  diagnostics from the old `w`, with nothing left to refresh it.
  `DiagnosticsAreCurrent` therefore traces a change through a closed document only
  to those that import it themselves (`Trace`).
* *A stale trace* (`mir_interp.rs:1466`).  The trace of a caught error is kept,
  and the trace of the next one is not recorded.
* *A closed document that comes back* (`server.rs:554`).  A document that is
  closed while a list of dependents holds it is refreshed in its turn, and stored
  again as one that the editor owns (`OpenIsEditors`, false).
* *A feature that changes a requirement* (`dal.rs:633`, `resolver.rs:173`).  A
  release may list a package both as a dependency and as an optional one, with other
  versions, and a feature then replaces the first by the second.  If the feature is
  asked for after the release was expanded, the search keeps both requirements
  although "features monotonically unify here" (`resolver.rs:128`): it may find no
  graph, or an older one, where the release with its feature alone has one.  TLC
  finds both in the registries of the run as soon as `Regular` is left out.
* *Attempts that lose assignments* (`lower.rs:2985`).  The clauses and
  the `otherwise` start from the variables as they were before the attempt, so
  that neither they nor what follows see what the body has assigned.  A `finally` does not see what a clause that throws has assigned
  (`lower.rs:3098`).
* *A handler that stays* (`lower.rs:1959`).  `break` and `continue` out of an
  attempt do not pop its handler: a later error in the same function goes to the
  clauses of an attempt that is over.
* *Declarations that shadow* (`lower.rs:1681`, `2255`).  Variables are looked up
  by name alone, so a declaration in a branch changes the outer variable of that
  name.  It is not modelled: the programs assign and do not shadow.
* *Comments*: "globals shared across all threads" (`mir_interp.rs:320`) is out of
  date, each worker has a copy; the snapshot that the REPL keeps (`api.rs:527`)
  copies handles, so a failed input may change what they point to.

## 7. Not modelled

* **Front end, formatter, analyses that warn**: deterministic functions of one
  text.  A model would transliterate them.  `MirScheduler` takes from the
  lowering only which handles a body can name.
* **Code generators**: the emitted machine code is out of TLC's reach; the
  scheduling entry points that it calls are in `DeferredScheduler`, and that a
  native call behaves as an interpreted one is what `JitTiering` takes from them.
* **MIR**: see the end of its part of section 2.
* **Values**: bodies are abstract in the schedulers and in `JitTiering`; the
  instructions that `MirRun` has are the ones that its programs need.  Capturing a graph of values
  for a thread (`value.rs:185`) is a recursive copy without state.
* **Editor requests of the language server**: functions of one snapshot of the
  store; their one effect is `Lookup`.
* **Import resolution**: a pure function to a path, whose results are the imports
  of `ImportGraph`.
* **Credentials**: two entries of the OS keychain written one after the other by
  one command (`config.rs:101`); no other actor, no rollback.
* **REPL**: one sequential loop that compiles all input again; one snapshot.
* **LLVM helper, AI helper, registry client**: one request, one answer, no state
  and no retry.
* **Standard library, embedding, foreign functions, CLI, diagnostics**:
  stateless or input and output.
* **DAL**: see the end of its part of section 2.  **Installer**: the directory
  switches that Windows defers, PATH entries, downloads, and the toolchain
  commands, which publish through the same `materialize_release_root`.

These take up most of the repository's lines: the parsers, the checker, four code
generators and the analyses of the language server are large, sequential and
without state between calls.

## 8. Plan

1. **MIR**: globals and objects, `check` as an expression, comprehensions, spawns
   and shadowing declarations.
2. **Installer**: the toolchain commands; **Credentials** and **REPL** when one
   of them gets a second actor.
