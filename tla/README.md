# cppup: verification project

`cppup` is a build tool and package manager for C++ projects that are described by a C++ file, `build.cpp`. This
directory holds TLA+ modules of the parts of it that keep state over time or run on several threads, the TLC runs that
check them on small instances, and theorems about them that the TLAPS prover checks for every instance.

Paths below are relative to `src/src/core/` unless they start otherwise. `PROJECT.json` has, for every definition, the
lines it models, and for every hazard the line where it bites.

1. [The system](#1-the-system)
2. [Modules](#2-modules)
3. [Runs: what is checked, bounds, fairness](#3-runs)
4. [Findings](#4-findings)
5. [Proofs](#5-proofs)
6. [What is not modelled](#6-what-is-not-modelled)
7. [Plan](#7-plan)

## 1. The system

A command of `cppup` is one process that reads files, does its work, writes files and ends. What makes it hard is that
commands are killed and repeated over files earlier commands left, that a build trusts records of earlier builds, and
that four functions start threads.

    build.cpp --compile, dlopen--> BuildConfiguration --+--> package lock --> cppup.lock --> sync --> .cppup/packages
                                                        |                        ^   |               registry.txt
    toolchain/profile select, registry set -------------|------------------------+   |  (selection)       |
                                                        v                            v                    v
                                    build: plan -> scripts -> libraries -> binaries -> tests -> build steps -> scripts
                                             |  freshness: .cppup/cache/<triplet>/*.db
                                             v
                                           build/

| component | source | state | operations | what is hard | what makes it correct |
|---|---|---|---|---|---|
| build-step executor | `configuration/build_step_executor.cpp` | graph of steps, ready queue, atomic counters, a mutex and a condition variable, results | `execute_steps_parallel`, its workers | counters decremented by several threads, notifications outside the mutex, repeated and unknown names | dependencies first, every step once, cycles refused, the call returns |
| worker pools | `cli/commands/build.cpp:156-326`, `cli/commands/package.cpp:721-768` | shared index, abort flag, first error, progress count | compile and link jobs, package fetches | a failure racing successes, a job that is a process | each job once, the caller learns of a failure exactly when there is one, nothing runs on afterwards |
| process runner | `src/src/SystemProcessRunner.hpp`, `process_runner.cpp` | a child and a pipe for each call | run, capture | pipe ends inherited by the children of other threads, full pipes, interrupted system calls | a capture is what its own child wrote, all of it |
| build pipeline and freshness cache | `cli/commands/build.cpp`, `build/cache.cpp` | sources, selection, outputs, a database per triplet, progress | `cppup build`, `cppup clean`, the user's edits | stale records, failing jobs, kills, scripts that write sources | a target served from the cache is what a clean build would give |
| configuration compiler, loader | `configuration/compiler.cpp`, `loader.cpp`, `cli/commands/build.cpp:772-824`, `package.cpp:201-240` | the embedded header, `.cppup/build/config/*.so` | compile, load, wipe | libraries are judged by age, the header is replaced by three commands in two ways, compilers are killed | what is loaded was compiled from the present `build.cpp` with the header of the running program |
| subprojects | `configuration/subproject_loader.hpp`, `subproject.hpp`, `cli/commands/subproject_runner.cpp` | worklist, merged parts | load, merge, delegate | paths that accumulate through a stack, a path back to an ancestor | every directory once per declaration and under its own path; the load ends |
| self update | `cli/commands/update.cpp` | the installed binary, its backup, the download | download, verify, swap | failure and kill inside the swap, a copy in place of a rename | what is installed was verified; a binary that runs is kept |
| link resolution | `configuration/link_resolution.hpp` | colors, stack, order | `resolve_link_set`, `aggregate_link_flags` | shared libraries, cycles, several roots | dependents first, exact errors, termination |
| lockfile walk, test frameworks | `cli/commands/lockfile.cpp:505-671`, `cli/commands/build.cpp:611-650` | walk of package trees | `package lock`, the framework check of `build` | one name declared twice | every dependency locked once, no false cycle |
| packages, lockfile, selection | `cli/commands/package.cpp`, `lockfile.cpp`, `selection_resolver.cpp`, `toolchain.cpp`, `registry.cpp` | `cppup.lock`, `toolchain.txt`, package directories, `registry.txt` | lock, sync, add, remove, select, registry set, migration | kills between file operations, half copies, files rewritten in place | sync repairs what it finds, no half of the lockfile loses the other |
| test command, coverage gate | `cli/commands/test.cpp`, `test_dispatch.cpp`, `coverage_parser.cpp` | test binaries, `.gcda` and `.gcov` files | build, dispatch, tally, gate | reports of earlier runs | the gate judges this run |
| plugins | `plugin/` | registries filled before parsing | register, look up, `load_plugin` (tests only) | little: one thread | duplicate names refused |
| dependency database | `dependency/database.cpp` | SQLite tables | install, remove, resolve (no command calls it) | replaced rows cascade | |
| the rest | command line, init, format, tidy, loggers, flags, parsers | none that outlives a call | | | |

## 2. Modules

| module | models | role |
|---|---|---|
| `TaskGraph` | what the build-step executor promises | abstract specification: start a step when its dependencies ended, end it |
| `BuildSteps` | `execute_steps_parallel`, `execute_ready_steps_worker` | implements `TaskGraph` |
| `WorkerPool` | `compile_objects_parallel`, `run_in_parallel`, the fetch phase of `executePackageSync`, `ProgressReporter` | any number of threads and jobs |
| `CapturePipe` | `run_impl` of the process runner, called by any number of threads at once | processes, pipes and who holds them |
| `Jobs` | a pool whose jobs are calls of the process runner | composes `WorkerPool` and `CapturePipe`, implements `WorkerPool` |
| `BuildTargets` | `executeBuild`, `needs_rebuild`, `collect_dependencies`, `cache_build_result`, `executeClean` | the life of a project over many builds |
| `ConfigurationLoader` | `ConfigurationCompiler`, `load_from_library`, `materialize_configuration_header`, `load_project_configuration`, `load_with_subprojects`, `infer_build_system` | the compiled `build.cpp`s over many commands |
| `Update` | `executeUpdate`, `install_atomic`, `is_newer_version` | the installed binary over many updates |
| `Installation` | the binary that `Update` replaces runs the commands of `ConfigurationLoader` | composes the two |
| `Packages` | the commands on `cppup.lock`, `.cppup/packages`, `registry.txt`; gate and migration of `build` | one file operation per step |
| `LinkResolution` | `resolve_link_set`, `aggregate_link_flags` | one turn of a loop per step |
| `LockWalk` | `entries_from_configuration`, `walk_info`, the package check of `resolve_test_frameworks` | one turn of the loop per step |
| `MC...` | small instances for TLC; `MCConfiguration` puts `Installation`, `LockWalk` and `LinkResolution` side by side | |
| `...Proofs` | `BuildStepsProofs`, `JobsProofs` (`WorkerPool`, `CapturePipe`, `Jobs`), `BuildTargetsProofs`, `PackagesProofs`, `LinkResolutionProofs`, `LockWalkProofs`, `ConfigurationProofs` (`ConfigurationLoader`, `Update`, `Installation`, `MCConfiguration`) | extend the modules they are about |
| `Induction` | induction over naturals and existence of iterated functions, without operator parameters | lemmas the proofs about recursive functions cite |

**BuildSteps.** `main` is the calling thread (`plan`, `seed`, `join`, `returned`), `pc[w]` a worker: `lock` (waiting for
`queue_mutex`), `test` (inside it, evaluating the predicate of `wait`), `block` (predicate false, mutex still held),
`asleep`, `run`, `running`, `count`, `release`, `push`, `exit`. `DecideToWait` and `Sleep` are two steps because the
increment and `notify_all` of another thread, which are outside the mutex, can fall between them. `remaining_deps` is
decremented per *edge* (a dependency named twice has two), as the loop of the code does. Unknown names have no edge; of
two steps with one name the later answers to it. A step ends as `Completed` or `Failed` in the same way, and its
dependents are released either way. A callback that throws something other than `std::exception` ends the process and
is a behaviour that stops.

**WorkerPool.** `StopOnFailure` chooses the pool: that of the build, which stops drawing jobs at the first failure, or
that of `sync`, which tries all and reports the first failure in lockfile order. `late[w]` counts the jobs a thread drew
after the abort flag was set. `total` is the number of steps planned: 0 when nothing was stale as they were counted, in
which case `ProgressReporter::step` returns at once (`SkipStep`), although jobs may run, since a script may write sources
after the count. Relaxed atomics are taken as sequentially consistent, which is what the locked
instructions of the supported targets make of read-modify-write operations on one variable; the section under `err_mu`
is one step because `first_err` is read only after the join.

**CapturePipe.** Thread `t` waits for child `t`, of which there is one at a time. `holders[t]` is who has the write end
of its pipe open: the parent from `setup_capture_pipe` to the close after the fork, and every process forked in between,
*by whichever thread*, since the pipes are not made with `O_CLOEXEC`. `Fork` therefore adds the child to the holders of
every pipe that is open in the parent, and `EndOfFile` waits until nobody is left. A child may fail before it becomes its
program (`Exit` from `forked`), may write more than the pipe holds and then waits. `goal` and `ran` are history
variables.

**Jobs.** A job of the pool is one call of the process runner: `RunJob` is a step of `CapturePipe` while the pool's
thread is at `work`; the job succeeds only if its program was executed. A step of one part leaves the other alone.

**BuildTargets.** A file has a version, an output is known by the snapshots (compiler, flags, version of every input)
its objects were made from, a cache entry is a signature and a set of checksums. Builds are phases (`scripts`, `plan`,
`compile`, `library`, `binary`, `test`); within one, the jobs of different targets interleave. `regime` is chosen at the
start and says what may happen to the project: reverts of files and profiles, edits while a build runs, cleans that
remove outputs and leave their records, kills. `Edit`, `Select` and `executeClean` are the user's. `StartWithoutCache`
is the crash of `count_planned_steps` on a null cache (see hazards). Objects are not kept between builds, since a build
reads only those it wrote; they are named after the stem of a source (`ObjectOf`), so two sources may share one, which
then holds what was compiled last. `ar` and the linker write the output itself: `Crash` leaves an output that was being
written as it was, removed, or `Torn`, and so may a linker that is killed (`JobFails`). `quiet` and `scripted` are
history variables. `Includes` are the headers the text of a source names and that are found in an include path, the only
ones `collect_dependencies` records (`Read`); `Needed` those of them the compiler reads, since a name may stand in a
comment or belong to another platform; `Hidden` those it reads otherwise. A compile fails without a needed header and goes
on without one that is only named.

**ConfigurationLoader.** `library` maps the name of a shared library to what it was compiled from (directory, version of
`build.cpp`, header), or `Torn`. Ages are not numbers: `newer` holds the pairs of a `build.cpp` and a library where the
former is the newer file, which is all `needs_recompilation` compares. A path is a sequence of components, a component a
sequence of words, and a word has the character that joins it to the one before (`_`, `:`, `\`, or none).
`get_shared_library_path`, which turns separators and the last two into `_`, keeps the texts of the words and forgets
what joined them: names can collide, and a name longer than `MaxName` words is one no file can have. `DirOf` follows
`..` to the directory a path leads to, which may lie above the root. The header is truncated and written in two steps,
and neither the open nor the write is looked at: the command goes on with the old header, a torn one or none
(`unwritten`), while a directory that cannot be created ends a build (`HeaderFails`). `build` then wipes the libraries,
as far as it can, `package lock` does not, and `compile-commands` does not write the header and looks for one only in
the project's own `include` and `src` (`own`), which `build` and `lock` search behind theirs (`HeaderFound`).
`StartCompiler` reads a `build.cpp` and `Compile` has the library. `Edit` may come between them, as it may at any step
but the load, which opens a library whose age was looked at before; it saves a text, or puts one with an older time in
its place. `unseen` are the libraries that miss a save and look newer than it. `project` is constant in a behaviour:
directories with their markers and the subprojects they declare. `worklist` is the stack of `load_with_subprojects`.
`Kill` may happen at every step and leaves the output of a running compiler cut short or missing. `unswept`, `unwritten`
and `unseen` are history variables: they record which of the exceptions to `LoadsCurrent` occurred, and no guard reads
them.

**Update.** `target` and `backup` are `cppup` and `cppup.prev`, `at` the place in `executeUpdate`. Every file operation
is a step that may fail (`InstallFails`) or be the last (`KillUpdate`); `BeginCopy` and `EndCopy` are the copy that
replaces a rename across file systems. `cut` is a history variable: a copy into `target` was cut short.

**Installation.** `program`, whose header the commands of `ConfigurationLoader` write, is the binary at `target`; no
command starts while there is none. Updates happen between the commands of a project.

**Packages.** `op` and `step` are the command that runs and the file operation it is at; `selection`, `text`, `entries`,
`records`, `fetch`, `stale`, `errors` are its locals. `dir[n]` is `absent`, `empty`, `broken` (part of the content) or a
version, `lock` may be `Torn` (truncated and not yet written). `Crash` may happen at every step; a fetch is then left
half way and a registry half written. A command that fails to write is not always aware of it, for `save_registry` never
looks at the stream and `write_lockfile` looks before the buffer is flushed: `registry.txt` then has its first records
only and `cppup.lock` is `Torn`, and the command goes on as if it had written them. `lost`, a history variable, says that
this happened to the last command. `Refused` is every error returned before anything is touched. `Delete` is the
user who deletes a directory or `registry.txt`. `before` is a history variable: the files when the command began. The
order in which `sync` fetches is any order; that of the records it adds is not told apart by any property.

**LinkResolution** and **LockWalk** take their configuration at the start (`libraries`, `roots`; `packages`,
`frameworks`) and walk it with the explicit stacks of the code. In `LockWalk` a package is a tree: nodes shared by
pointer are written out, so that a cycle is one of names, as it is in the code.

## 3. Runs

| run | instance | properties |
|---|---|---|
| `buildsteps` | two threads; chain, diamond, fan-in, repeated and unknown names, two cyclic lists, and every list of up to three steps over eight dependency lists; fair | `IInv`, `RunsAfterDependencies`, `ReturnsAfterAllSteps`, `RefusesCycles`, `ImplementsTaskGraph`, `EveryStepEnds` |
| `buildsteps_return` | two threads, the chosen lists, fair | `ExecutorReturns`, violated |
| `workerpool` | `Jobs`: two threads, three jobs of one program each, a pipe of one line and up to two lines of output, both kinds of pool; fair | `JobsInv`, `Outcome`, `StopsSoon`, `Numbering`, `WholeOutput`, `NothingRunsOn`, `EachJobOnce`, `PoolReturns` |
| `build_targets` | a library that needs a header a script may write, a binary that links it and names the header, two versions, two profiles | `BuildInv`, `UpToDate`, `SecondBuildIsNoOp`, `TornIsRebuilt`, `PlannedIsDone`, `RecordsFreshOutputs`, `LinksReadyLibraries` |
| `build_relink` | the same without header and profiles | `LinkedUpToDate`, violated |
| `build_toolchains` | one binary, two compilers | `UpToDate`, violated |
| `packages` | a cloned, a copied and a placeholder package, a toolchain, a profile, a registry, an old `toolchain.txt` | `PackagesInv`, `OneRecordPerName`, `SyncIsIdempotent`, `SelectionKeepsTheRest`, `MigrationKeepsChoice`, `LegacyGoesAfterItIsRecorded` |
| `package_lock`, `package_sync` | the same | `LockKeepsSelection`, `SyncedIsComplete`, each violated |
| `configuration` | ten projects, four versions of a `build.cpp` (one does not compile, one throws), two of `cppup`; and, on instances of their own, all link graphs of three names with lists of up to two and roots up to renaming, package trees over three names (two of two levels, or one of three levels over one tree or two that do not branch), with and without a test framework; fair | `ConfigurationInv`, `LoadsCurrent`, `MergesTheTree`, `LoadReturns`, `InstalledIsVerified`, `LastBinaryKept`, `LinkInv`, `LinkOrder`, `LinkErrors`, `FlagsInFirstUseOrder`, `LockComplete`, `LockErrors`, `WalksReturn` |
| `configuration_layout` | the same | `LoadsThisProgramsLayout`, violated |
| `walks_framework` | the same | `FrameworksAreLocked`, violated |

What the properties say:

- *Build steps.* A step starts only after the steps it names ended; a queued step is in the queue once and in nobody's
  hands; the call returns only when no callback can still run; the configurations refused are exactly those in which
  some step reaches itself (by an independent definition, transitive closure instead of Kahn's algorithm); every
  accepted step ends, however wake-ups fall; and all of it refines `TaskGraph`.
- *Pools.* A job has one thread at a time and is started once, an error is reported exactly when a job failed and names
  one that did, each thread starts at most one more job after a recorded failure, the progress lines bear each number
  from 1 to the number of jobs done once (and there are none when no step was planned), and the pool returns. A capture
  has all of what its own child wrote and nothing else, however many threads fork meanwhile, and when the pool returns
  no process it started is left.
- *Builds.* After a successful build that nobody edited under, every target holds the objects a build from nothing would
  give (`UpToDate`), a second build would do nothing, and the progress total was right unless a script wrote files after
  it was counted. A target whose record is written is fresh at that moment, whatever went before (`RecordsFreshOutputs`).
  An executable takes libraries that are ready. An output that was cut off while it was written is never served from the
  cache, though an older record of it is there (`TornIsRebuilt`).
- *Packages.* `registry.txt` names a package once; after a successful `sync` another one would fetch nothing
  it can fetch, and would record nothing unless the write of the registry went wrong unnoticed; writing one selection
  keeps the other two and the package list; in a project with a lockfile, which is the case the documentation describes,
  the migration of `toolchain.txt` never changes what toolchain a build would get; and the old file goes only when the
  new one holds a toolchain, or was lost without the command noticing.
- *Configurations.* Whatever was edited, upgraded, cleaned and killed before, each part that is merged comes from its
  own directory's present `build.cpp`, and from a library made with the header of the running program, with the
  exceptions listed below (`LoadsCurrent`). A load that succeeds has each directory of the tree as often as it is
  declared and under its own path (stated over chains of declarations, not over a stack; however deep the tree is, a
  chain has at most as many links as parts were merged), and every load ends, also in the project with a subproject at
  `..`.
- *Updates.* After a successful update the binary is the release asked for; until a copy is cut short, only releases are
  ever installed or set aside, and a binary that runs is kept through any sequence of failed and killed updates.
- *Walks.* The link set is the least closed set of libraries (stated by closed sets, not by a walk), dependents first,
  with no duplicates; an error names a library that is needed and undeclared or on a cycle; flags come once, at their
  first use. The lockfile is sorted, has every package asked for and every dependency named, only declared entries, and
  no cycle; a cycle is reported only for a package that depends on itself; both walks end.

**Bounds.** Two threads suffice for a lost wake-up, a double draw, a decrement race, and for a pipe inherited by another
thread's child; three jobs let a thread meet a failure with jobs still waiting. A pipe of one line is full after the
first of two. Two versions suffice for a stale record, since a record is wrong by holding another version than the one
on disk; a third version would add only a second way of being wrong. Two packages show that one failing leaves the
other; the third is the kind without a provider. Three libraries have all shapes of shared dependencies and cycles that
a stack of colors distinguishes (finished before, on the path, new), with a second root that meets what the first one
left. The ten projects are: alone, updating itself; alone, edited and with a header of its own; one subproject, edited;
nesting beside a name used twice; a detour over `..` and a repeated declaration; a path back to the root; a path two
levels above the root; and directories that are ambiguous, missing, without a decisive marker. `MaxName` 3 lets the path
back to the root take a turn (root, `a`, `a/..`, `a/../a`) before its name is too long. One version of a package is
enough, since what counts is whether its directory is empty, has part of it, or all. Only one project updates `cppup`
itself (in the others a package manager does, at once), since updates do not look at projects. The proofs remove the
bounds where they exist (section 5).

**Restrictions, and why.** `UpToDate` and what follows from it are claimed under `FreshnessConditions`:

- nobody edits while a build runs: with `editsDuringBuild` the claim fails (a file is read once by the compiler and again
  for its checksum), and no line of the repository promises more;
- kills without reverts, and without cleans that remove an output and leave its record: a process killed between a link
  and its record, or in the middle of a link, may meet an old record that is true again, after a revert of the sources,
  or still true, when the output was built anew only because it was missing, and then the new or torn output is served.
  The hazard list has both, and the regime `CrashesAfterCleans` of `MCBuildTargets` lets TLC show the second;
- one toolchain (the run `build_toolchains` shows what two do), distinct target names, and distinct object paths: two
  sources of one target with one stem, as `net/util.cpp` and `io/util.cpp`, share an object, and the output holds one of
  them twice;
- headers found in an include path (`Hidden` is empty): others are not recorded.

`MigrationKeepsChoice` is restricted to projects with a lockfile. `docs/packages.md:365-367` says that one without is not
migrated and falls back to `$CXX`; `build.cpp:990` calls the migration for every project, which creates a lockfile out of
`toolchain.txt` (`migrate`). No run is spent on that disagreement; the property claims nothing about the case.

Placeholder packages (sources without a provider) are left out of `SyncIsIdempotent`, since the documentation describes
the empty directory they get. `LoadsCurrent` has five exceptions. A `build.cpp` that is saved while it is compiled, or
replaced by one with an older time, is missed by a library that looks newer (`unseen`, `compiler.cpp:85` compares ages
only). A header that could not be written is not the program's, and the command does not know (`unwritten`). Libraries
left when a header was replaced are of the old layout (`unswept`); `configuration_layout` shows this one. A project with
a `cppup/configuration.hpp` of its own, as this repository, has libraries that `compile-commands` made with that one
(`own`), which the next `build` reuses. And `compile-commands` itself loads what it finds, so the claim about headers is
of `build` and `lock`. No two paths of the ten projects give a library the same name; the hazard list has what happens
when they do. `LastBinaryKept` and `InstalledIsVerified` except what follows a copy cut short (`cut`), for which the
documentation promises nothing.

**Fairness.** `BuildSteps` has weak fairness for the calling thread and each worker (the scheduler runs a thread that
can run, and callbacks return) and strong fairness for acquiring `queue_mutex`, so that no thread is starved of a lock
that is free again and again; spurious wake-ups have none. `JobsSpec` has weak fairness per thread, for the calling
thread and per child: atomics do not block, and compilers end. `MCConfiguration` has weak fairness of what `cppup` does
by itself, that is of the walks and of the steps of a command; the user's actions, kills and updates have none. The
others check safety only. Deadlock is checked in every run except where the call ends and nothing follows (`workerpool`,
and the walks of `configuration`, `configuration_layout` and `walks_framework`).

## 4. Findings

| run | what TLC shows |
|---|---|
| `buildsteps_return` | The last step is counted and `notify_all` called without `queue_mutex`, between another worker's test of the wait predicate and its sleep: that worker sleeps for ever and `join` never returns (`build_step_executor.cpp:226-243`). `EveryStepEnds` holds all the same: no step is lost, only the return. |
| `build_relink` | A library is rebuilt and the binary that links it is served from the cache with the old library in it. |
| `build_toolchains` | g++, then clang++, then g++: freshness records are per toolchain, outputs are not. |
| `package_lock` | `package lock` writes the lockfile without the selection that `docs/packages.md` says it preserves. |
| `package_sync` | A copy that stopped half way is taken for the package by the next `sync`. |
| `configuration_layout` | build, update, `package lock`: the lock replaces the header, does not wipe the libraries, as `build` does, and reads one of the old layout; so does the next build, which finds the header current. `build.cpp:778-782` says that no such library is read. |
| `walks_framework` | A test framework named otherwise than its plugin's default package is locked and synced under one name and looked for under the other. |

What the modules show besides, as exceptions of properties and entries of the hazard list:

- a migration or `toolchain select` whose write of `cppup.lock` fails when the buffer is flushed (`lockfile.cpp:421-431`)
  goes on to remove `toolchain.txt`, so that no choice is left (the exception `lost` of `LegacyGoesAfterItIsRecorded`);
- a `sync` that could not write `registry.txt` reports success (`package.cpp:129-142`), and the next finds work to do;
- a crash in the middle of a link that follows a partial clean leaves a torn output that is served
  (`CrashesAfterCleans`);
- a header that vanishes while a build runs is left out of the record (`cache.cpp:256-258`), which is an edit during a
  build, for which nothing is claimed.

## 5. Proofs

Every safety property of the passing runs is the statement of a theorem, some under hypotheses that are named there.
They have no bounds: threads, jobs, targets, packages, projects, and the depth and width of trees are arbitrary. The
argument is the same throughout: an inductive invariant, of which TLC checks a small instance in the run of its module,
the fact that every action keeps it, and the property as a consequence.

**Recursive functions.** Several operators of the models are recursive functions: rounds of a sort, folds over lists,
paths of a tree. That such a function exists, and what it computes, needs induction, whose library theorems take an
operator as a parameter that the provers cannot instantiate. `Induction` states it with sets and functions instead:
`LeastNumber` (a non-empty set of naturals has a least element), `EveryNumber` (a set with 0 and every successor is
`Nat`), `LeastMeasure` (what fails somewhere fails first where a measure is least), `IterationExists` and `LoopExists` (a
function defined by iteration exists). A recursion over trees is defined by the nodes found in ever more turns.

**Termination.** Liveness is out of the prover's reach, but the safety half of it is not: a list of four numbers that
every step lowers (`Lower`, the order of a dictionary), with which there is no endless run (`DescentEnds`).
`LinkWalkDescends`, `LockWalkDescends` and `LoadDescends` state it of the two walks and of the loader for instances of
any size; that a walk or a command does take a step until it is over is what TLC checks under fairness (`WalksReturn`,
`LoadReturns`). `FiniteImage`, `FiniteUnion` and `FiniteLists` give the sets that are counted.

**`BuildStepsProofs`**, for any non-empty set of threads and any set of configurations:

- `Invariance`: `Spec => []IInv`. None of the properties is inductive alone. `RunsAfterDependencies` needs that the
  counter of a step is the number of edges nobody has released (`CounterInv`), which needs that an edge is released by
  one thread (`TodoInv`, `OneOwner`), which needs that a queued or pushed step has no second owner (`PushInv`,
  `QueueInv`, `MutexInv`). `CompletedInv` ties the count to the steps counted, and `ExitInv` carries it to the return.
- `DependencyOrder` and `ReturnIsFinal` follow from it; `Refinement` shows that every step of the threads is a step of
  `TaskGraph` or leaves its state alone.
- `CycleDetection`: the rounds of the topological sort leave a step out exactly when some step reaches itself, by
  transitive closure (`HasCycle`). In one direction, the round in which a step is sorted falls along every dependency; in
  the other, from a step left out there is always a dependency left out, and among finitely many steps such a walk meets
  itself. `CyclesRefused` is its consequence for the executor.

**`JobsProofs`**, in three parts:

- *The pool*, for any threads and any number of jobs: `Invariance`, and from it `OutcomeCorrect`, `JobsRunOnce` and
  `AbortIsPrompt`. The invariant says that jobs are drawn in order, that a job in work has one thread, and that a
  failure is recorded or about to be recorded by the thread that met it. `JobsRunOnce` says that a job that starts was
  waiting and is nobody else's, and never starts again. `ProgressNumbers` needs two parts more: the counter is the
  number of jobs done that nobody is about to report (`CountInv`), and every number up to it is in one line or in the
  hands of one thread about to print it (`LinesInv`).
- *The process runner*, for any threads, pipe sizes, outputs and numbers of calls: `PipeInvariance` and `OutputIsWhole`.
  The invariant says that a child whose output is captured holds its own pipe until it exits, so end of file implies its
  exit, and that what it wrote is captured or in the pipe. Children of other threads only delay the end.
- *The composition*: `JobsImplementPool` (it implements `WorkerPool`, so the theorems about the pool hold of it),
  `JobsInvariance`, `NothingIsLeft` and `JobOutputIsWhole`.

**`BuildTargetsProofs`**, for any finite project, any versions and flags, under `FreshnessConditions`: `InvariantHolds`,
and from it `SuccessIsUpToDate`, `SuccessIsNoOp`, `TornIsNeverServed`, `RecordedIsFresh`, `LinkedWhenReady` and
`EveryPlannedStep`. `UpToDate` speaks of the end of one build and is far from inductive. Its invariant has these parts:

- which targets are behind the running build (`PhaseInv`), and what it has made so far is of the files as they are
  (`MadeInv`);
- between builds every record names all inputs of its target, and the output is what the record says, or a process died
  between the two and some input has moved on since, so that the record will never match again (`RecordInv`). A torn
  output is of the last kind: the build that was writing it found its record outdated. The last alternative is where the
  conditions on reverts, cleans and kills are needed, and `HitIsFresh` is the lemma that draws the conclusion: a record
  that matches the files stands for the output;
- the steps emitted and the steps the targets have still to emit make up the plan until something fails (`CountInv`). The
  delicate case is a target whose verdict changes between plan and turn: nothing that happens in between changes it,
  unless a script wrote a file.

**`PackagesProofs`**, for any packages, versions and selections: `InvariantHolds`, and from it `RegistryNamesOnce`,
`SyncHasNothingLeft`, `SelectionIsolated`, `MigrationIsSafe` and `LegacyIsRecorded`. The invariant follows the locals of
a command (`WriterInv`, `SyncInv`): what a writer holds is the file it read but for its own key, and what `sync` has yet
to do covers what is missing. What follows from a write is claimed unless the write was `lost`, and a registry cut to
its first records still names each package once.

**`LinkResolutionProofs`**, for any configuration: `LinkInvariance`, and from it `LinkOrderCorrect` and
`LinkErrorsCorrect`. The invariant is the classical one of depth-first search with colors: gray is on the stack, black is
in the order, a frame is reached from those below it, what is finished has its dependencies before it, and what is not
white is needed. "Needed" and "reaches" are stated by closed sets, so no induction over paths is used. `FlagsCorrect` is
about the two nested loops of `aggregate_link_flags`, for lists of any length: after each turn the list is what the flags
read so far are, in the order of their first use. `LinkWalkDescends`: the white libraries, the roots ahead, the depth of
the stack and the dependencies ahead in its top frame, in this order, so cycles and repeated roots cost turns but not the
end.

**`LockWalkProofs`**, for package trees of any depth and width and any list of frameworks: `LockInvariance`, and from it
`LockfileComplete` and `LockRefusals`. The invariant ties the names on the path to the frames of the stack (`OnPathInv`,
`AncestryInv`), what a frame has passed to what is locked (`DependenciesInv`, `WalkRootsInv`), and the entries to nodes
of the manifest, each after those it depends on (`EntriesInv`). From the last follows that what is locked has no cycle,
and the sort keeps that, since it only reorders. A cycle that is reported is a name above itself on the path, so the
package depends on itself through the tree. `LockWalkDescends` counts what is left in the same way: names not yet
visited, among the finitely many a tree can declare, come first.

**`ConfigurationProofs`**:

- *Updates*, for any set of releases: `UpdateInvariance`, `Installed`, `BinaryKept`, and `NewerOneWay` about
  `is_newer_version`, for version lists of any length.
- *The loader*, for any projects, names of any length, and any sequence of edits, upgrades, cleans and kills:
  `LoadInvariance` says that a library not older than the `build.cpp` it was made from says what that says, if it has not
  missed a save (`AgesInv`), that libraries were made with the header there is, or one of the project's own, unless some
  were left at a replacement, and that `build` and `lock` have the program's header unless it could not be written
  (`HeaderInv`), and that what is about to be loaded needs no compilation (`ReadyInv`).
- `CurrentLoads` (`LoadsCurrent`) needs a hypothesis, `NamesApart`: on the paths the declarations of a project lead to,
  the name of a library tells its directory. It is not a technicality: separators become underscores, so subprojects in
  `b/c` and `b_c` share a library and each may load the other's (the hazard list has it). Every project without an
  underscore, a colon or a backslash in the names of its directories meets it (`OneWord`), which is
  `CurrentWithPlainNames`.
- `TreeMerged` (`MergesTheTree`), for trees of any depth and width, with repetitions and detours over `..`, above the
  root too, needs no such hypothesis. Its invariant, `TreeInv`, says that merged parts, directories handed on, entries
  of the worklist and the directory being compiled each have a chain of declarations of their own, whose path and build
  system they bear, that each such chain continues that of a merged part, and that every continuation of a merged part
  is there. When the worklist is empty the assignment is a bijection onto all chains, and the counts are equal.
  `TreeInv` quantifies over assignments, which TLC would have to enumerate; TLC checks its conclusion.
- `LoadDescends` (the loader ends) has a hypothesis, `PathsLead`: directories are finitely many, and a declared path has
  a component. The latter excludes the path `""` declared by the root, which nothing in the code refuses: it leads from
  the root to the root, the name of the library stays the same, and the loop of `load_with_subprojects` has no end. With
  any other path it ends, also with one that leads back to an ancestor. A merged part has a chain of declarations of its
  own (`TreeInv`), its path has a component for each of them (`ChainLength`), its name a word for each component
  (`NameLength`), and a name that was compiled fits into `MaxName` words (`ShortInv`); so there is room for finitely
  many parts (`Room`), and between two of them the worklist gets shorter. A `build.cpp` that is saved meanwhile
  (`Saved`) lowers nothing and adds nothing (`SavesAddNothing`): the theorem is that every step lowers the measure or is
  such a save.
- *The composition*: `InstallationInvariance` and `InstallationImplementsLoader` (a `cppup` that updates itself is, to
  the loader, one that somebody replaces), and `ConfigurationInvariance`, `ConfigurationKeepsBinaries`,
  `ConfigurationIsCurrent`, `ConfigurationMergesTheTree` and `ConfigurationLoadDescends`, the same properties of the
  specification that run `configuration` checks.

**Assumptions** are those the modules name, and TLC evaluates each of them in some run. There is at least one thread and
jobs are counted by naturals (`WorkersAssumption`, `NAssumption`, `NoErrorAssumption`, `PipeAssumption`,
`JobsAssumption`); a configuration has the type of `build.cpp`'s (`ProgramsAssumption`, `RootListsAssumption`,
`LinkFlagsAssumption`, `ManifestsAssumption`, `ProjectsAssumption`, `PackagesAssumption`) and declares finitely many
libraries (`FiniteConfiguration`); an archive links nothing, sources are no headers, and versions are naturals
(`TargetsAssumption`); a project has finitely many targets and sources (`FiniteProject`), without which its plan has no
size; package trees are made of trees less deep (`NestedAssumption`), as anything built by constructors is; a
`build.cpp` that compiles and does not throw exists, and names have a longest length (`LoaderAssumption`); the values
that stand for a missing or torn file are no releases, versions or lockfiles (`UpdateAssumption`, `PackagesAssumption`,
and conjuncts of the others); the releases of `Update` are the headers of the loader (`InstallationAssumption`).
`FreshnessConditions`, `NamesApart` and `PathsLead` are not assumed by a module, but are hypotheses of the theorems that
need them: the runs that show what happens otherwise use the same module.

**Model-checked only**: liveness (`EveryStepEnds`, `PoolReturns`, `WalksReturn`, `LoadReturns`), since fairness and
ENABLED are out of the prover's reach, and the properties of the runs that expect a violation.

## 6. What is not modelled

- `dependency/resolver.cpp` and `dependency/package_manager.cpp` are compiled into nothing. The dependency database, the
  package resolver and `load_plugin` are compiled and called by tests only.
- Fetching (git, curl, tar), compilers and gcov are outcomes: they succeed, fail, or stop half way.
- Flags, platforms, profiles and validation are pure functions; a build sees their result as one value.
- The command line, templates, formatting and logging keep no state.
- The build steps that follow the tests (`BuildSteps` executes them) and post-build scripts, with their failures after
  every output is made and recorded, delegation to cmake, make and other build systems, and test-framework builds are
  left out of `BuildTargets`; so is the removal of a source from a target (the archive keeps its object). Its targets do
  not come from `ConfigurationLoader`: a configuration is constant in `BuildTargets`, and a list of directories in the
  loader.
- Two commands at a time are left out of `Packages` and `ConfigurationLoader`.
- A custom name for `build.cpp`, include paths and compiler options of the configuration compiler are left out of
  `ConfigurationLoader`.
- The larger part of the source lines are vendored headers (CLI11, toml++), option declarations, plugin adapters, and
  text: they keep no state a property could be about.
- `PROJECT.json` lists every component with its reason.

## 7. Plan

Done: `BuildSteps`, `WorkerPool`, `CapturePipe`, `Jobs`, `BuildTargets`, `ConfigurationLoader`, `Update`, `Installation`,
`Packages`, `LinkResolution`, `LockWalk`, and the proofs of all their safety properties. Left, in this order:

1. `ConfigurationLoader` composed with `BuildTargets`, whose targets then become a variable (removed sources, renamed
   targets), and the run of a project whose paths collide in one library name.
2. Two commands at once over `cppup.lock` and `registry.txt` in `Packages`.
3. `TestRun`: dispatch, tally and coverage gate over the files earlier runs left.
4. `DependencyDatabase` and `PackageResolver`, as libraries.
5. Abstract specifications: an atomic lockfile that `Packages` should implement between kills, a cache that answers from
   snapshots for `BuildTargets`.
6. Proofs: the refinements of item 5, and a measure for the executor and the pools (steps and jobs left).

Runs are shared where components are independent: `MCConfiguration` checks the loader, the update and two walks.
