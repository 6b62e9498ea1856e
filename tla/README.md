# MicroBuild: a verification development

MicroBuild generates IDE projects from `.ini` descriptions and builds them: it
works out which files are out of date, makes a task for each, and runs the tasks
on a pool of threads. This directory holds TLA+ models of that machinery, TLC
configurations that check them on small instances, and TLAPS proofs of the main
results for every instance.

Paths below are relative to `src/Source/`: `Core/` stands for
`MicroBuild-Core/Source/Core/`, `App/` for `MicroBuild/Source/App/`, `Schemas/`
for `MicroBuild-Schemas/Source/Schemas/`.

## 1. The system

| Part | State | Operations | Talks to |
| --- | --- | --- | --- |
| `ConcurrentQueue` (`Core/Parallel/Types`) | a ring, two published and two claimed cursors | `Push`, `Pop` | used twice by `JobScheduler` |
| `JobScheduler` (`Core/Parallel/Jobs`) | slots with dependency lists, a counter and flags; two queues, two mutexes, two condition variables, `m_Aborting` | `CreateJob`, `AddDependency`, `Enqueue`, `Wait`, the loop of the pool threads, the destructor | runs callbacks of `Builder` |
| Build of one project (`App/Builder/Builder.cpp`, `Tasks/`) | the job graph, `bBuildFailed`, `currentJobIndex`, the manifest | `Build`, `QueueTask`, `Execute` of each task | scheduler, toolchain, accelerator, plugins, source control |
| Project dependencies (`Builder.cpp`) | the list or tree of projects, `bFailed` | `BuildDependencyList`, `BuildDependencyTree`, `Build` | one `Build` per project, in sequence or as jobs |
| Incremental build (`App/Builder/BuilderFileInfo.cpp`, `Toolchains/Toolchain.cpp`) | a manifest per object and per output; caches of modification times and of existence | `CheckOutOfDate`, `LoadManifest`, `StoreManifest`, `UpdateDependencyManifest` | file system, tasks |
| Toolchains and output parser (`App/Builder/Toolchains`) | argument lists, regular expressions | `Get...Action`, `ParseOutput` | child processes |
| Accelerators (`App/Builder/Accelerators`) | a script, the output read so far | `RunActions` | a child process that distributes |
| Child processes (`Core/Platform`) | process id, a pipe, the working directory and the descriptors of the whole process | `Open`, `ReadToEnd`, `Wait`, `GetExitCode` | every task, source control, packaging |
| Source control, version, changelog (`Builder.cpp`, `SourceControl/`) | the history, the changelog file | `BuildChangelog`, `GetHistory`, `Exists`, `Add`, `Commit`, `Sync` | git, through child processes |
| Plugins (`App/Plugin`) | the list of loaded plugins | `LoadPluginByName`, `UnloadPluginByName`, `OnEvent` | every `Build` |
| Commands (`App/Commands`, `App.cpp`) | options, the workspace and project files, `workspace.mb` | `Invoke`, `IndirectInvoke` | all of the above |
| Configuration files (`Core/Config`, `Schemas`) | groups of keys and values | `Parse`, `Resolve`, `Merge`, `Validate` | commands, manifests |
| Command line, IDE generators, packagers, helpers | none to speak of | parsing and formatting | commands |

What is hard:

- **Interleavings.** The queue is lock-free over plain integers; `Enqueue` runs on
  the main thread and on every pool thread at once; counters and flags of a job are
  read outside any lock; `bBuildFailed` and `bFailed` are plain `bool`s shared by
  callbacks; the working directory and the list of plugins belong to the process.
- **Order.** Stages, sequential tasks and dependent projects are ordered only by the
  `AddDependency` calls that `Builder` makes.
- **Failure.** A task or a project may fail while others run; the build must stop,
  report it, and leave manifests that the next build judges rightly.
- **Waiting.** Two condition variables, a recursive `Enqueue`, spinning retries.
- **Others.** Children inherit the descriptors of all threads and fill their pipes;
  developers commit and pull in the clone whose history a build is reading.
- **Staleness.** Modification times are cached, dependencies are hashed after the
  compiler has read them, and a manifest is written after the object it describes.

`PROJECT.json` lists the hazards line by line, with the properties that cover each.

## 2. Modules

```
BoundedFifo  <--refines--  ConcurrentQueue          (ConcurrentQueueProofs)
TaskGraph    <--refines--  JobScheduler             (JobSchedulerProofs,
                                                     JobSchedulerProgressProofs)
TaskGraph    <--uses-----  BuildStages              (BuildStagesProofs)
TaskGraph    <--uses-----  ProjectGraph             (ProjectGraphProofs)
IncrementalBuild                                    (IncrementalBuildProofs)
ChildProcess                                        (ChildProcessProofs)
Changelog                                           (ChangelogProofs)
```

`TaskGraph` is the hinge: `JobScheduler` is shown to implement it, and the two
clients of the scheduler are modelled on top of it, so that what is checked of them
needs none of the scheduler's detail.

### BoundedFifo, ConcurrentQueue

`BoundedFifo` is the promise of `ConcurrentQueue.h`: a bounded first-in first-out
queue, shared by threads. `ConcurrentQueue` has one step per access to shared
memory: `PushLoad` reads `m_Head`, `PushSpace`/`PushSpin`/`PushFail` read `m_Tail`
and compare, `PushClaim`/`PushRetry` are the compare-exchange, `PushStore` writes
the slot, `PushCommit` publishes; `Pop` likewise. `old[t]` is `OldHead` or `OldTail`.

Abstractions. The cursors are unbounded (they wrap after 2^31 pushes). Loads and
stores happen in program order; the C++ standard promises less for plain integers.
`m_Head = m_UncomittedHead` is one step, justified inside the model: between a
compare-exchange and this store no other thread can change `m_UncomittedHead`
(`SingleCommitter`).

- `SingleCommitter`: per side at most one thread is between its claim and its
  publication, and the claimed cursor is one ahead of the published one exactly then.
- `NoOverwrite`: a slot being written holds no element that is still to be read.
- `PushFailsOnlyWhenFullOrOvertaken`: what a refusal of `Push` means. It does *not*
  mean that the queue is full: `m_Head` is read before `m_Tail`, and when two
  elements have passed in between the difference is negative.
- `PopFailsOnlyWhenEmpty`: with one consumer at a time, which is what
  `m_WorkMutex` ensures in `JobScheduler`, a failed `Pop` means an empty queue.
- `IsFifo`: refinement of `BoundedFifo`. Insertion takes effect at `PushCommit`,
  removal at `PopClaim`.
- `EveryCallReturns`: a non-blocking call returns.

### TaskGraph, JobScheduler

`TaskGraph` is the promise of `JobScheduler.h`: a job runs once, after the jobs it
depends on; `Wait` returns only after the root. `JobScheduler` has one step per lock
operation, condition variable operation, atomic operation and access to a shared
flag. `pc` says where each thread is; `frames` is the stack of the recursive
`Enqueue` calls, each with the children it has still to visit; `current` and
`release` are the local state of `RunJob`. `queue`, `popped` and `oldHead` keep of
the ring what a caller can notice: `PushLoad` reads `m_Head` in a step of its own,
and `PushRefused` is the overtaken `Push`.

Abstractions. A job is its slot: `Builder` creates all jobs before the first
`Enqueue` and destroys the scheduler after `Wait`, so no slot is used twice and no
handle becomes stale. `AddDependency` adds each edge once and `Dependents` is the
converse of `Dependencies`; lists are visited in any order. The callback is one step
from `callback` to `release`. `StartEnqueue` requires that every job hangs below the
root, as all jobs that `Builder` creates do. A failed assertion ends the program.

- `DependencyOrder`: no callback starts before those of all dependencies returned.
- `WorkConserving`: no lost wakeup. When no `Enqueue` is in progress, a thread sleeps
  only if the queue has no more jobs than there are awake threads about to poll it.
- `ImplementsTaskGraph`: refinement of `TaskGraph`.
- `WaitReturns`: once the root is enqueued, `Wait` and the destructor return.
- `EnqueueNeverRefused`: violated, see section 5.

### BuildStages

The job graph of one `Builder::Build`. `Graph` states the dependencies that the loop
over the stages passes to `AddDependency`: the host job above the stage jobs, each
above the one before, a group job for the parallel tasks of a stage, the chain of
its sequential tasks behind the group, and one `AccelerateTask` for the
distributable ones. The callback of `QueueTask` has a step per access to what
callbacks share: `TestFailureFlag`, `TakeIndex`, `ExecuteSucceeds`/`ExecuteFails`,
`SetFailureFlag`. The main thread's `WaitReturns`, `ReportFailure` and
`WriteManifest` follow. A behaviour starts when the graph is complete: nothing runs
before `Enqueue(hostJob)`. `Execute` of a task is one step that succeeds or fails.

- `StagesInOrder`: a task executes only when all tasks of earlier stages have ended,
  and a sequential one only when the parallel tasks of its stage and the sequential
  ones before it have.
- `SequentialRunsAlone`: nothing at all executes beside a sequential task.
- `FailureStopsBuild`: nothing executes that comes after a failed task, although the
  flag is set only after `Execute` returned, and tested before.
- `SuccessMeansAllExecuted`: success, or a manifest on disk, means that every task
  was executed and none failed.
- `ProgressIsDisjoint`: the ranges of progress numbers do not overlap, and stay
  within the total.

### ProjectGraph

`Build` with `bBuildDependencies`. `Visit`, `SkipProcessed` and `Leave` are the
recursive walk of `BuildDependencyList` and `BuildDependencyTree` over an explicit
stack; the dependencies of a project are visited in any order. In the sequential
mode the loop over `dependencyList` follows, in the parallel mode the jobs.

- `SequentialOrder`: the sequential build keeps the order of dependencies.
- `ParallelOrderUnlessShared`: the parallel build keeps it for each dependency that
  only one project names.
- `SuccessMeansAllBuilt`: success means that exactly the projects that the target
  needs are built, in both modes and on any graph, cyclic ones included.
- `DependenciesBuiltFirst`: violated by the parallel mode, see section 5.

### IncrementalBuild

What a project's files go through from one build to the next. A *stamp* is a modified
time: each write gives a file a new one, 0 means that there is no file. `object` and
`target` say what outputs were made from, `manifest` and `targetManifest` what is
recorded of that; this is the disk. `phase`, `cache` (`m_modifiedTimeCache`), `info`
(the `BuilderFileInfo` of each source file), `task`, `linkTask` and `failed` are the
memory of one process, which `End` and `Kill` empty.

`StartBuild`, `StartRebuild` and `CleanFails` begin a `Build`. The three ways out of
`CheckOutOfDate` are `CheckMissing`, `CheckHash` and `CheckDependencies`; the last
reads the dependencies up to the first that differs, in any order, and the cache is
filled with what was read. Then `ReportUpToDate` or `GetTasks`. `Compile`,
`CompileFails` and `Link`, `LinkFails` are the tools; `UpdateDependencyManifest`,
`RejectOutput`, `UpdateLinkDependencies` and `RejectLink` the post-processing.
`Edit` and `Kill` can come at any step. The compiler is external: with a precompiled
header it reports the headers it opened (`OutputDependencyPaths`) and takes the others
from that header (`Consumed`). `edited` and `raced` are history.

Abstractions. The hash of a file is its stamp: path and configuration do not change.
Tasks of one stage are interleaved and take a step to run the tool, and one for the
post-processing. What a source file includes does not change. Each source file has an
object of its own. A file is never deleted, and the list of files is checked in any
order. Libraries, the version file and user commands are left out.

- `SourceEditsAreSeen`: no edit of a source file is lost, at whatever moment it falls:
  the hash in a manifest is taken before the compiler runs.
- `HeaderEditsAreSeen`: nor of a recorded header, except one saved in the process that
  first read it and before it did (`raced`). Without the exception TLC finds the
  stale object.
- `UpToDateIsCurrent`: "is up to date" is true: output, objects, sources and reported
  headers agree.
- `NothingLeftToDo`: a build that succeeds leaves nothing to do. The exception is again
  needed: a build that compiles the precompiled header lets the others inherit its
  *old* hashes, and they are compiled once more by the next build.
- `ManifestNamesEveryHeader`: violated, see section 5.

### ChildProcess

The calls of `Linux_Process.cpp` (`MacOS_Process.cpp` is the same code) and
`Process::ReadToEnd`, one step per system call. Each thread runs one child at a time:
`Begin` chooses what the caller does (read to the end, as tasks and source control, or
only wait, as packaging, when no pool is running), then `CreatePipe`/`PipeFails`,
`GetWorkingDirectory`, `EnterDirectory`, `Spawn`/`SpawnFails`, `LeaveDirectory`,
`CloseWriteEnd`/`OpenFails`; `ReadChunk` and `ReadEnds` are `ReadToEnd`, `Wait` is the
`waitpid` at its end, or the caller's. `cwd` and `writers` are what all threads share:
the working directory, and who holds a write end of each pipe. `Inherit` is why it is
shared: a child gets every descriptor that is open when it is spawned. The child
(`ChildWrites`, `ChildExits`) is external and blocks on a full pipe.

Abstractions. Output is counted in chunks. A file action of `posix_spawn` cannot fail.
A failed `pipe()` returns with `m_attached` set, and the destructor then closes
descriptor 0 of the program; only the failure is modelled. A failed call leaves no exit
code.

- `OutputIsComplete`: `ReadToEnd` returns everything, and only when the child has
  exited, although `AtEnd` looks at the process and the pipe one after the other.
- `NothingLeftBehind`: no write end and no child outlives its call.
- `DirectoryKeptUnlessOverlapped`: the directories are right as long as no two threads
  are inside `Open` at once. Without the exception TLC finds the compiler in the wrong
  directory, and the program left in it: pool threads do overlap.
- `ExitCodeIsAlwaysZero`, `UnreadOutputBlocks`: see section 5.
- `CallsReturn`: every call returns, but for those that wait for a child which has more
  to say than the pipe holds. Readers whose children hold each other's pipes do not wait
  in a circle, because each child closes all its copies when it exits.

### Changelog

`BuildChangelog`, in the order of the code: `CalculateVersionNumber` takes the newest
commit, `GetHistory` reads a page, `UpToDate`/`Differs` compare, `Exists` asks git about
the file, then `WriteToFile`/`WriteFails`, `Add`, `CommitFile`, `Pull`, `Push`. A commit
is a number, in the order of `git log`; `local` and `remote` are the clone and the
server; `file`, `committed` and `published` the changelog on disk, in the clone and on
the server. Others commit on either side and pull in the clone (`SomeoneCommits`,
`SomeonePulls`), and delete the file between builds; any command may fail or the program
be killed (`Stop`). `known`, `grown`, `loose` and `fresh` are history.

Abstractions. The content of a changelog is the bag of its entries, each a commit and
the version it is listed under: the order inside a group is that of a sort. A tagged
commit is one line; legacy entries are left out. Only this build writes the file. The
model takes exit codes as Windows reports them: on Linux `GetExitCode` hides every
failure, and `posix_spawn("git")` finds no git, since it does not search the path.

- `PagesMakeTheChangelog`: what is read page by page is each tagged commit once, under
  the version of the first update after it, if nobody touched the clone meanwhile.
- `NoEntryLost`: even if the pages shift while others commit and pull, no commit that
  was there when the build began is missed. It may be listed twice.
- `UpdateSettles`: the commit that checks a changelog in does not make the next
  changelog different. With a second project in the same repository it would: the
  message of its update contains `[changelog]`, so that each project lists the other's
  updates as entries and commits again.
- `SuccessMeansCheckedIn`: success leaves the changelog on the server, unless an earlier
  build was stopped between writing and pushing (`loose`): the file is identical then,
  and the check-in is never retried.
- `FirstChangelogIsNotCheckedIn`: see section 5.

## 3. Runs

| Run | Instance | Shows |
| --- | --- | --- |
| `QueueFifo` | 2 producers, 2 consumers, 2 slots, 4 pushes | the ring is a FIFO and refuses only for a reason |
| `QueueSerial` | 2 producers, 1 consumer, 2 slots, 3 pushes, fair | `Pop` under a mutex is exact; calls return |
| `SchedulerSafety` | 2 workers, 5 jobs, every subset of 6 edges that spans them, 1 spurious wakeup | order, refinement, no lost wakeup |
| `SchedulerLive` | 2 workers, a diamond of 4 jobs, 1 spurious wakeup, fair | the build ends |
| `SchedulerRefusal` | 2 workers, 5 jobs | the assertion of `Enqueue` fails |
| `StagesSafety` | 10 tasks in 6 stages, 2 of the 4 sources distributed | stages, sequential tasks, failure, success, progress |
| `ProjectsSafety` | all 512 graphs of 3 projects, both modes | order, result, no deadlock |
| `ProjectsParallel` | the same, parallel | a shared dependency is not waited for |
| `IncrementalSafety` | a source, a PCH, a header each; each file saved once more; 3 processes | no edit is lost, up to date is true, builds settle |
| `IncrementalPch` | the same | the first build forgets the headers of the PCH |
| `ProcessSafety` | 2 threads, a pipe of 1 chunk, up to 2 chunks of output, fair | output, directories, descriptors, exit codes; calls return |
| `ChangelogSafety` | pages of 2 commits, up to 4 commits and those the builds add | no entry is lost, updates settle, success means checked in |

Bounds, and why they are enough.

- `MaxPushes` = 4 on two slots lets the ring wrap twice, fill, and let a `Push` be
  overtaken by two others; two threads per side suffice for every race of two
  compare-exchanges, since a third meets the same states. The run is symmetric in
  threads and elements.
- The edges of `SchedulerSafety` allow a diamond (two threads finish the two
  dependencies of one job at once) and a chain with a job beside it (a thread inside
  `Push` while others run through the chain). `MaxJobCount` is the number of jobs: the
  code has 1024 slots for queue and jobs alike, so the queue never fills. Three jobs
  beside the pusher's are needed before a `Push` can be overtaken, hence four jobs in
  `SchedulerLive`, where no assertion fails and liveness is not vacuous.
  `MaxSpurious` bounds spurious wakeups, shared by both condition variables.
- The ten tasks of `StagesSafety` are those a toolchain makes for a PCH, four sources, a
  version file, two `PreLink` commands, a link and a `PostBuild` command. Two sources are
  distributed and two are not, so that the accelerator's job has company in its stage.
  The three stages without tasks are left out, one of them would be a pass-through.
- Three projects are the least with a shared dependency, and the graphs include
  chains, self-dependencies and cycles.
- Three processes suffice to build, to fail or be killed on an edit, and to judge what
  that left; `IncrementalSafety` also passes with four. A stamp of 2 gives each of the
  four files one edit at any moment, so that up to four edits fall in one behaviour.
  That run does not check for deadlock: a developer may stop building.
- Two threads in `ProcessSafety` suffice for every overlap of two calls of `Open`, and
  for two children that hold each other's pipes. With a pipe of one chunk and children
  that write up to two, pipes fill and run empty. The run does not check for deadlock,
  because a caller that waits without reading may block for ever; `CallsReturn` says that
  nobody else does.
- Pages of two commits and up to four commits of others give a full page, a page that
  ends the history, an empty one, and a shift between two requests by a commit or a
  merge. Builds follow each other without bound until others have used up the commits:
  each successful one that finds nothing new adds nothing.

Fairness. In the queue, every thread inside a call keeps running (weak fairness of
its steps). In the scheduler, each thread does, which includes that callbacks return.
In `ChildProcess`, threads and children that can run do; neither `pipe()` nor
`posix_spawn()` has to fail, and a child ends once its output is written.
These are what an operating system gives to runnable threads; mutexes need no more,
since in these finite graphs nobody competes for ever. Spurious wakeups, starting
calls and failing are never forced. `BuildStages` and `ProjectGraph` have no cycles
except the stuttering step at their end, so that the absence of deadlock, which their
runs check, shows that they end.

## 4. Proofs

All theorems hold for every value of the constants under the named assumptions of
the modules: a positive capacity; finitely many jobs; a main thread that is no worker;
a stage for each task; a PCH source among the sources; pipes and pages of positive size; `CanDistribute` within `CanRunInParallel`, which the code
asserts (`Builder.cpp:929`).

**ConcurrentQueueProofs.** `IndInv` is `TypeOK`, `SingleCommitter` and `Cursors`.
`SingleCommitter` is not inductive alone: that the compare-exchange succeeds only for
the thread whose `OldHead` is still the published head needs the order of the four
cursors and what each thread knows of them at each point (`Cursors`). `NoOverwrite`
follows, as two indices less than a ring apart have different slots
(`SlotInjective`). What a refused call says follows from the same bounds on the cursor it
read; for `PopFailsOnlyWhenEmpty` it takes that one thread pops (`LoneInv`), as the
scheduler's mutex ensures. Without that, `EmptyMeansEmptyOrOvertaken` says how a `Pop`
may be wrong: two elements were popped and more than a ring of them pushed since it read
`m_Tail`. `ImplementsFifo` maps the elements between `m_UncomittedTail` and
`m_Head` to the abstract queue: `CommitInserts` and `ClaimTakes` are the two steps
that change it, all others stutter.

**JobSchedulerProofs.** The core of `IndInv` is `PendingInv`: the counter of a job
equals the number of its dependencies that have not returned, or whose thread has not
yet come to it in the list of dependents. With `ReadyInv` (an enqueued job has count
zero) `DependencyOrder` follows. `EnqueuedInv` and `PushingInv` say that a job
between its compare-exchange on `Enqueued` and its `Pop` is in exactly one place, and
`HeldJobInv` that it is held by one thread after: together, that it starts only
once, which `ImplementsGraph` needs.
`WorkConserving` counts (`NotifyInv`): the jobs in the queue are no more than the
threads awake and those that have a notification to give. A thread that gives one and
finds nobody to wake has the mutex, which a thread on its way to sleep would hold
(`PollInv`); one that leaves for `m_Aborting` leaves an empty queue behind, because every
job is below the root (`BuiltInv`) and the graph is acyclic (`AcyclicEdges`, assumed by
the theorem, as is a finite number of pool threads).

**JobSchedulerProgressProofs.** What liveness leaves to safety: nobody waits for
something that no one will do. `ProgressInv` adds to the above where `m_WorkMutex` is
held (`MutexInv`), that pool threads stop only after `m_Aborting` (`StopInv`), and what
becomes of each job. One that was enqueued is being pushed, in the queue, in the hands of
a pool thread, or complete (`HandledInv`). One with dependencies waits for one of them, or
whoever released it is about to enqueue it (`ReleasedInv`). One without is enqueued, or
the walk of the main thread over the graph has yet to come to it (`WalkInv`), which it
does because every way down to the job is still open at some frame of the recursion.
`SomebodyAlwaysWorks` follows: if all pool threads slept, queue and hands would be empty,
so each job that is not done would wait for another such, and a finite acyclic graph has
one that does not (`AcyclicBothWays`). With `SleepersAreWoken` it is the absence of
deadlock on which `WaitReturns` rests. `AllJobsHaveRun`: a job that is not done would have
one above it that is not done either, and so on past the root. `AssertionMeansOvertaken`
(`OldHeadInv`, and at most `MaxJobCount` jobs) says that finding 1 of section 5 is the
only way in which the assertion of `Enqueue` can fail.

**BuildStagesProofs.** `IndInv` ties each phase to the jobs before it (`GraphInv`),
lifts that from the direct dependencies to all earlier stages (`StageInv`) and to all
predecessors of a task (`OrderInv`), and says that a failure is recorded by the time
its job ends (`FailureInv`). The chain of sequential tasks is climbed with a
well-founded minimum (`LastBefore`). `ProgressInv` says what the counter has counted:
the jobs that took a number, and the tasks that the accelerator's jobs among them stand
for; each new range then starts above all others. `GraphIsFitForTheScheduler` discharges
for the graphs of `Builder` what the scheduler's theorems assume of a graph: `Place` puts
the jobs in an order in which each comes after those it waits for, whichever stages are
empty. With it, `BuildNeverGetsStuck`.

**IncrementalBuildProofs.** `SourceEditsAreSeen` is not inductive: it needs that a hash
never runs ahead of the text that was compiled. `IndInv` is the types, `StampsAreRead`
(what is cached, loaded, recorded or compiled is at most the present stamp) and
`HashBeforeObject` (manifest hash <= stamp the object was made from, already while
the object waits for its manifest). An equal hash and stamp squeeze the object's
stamp between them. Each action keeps the chain whichever step an edit, a kill or a
failure interrupts.
`HeaderEditsAreSeen` needs the headers' own invariant, `HeaderInv`: while an object waits
for its manifest, a header that was not looked up yet is as it was compiled, and one that
was is not newer (`ReadInv`); a file inherits the present stamp of a header only with its
present text (`InheritInv`), because the record it copies describes the object of the
precompiled file (`PchInv`), which is there when others are compiled (`ProcessInv`).
What a process says when it ends is `EndInv`: an object that the record of the output
names is the one in the output (`TargetInv`), a manifest names what its file opens
(`NamesInv`), and undisturbed by edits a process knows what is on the disk
(`CurrentInv`); `UpToDateIsCurrent` and `NothingLeftToDo` are its last conjuncts.

**ProjectGraphProofs.** `IndInv` is the types and five parts. `WalkInv` describes the
depth-first walk: the stack is a path of dependencies, and what a frame no longer has to
visit is processed. `ListInv` and `TreeInv` say what the walk has produced: each listed
project comes after the dependencies that are not still on the stack, and each job waits
for those it got. At the end of the walk the processed set is closed under dependencies
and contained in every closed set with the target, which is `Needed`. In an acyclic graph
nothing on the stack depends on something below it, for the part of the stack between the
two would be closed under "has a dependency in it". `LoopInv` and `JobInv` carry this
through the two ways to build: the host's job is the last, so a host that ended without
failure has everything behind it. `JobsAlwaysFormATree` needs no acyclic projects: a
project gets its job from the first that names it, and later ones add no edge
(`UnwalkedInv`). That is why the parallel build ends even where the dependencies are a
circle (`ParallelBuildNeverGetsStuck`), and also why it does not wait for a shared
dependency (section 5).

**ChildProcessProofs.** `ChildInv` ties the place of a thread to the state of its child,
`WritersInv` says who may hold a write end when, `CountInv` that chunks received, in the
pipe and to be written add up to the output. End of file needs every holder gone, among
them the child itself, which closes its end only by exiting, with nothing left to
write: so `OutputIsComplete`. `DirectoryInv` follows the program's directory through the
one `Open` that displaces it, while none overlapped. `ReadersNeverWaitInACircle` is the
safety half of `CallsReturn`: a child that is blocked has a full pipe, so its reader has
something to read; the caller that waits without reading is alone (`WaitsAlone`).

**ChangelogProofs.** `WrittenInv` says what is on disk and committed at each point
after the write, `SettledInv` that a file which no build left loose is the published
one, `UnknownInv` that git does not come to know a fresh file before `Commit`.
`NoEntryLost` follows from `PagesInv`: while the build is reading, each commit it knew is
in what it read or has a rank of at least `offset`, since what others add can only push
it further down (`RankGrows`). The last page ends the reading without loss because a page
with a commit below it is full (`PageIsFull`). That is counted without induction: the
newest `n` commits are at most `n` (all but the oldest of them are above it) and, if a
commit has rank `n`, at least `n` (all above the newest of the others).

`PagesMakeTheChangelog` and `UpdateSettles` have an invariant of their own, `ReadingInv`.
While nobody adds to the clone, what was read is the entries of the newest `offset`
commits, and `current` the version of the oldest update among them; the least of a union
is the lesser of the two leasts, which carries it from page to page. The commit that
checks the changelog in is an update that bears the version of the newest commit before
it, under which the entries above all updates were listed: no group changes its name.

Model-checked only: liveness (`WaitReturns`, `EveryCallReturns`, `CallsReturn`), which
the prover cannot do. Every other property of a passing run has its theorem.

## 5. Where the code differs from what it says

1. `SchedulerRefusal`: `Push` reports a full queue when it was merely overtaken. The
   comment at `JobScheduler.cpp:150` takes a refusal for a full queue; the assertion
   there fails with an almost empty one. The window is short: the pusher must be
   preempted between two loads while others push and pop two jobs.
2. `ProjectsParallel`: a shared dependency is waited for by the first project that
   names it only, against `Project/ProjectSchema.inc:316` and
   `Workspace/WorkspaceSchema.inc:84`.
3. `IncrementalPch`: `BuilderFileInfo.h:68` promises the paths of all other files a
   source file depends on. `Toolchain.cpp:130` copies the record of the PCH source
   before it is compiled; in the first build there is nothing in it to inherit, and an
   edit of a header inside the PCH never recompiles the files that use it. This rests
   on a compiler that does not list those headers, for which the inheritance exists.

4. `ProcessSafety`, `ExitCodeIsAlwaysZero`: `Process.h:86` promises the exit code of the
   process. On Linux and macOS every caller has waited before it asks, a status is
   reported once, and `GetExitCode` returns its initial 0. No failure of a tool is
   noticed. `BuildStages` and `IncrementalBuild`, where tools fail, are therefore models
   of what happens on Windows.
5. `ProcessSafety`, `UnreadOutputBlocks`: `Process.h:83` promises that `Wait` waits until
   the process finishes. `Open` ignores `bRedirectStdInOut`, and a child that nobody reads
   from does not finish once its pipe is full.
6. `ChangelogSafety`, `FirstChangelogIsNotCheckedIn`: `Packagers/Base.inc:38` promises that a
   changelog which differs is checked in. `Exists` is asked before the file is written,
   so the build that first writes it does not add it, and fails to commit it; the next
   finds nothing to do.

The last three are stated as properties that hold, since they describe what the code
does in every behaviour.

## 6. Plan

1. *Done:* the queue, the scheduler, the stages, the graph of projects, the incremental
   build, child processes, the changelog, each with proofs.
2. `IncrementalBuild` further: several projects in one process with libraries between
   them, a change of configuration, user commands; an abstract specification (a build
   that compiles everything) and its refinement. Its run is near what TLC can do, so
   this needs a smaller instance of what there is.
3. Proofs: the refinement of that specification; what the scheduler's theorems assume of
   a graph, for the graphs that the walk of `ProjectGraph` makes.

## 7. Not modelled

- Argument lists of compilers, IDE generators, packagers, the output parser, the command
  line and configuration files: functions of text, sequential, without state between
  calls.
- Slots and versions of `JobScheduler` that are used a second time: `Builder`, its only
  client, creates all jobs before it enqueues one and drops the scheduler afterwards.
- Plugins: what happens to them in a parallel build is undefined behaviour of a
  `std::vector`; in sequence, loading foreign code.
- Accelerators beyond the task that `BuildStages` has for them: a loop that cuts text.
- Windows' processes; `ParallelFor` (dead code); images, archives, streams (bytes);
  vendored libraries, most of the lines of the repository.
