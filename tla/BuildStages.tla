---------------------------- MODULE BuildStages ----------------------------
(***************************************************************************)
(* How Builder::Build (App/Builder/Builder.cpp) runs the tasks of one      *)
(* project: it makes a job per task, orders the jobs by build stage, lets  *)
(* the scheduler run them and, if none failed, writes the manifest.        *)
(*                                                                         *)
(* The scheduler is TaskGraph, which JobScheduler implements.  The graph   *)
(* is complete before anything is enqueued, and a behaviour starts there.  *)
(* A callback takes one step per access to what the callbacks share.       *)
(*                                                                         *)
(* Definitions marked Bug are mutated forms that no action uses.           *)
(***************************************************************************)
EXTENDS Integers, FiniteSets

CONSTANTS
  COUNT,             (* the number of build stages, BuildStage::COUNT      *)
  NumTasks,          (* how many tasks Toolchain::GetTasks returned        *)
  Stage,             (* the stage of each task                             *)
  CanRunInParallel,  (* tasks that may run beside others of their stage    *)
  CanDistribute,     (* tasks that an accelerator may run elsewhere        *)
  GiveJobIndex,      (* tasks that report progress                         *)
  Accelerated        (* an accelerator is available                        *)

Stages == 0 .. COUNT - 1
Tasks == 1 .. NumTasks

ASSUME StagesAssumption == COUNT \in Nat \ {0} /\ NumTasks \in Nat
ASSUME StageAssumption == Stage \in [Tasks -> Stages]
ASSUME TaskKindsAssumption ==
  /\ CanRunInParallel \subseteq Tasks
  /\ CanDistribute \subseteq CanRunInParallel
  /\ GiveJobIndex \subseteq Tasks
ASSUME AcceleratedAssumption == Accelerated \in BOOLEAN

----------------------------------------------------------------------------
(* The jobs and their dependencies.                                        *)

InStage(i) == {t \in Tasks : Stage[t] = i}
DistributableTasks(i) ==
  {t \in InStage(i) : Accelerated /\ t \in CanDistribute}
ParallelTasks(i) == (InStage(i) \cap CanRunInParallel) \ DistributableTasks(i)
SequentialTasks(i) == InStage(i) \ CanRunInParallel

Host == [kind |-> "host", of |-> 0]
StageJob(i) == [kind |-> "stage", of |-> i]
GroupJob(i) == [kind |-> "group", of |-> i]
TaskJob(t) == [kind |-> "task", of |-> t]
AccelerateJob(i) == [kind |-> "accelerate", of |-> i]

(* The distributable tasks of a stage become one AccelerateTask.           *)
ParallelJobs(i) ==
  {TaskJob(t) : t \in ParallelTasks(i)} \cup
  {AccelerateJob(i) : t \in DistributableTasks(i)}

SequentialJobs(i) == {TaskJob(t) : t \in SequentialTasks(i)}

(* What QueueTask made a job for. *)
QueuedJobs == UNION {ParallelJobs(i) \cup SequentialJobs(i) : i \in Stages}

Jobs == {Host} \cup {StageJob(i) : i \in Stages}
               \cup {GroupJob(i) : i \in Stages} \cup QueuedJobs

PreviousStage(i) == {StageJob(k) : k \in {i - 1} \cap Stages}

(* previousSequentialTask: the last one before t in its stage. *)
PreviousSequential(t) ==
  {TaskJob(s) : s \in {s \in SequentialTasks(Stage[t]) :
     s < t /\ \A r \in SequentialTasks(Stage[t]) : r < t => r <= s}}

JobStage(j) == IF j.kind = "task" THEN Stage[j.of] ELSE j.of

IsSequential(j) == j.kind = "task" /\ j.of \notin CanRunInParallel

(* Bug: sequential tasks of a stage wait for its parallel tasks only. *)
SequentialAfterParallel(j) ==
  PreviousStage(JobStage(j)) \cup
  IF IsSequential(j) THEN {GroupJob(JobStage(j))} ELSE {}

(* Bug: a task does not wait for the previous stage. *)
UnorderedByStage(j) ==
  IF IsSequential(j)
  THEN {GroupJob(JobStage(j))} \cup PreviousSequential(j.of)
  ELSE {}

QueuedDependencies(j) ==
  PreviousStage(JobStage(j)) \cup
  IF IsSequential(j)
  THEN {GroupJob(JobStage(j))} \cup PreviousSequential(j.of)
  ELSE {}

Dependencies(j) ==
  CASE j.kind = "host"  -> {StageJob(i) : i \in Stages}
    [] j.kind = "stage" -> PreviousStage(j.of) \cup {GroupJob(j.of)}
                             \cup SequentialJobs(j.of)
    [] j.kind = "group" -> PreviousStage(j.of) \cup ParallelJobs(j.of)
    [] OTHER            -> QueuedDependencies(j)

Graph == [j \in Jobs |-> Dependencies(j)]

GetSubTaskCount(j) ==
  IF j.kind = "accelerate" THEN Cardinality(DistributableTasks(j.of)) + 1
                           ELSE 1

ShouldGiveJobIndex(j) == j.kind = "accelerate" \/ j.of \in GiveJobIndex

(* The sum of GetSubTaskCount over the queued jobs. *)
totalJobs ==
  Cardinality(QueuedJobs)
    + Cardinality(UNION {DistributableTasks(i) : i \in Stages})
----------------------------------------------------------------------------
VARIABLES
  dependsOn,        (* the dependencies of each job, given to the scheduler *)
  phase,            (* how far each job has got, for the scheduler         *)
  returned,         (* Wait(hostJob) has returned                          *)
  at,               (* where the callback of each queued job is            *)
  bBuildFailed,     (* the flag shared by the callbacks                    *)
  currentJobIndex,  (* the progress counter shared by the callbacks        *)
  progress,         (* m_jobIndex of each task, 0 if it was given none     *)
  executed,         (* history: the jobs whose Execute returned true       *)
  failed,           (* history: the jobs whose Execute returned false      *)
  manifestWritten,  (* the manifest of the project is on disk              *)
  result            (* what Build returned                                 *)

jobs == <<dependsOn, phase, returned>>
progressVars == <<currentJobIndex, progress>>
history == <<executed, failed>>
vars == <<dependsOn, phase, returned, at, bBuildFailed, currentJobIndex, progress,
          executed, failed, manifestWritten, result>>

Scheduler == INSTANCE TaskGraph WITH Root <- Host

Init ==
  /\ dependsOn = Graph
  /\ phase = [j \in Jobs |-> "idle"]
  /\ returned = FALSE
  /\ at = [j \in QueuedJobs |-> "idle"]
  /\ bBuildFailed = FALSE
  /\ currentJobIndex = 0
  /\ progress = [j \in QueuedJobs |-> 0]
  /\ executed = {}
  /\ failed = {}
  /\ manifestWritten = FALSE
  /\ result = "none"

Goto(j, from, to) ==
  /\ at[j] = from
  /\ at' = [at EXCEPT ![j] = to]

(* A pool thread starts a job.  Host, stage and group jobs have no         *)
(* callback.                                                               *)
StartJob(j) ==
  /\ Scheduler!Start(j)
  /\ at' = [k \in QueuedJobs |-> IF k = j THEN "test" ELSE at[k]]
  /\ UNCHANGED <<bBuildFailed, progressVars, history, manifestWritten, result>>

(* Bug: the callback does not look at the flag. *)
TestNothing(j) ==
  /\ Goto(j, "test", IF ShouldGiveJobIndex(j) THEN "index" ELSE "execute")
  /\ UNCHANGED <<jobs, bBuildFailed, progressVars, history,
                 manifestWritten, result>>

(* if (bFailureFlag) return *)
TestFailureFlag(j) ==
  /\ Goto(j, "test", IF bBuildFailed THEN "end"
                     ELSE IF ShouldGiveJobIndex(j) THEN "index"
                     ELSE "execute")
  /\ UNCHANGED <<jobs, bBuildFailed, progressVars, history,
                 manifestWritten, result>>

(* Bug: every task advances the counter by one. *)
TakeOneIndex(j) ==
  /\ Goto(j, "index", "execute")
  /\ currentJobIndex' = currentJobIndex + 1
  /\ progress' = [progress EXCEPT ![j] = currentJobIndex + 1]
  /\ UNCHANGED <<jobs, bBuildFailed, history, manifestWritten,
                 result>>

(* Bug: no counter was passed to QueueTask. *)
TakeNoIndex(j) ==
  /\ Goto(j, "index", "execute")
  /\ progress' = [progress EXCEPT ![j] = -2 - GetSubTaskCount(j) + 1]
  /\ UNCHANGED <<jobs, bBuildFailed, currentJobIndex, history, manifestWritten,
                 result>>

(* currentJobIndex += GetSubTaskCount(), then SetTaskProgress *)
TakeIndex(j) ==
  /\ Goto(j, "index", "execute")
  /\ currentJobIndex' = currentJobIndex + GetSubTaskCount(j)
  /\ progress' =
       [progress EXCEPT ![j] = currentJobIndex' - GetSubTaskCount(j) + 1]
  /\ UNCHANGED <<jobs, bBuildFailed, history, manifestWritten,
                 result>>

ExecuteSucceeds(j) ==
  /\ Goto(j, "execute", "end")
  /\ executed' = executed \cup {j}
  /\ UNCHANGED <<jobs, bBuildFailed, progressVars, failed,
                 manifestWritten, result>>

ExecuteFails(j) ==
  /\ Goto(j, "execute", "fail")
  /\ failed' = failed \cup {j}
  /\ UNCHANGED <<jobs, bBuildFailed, progressVars, executed,
                 manifestWritten, result>>

(* Bug: the last task to finish decides. *)
ForgetFailure(j) ==
  /\ Goto(j, "fail", "end")
  /\ UNCHANGED <<jobs, bBuildFailed, progressVars, history,
                 manifestWritten, result>>

(* bFailureFlag = true *)
SetFailureFlag(j) ==
  /\ Goto(j, "fail", "end")
  /\ bBuildFailed' = TRUE
  /\ UNCHANGED <<jobs, progressVars, history, manifestWritten,
                 result>>

FinishJob(j) ==
  /\ Scheduler!Finish(j)
  /\ j \in QueuedJobs => at[j] = "end"
  /\ UNCHANGED <<at, bBuildFailed, progressVars, history, manifestWritten,
                 result>>

----------------------------------------------------------------------------
(* The main thread.                                                        *)

WaitReturns ==
  /\ Scheduler!Return
  /\ UNCHANGED <<at, bBuildFailed, progressVars, history, manifestWritten,
                 result>>

ReportFailure ==
  /\ returned /\ result = "none" /\ bBuildFailed
  /\ result' = "failed"
  /\ UNCHANGED <<jobs, at, bBuildFailed, progressVars, history,
                 manifestWritten>>

(* manifest.Write() *)
WriteManifest ==
  /\ returned /\ result = "none" /\ ~bBuildFailed
  /\ \E written \in BOOLEAN :
       /\ manifestWritten' = written
       /\ result' = IF written THEN "succeeded" ELSE "failed"
  /\ UNCHANGED <<jobs, at, bBuildFailed, progressVars, history>>

CallbackStep(j) ==
  \/ TestFailureFlag(j)
  \/ TakeIndex(j)
  \/ ExecuteSucceeds(j)
  \/ ExecuteFails(j)
  \/ SetFailureFlag(j)

MainStep == WaitReturns \/ ReportFailure \/ WriteManifest

Terminated == result # "none" /\ UNCHANGED vars

Next ==
  \/ \E j \in Jobs : StartJob(j) \/ FinishJob(j)
  \/ \E j \in QueuedJobs : CallbackStep(j)
  \/ MainStep
  \/ Terminated

Spec == Init /\ [][Next]_vars

----------------------------------------------------------------------------
(***************************************************************************)
(* Properties                                                              *)
(***************************************************************************)
Locations == {"idle", "test", "index", "execute", "fail", "end"}

(* Every variable has its type. *)
TypeOK ==
  /\ dependsOn \in [Jobs -> SUBSET Jobs]
  /\ phase \in [Jobs -> {"idle", "running", "done"}]
  /\ returned \in BOOLEAN
  /\ at \in [QueuedJobs -> Locations]
  /\ bBuildFailed \in BOOLEAN
  /\ currentJobIndex \in Nat
  /\ progress \in [QueuedJobs -> Nat]
  /\ executed \subseteq QueuedJobs
  /\ failed \subseteq QueuedJobs
  /\ manifestWritten \in BOOLEAN
  /\ result \in {"none", "succeeded", "failed"}

Executing(j) == at[j] \in {"index", "execute"}

(* The tasks that j comes after: those of earlier stages and, for a        *)
(* sequential task, the parallel tasks of its stage and the sequential     *)
(* tasks before it.                                                        *)
Predecessors(j) ==
  {k \in QueuedJobs :
     \/ JobStage(k) < JobStage(j)
     \/ /\ IsSequential(j)
        /\ JobStage(k) = JobStage(j)
        /\ IsSequential(k) => k.of < j.of}

(* "Each stage is executed sequentially": a task executes only when every  *)
(* task before it has ended, in its own stage and in all earlier ones.     *)
StagesInOrder ==
  \A j \in QueuedJobs :
    Executing(j) => \A k \in Predecessors(j) : phase[k] = "done"

(* A task that cannot run in parallel is "executed one at a time at the    *)
(* end of the phase": nothing of the whole build executes beside it.       *)
SequentialRunsAlone ==
  \A j, k \in QueuedJobs :
    IsSequential(j) /\ Executing(j) /\ Executing(k) => j = k

(* Once a task has failed no task that comes after it executes, although   *)
(* the failing thread sets the flag only after Execute has returned.       *)
FailureStopsBuild ==
  \A j \in QueuedJobs : Executing(j) => Predecessors(j) \cap failed = {}

(* Build succeeds, and the manifest of the project is written, only if     *)
(* every task was executed and none failed.                                *)
SuccessMeansAllExecuted ==
  manifestWritten \/ result = "succeeded" => executed = QueuedJobs /\ failed = {}

(* What the progress display shows: the ranges of indices that tasks take  *)
(* from the shared counter are disjoint and within the total, whatever     *)
(* the order in which the threads get to it.                               *)
Indices(j) ==
  IF progress[j] = 0 THEN {}
  ELSE progress[j] .. progress[j] + GetSubTaskCount(j) - 1

ProgressIsDisjoint ==
  /\ \A j, k \in QueuedJobs : j # k => Indices(j) \cap Indices(k) = {}
  /\ \A j \in QueuedJobs : Indices(j) \subseteq 1 .. totalJobs

(***************************************************************************)
(* The inductive invariant behind these.                                   *)
(***************************************************************************)
GraphInv ==
  /\ dependsOn = Graph
  /\ \A j \in Jobs :
       phase[j] # "idle" => \A d \in Graph[j] : phase[d] = "done"

(* The job of a stage runs only when every task up to that stage has. *)
StageInv ==
  \A i \in Stages : phase[StageJob(i)] # "idle" =>
    \A k \in QueuedJobs : JobStage(k) <= i => phase[k] = "done"

OrderInv ==
  \A j \in QueuedJobs :
    phase[j] # "idle" => \A k \in Predecessors(j) : phase[k] = "done"

LocationInv ==
  \A j \in QueuedJobs :
    /\ at[j] = "idle" <=> phase[j] = "idle"
    /\ phase[j] = "done" => at[j] = "end"

(* A failure is either about to be recorded, or recorded; a job that ended *)
(* without executing saw one. *)
FailureInv ==
  \A j \in QueuedJobs :
    /\ j \in failed => at[j] = "fail" \/ (at[j] = "end" /\ bBuildFailed)
    /\ at[j] = "end" => j \in executed \/ bBuildFailed

ResultInv ==
  /\ returned => phase[Host] = "done"
  /\ manifestWritten \/ result = "succeeded" => returned /\ ~bBuildFailed

IndInv ==
  /\ TypeOK /\ GraphInv /\ StageInv /\ OrderInv /\ LocationInv
  /\ FailureInv /\ FailureStopsBuild /\ ResultInv
============================================================================
