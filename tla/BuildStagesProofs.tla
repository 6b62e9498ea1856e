------------------------- MODULE BuildStagesProofs -------------------------
(***************************************************************************)
(* What holds of BuildStages for any number of stages and any tasks.       *)
(***************************************************************************)
EXTENDS BuildStages, FiniteSetTheorems, WellFoundedInduction, TLAPS

LEMMA KindsOfJobs ==
  /\ \A i \in Stages : StageJob(i) \in Jobs /\ StageJob(i) \notin QueuedJobs
  /\ \A i \in Stages : GroupJob(i) \in Jobs /\ GroupJob(i) \notin QueuedJobs
  /\ Host \in Jobs /\ Host \notin QueuedJobs
  /\ QueuedJobs \subseteq Jobs
  /\ \A j \in QueuedJobs : JobStage(j) \in Stages
<1>1. \A j \in QueuedJobs : j.kind \in {"task", "accelerate"}
  BY DEF QueuedJobs, ParallelJobs, SequentialJobs, TaskJob, AccelerateJob
<1>2. \A j \in QueuedJobs : JobStage(j) \in Stages
  BY StageAssumption DEF QueuedJobs, ParallelJobs, SequentialJobs, TaskJob, AccelerateJob, JobStage,
     ParallelTasks, SequentialTasks, InStage
<1>3. QED
  BY <1>1, <1>2 DEF Jobs, StageJob, GroupJob, Host

(* A queued job is in the group of its stage, or sequential there. *)
LEMMA QueuedInItsStage ==
  ASSUME NEW j \in QueuedJobs
  PROVE  \/ j \in ParallelJobs(JobStage(j)) /\ ~IsSequential(j)
         \/ j \in SequentialJobs(JobStage(j)) /\ IsSequential(j)
BY DEF QueuedJobs, ParallelJobs, SequentialJobs, TaskJob, AccelerateJob, JobStage, IsSequential,
       ParallelTasks, SequentialTasks, DistributableTasks, InStage

LEMMA GraphType ==
  /\ Graph \in [Jobs -> SUBSET Jobs]
  /\ \A i \in Stages :
       Graph[StageJob(i)] = PreviousStage(i) \cup {GroupJob(i)} \cup SequentialJobs(i)
  /\ \A i \in Stages : Graph[GroupJob(i)] = PreviousStage(i) \cup ParallelJobs(i)
  /\ Graph[Host] = {StageJob(i) : i \in Stages}
  /\ \A j \in QueuedJobs : Graph[j] = QueuedDependencies(j)
<1>1. \A i \in Stages : PreviousStage(i) \subseteq Jobs
  BY DEF PreviousStage, Jobs
<1>2. \A i \in Stages : ParallelJobs(i) \subseteq Jobs /\ SequentialJobs(i) \subseteq Jobs
  BY DEF QueuedJobs, Jobs
<1>3. \A i \in Stages : Dependencies(StageJob(i)) =
        PreviousStage(i) \cup {GroupJob(i)} \cup SequentialJobs(i)
  BY DEF Dependencies, StageJob
<1>4. \A i \in Stages : Dependencies(GroupJob(i)) = PreviousStage(i) \cup ParallelJobs(i)
  BY DEF Dependencies, GroupJob
<1>5. Dependencies(Host) = {StageJob(i) : i \in Stages}
  BY DEF Dependencies, Host
<1>6. ASSUME NEW j \in QueuedJobs
      PROVE  Dependencies(j) = QueuedDependencies(j)
  <2>1. j.kind \in {"task", "accelerate"}
    BY DEF QueuedJobs, ParallelJobs, SequentialJobs, TaskJob, AccelerateJob
  <2>2. QED
    BY <2>1 DEF Dependencies
<1>7. ASSUME NEW j \in QueuedJobs
      PROVE  QueuedDependencies(j) \subseteq Jobs
  <2>1. JobStage(j) \in Stages
    BY KindsOfJobs
  <2>2. CASE IsSequential(j)
    <3>1. PreviousSequential(j.of) \subseteq SequentialJobs(JobStage(j))
      BY <2>2 DEF PreviousSequential, SequentialJobs, IsSequential, JobStage
    <3>2. QED
      BY <1>1, <1>2, <2>1, <2>2, <3>1, KindsOfJobs DEF QueuedDependencies
  <2>3. CASE ~IsSequential(j)
    BY <1>1, <2>1, <2>3 DEF QueuedDependencies
  <2>4. QED
    BY <2>2, <2>3
<1>8. ASSUME NEW j \in Jobs
      PROVE  Dependencies(j) \subseteq Jobs
  <2>1. CASE j \in QueuedJobs
    BY <1>6, <1>7, <2>1
  <2>2. CASE j = Host
    BY <1>5, <2>2, KindsOfJobs
  <2>3. ASSUME NEW i \in Stages, j = StageJob(i)
        PROVE  Dependencies(j) \subseteq Jobs
    BY <1>1, <1>2, <1>3, <2>3, KindsOfJobs
  <2>4. ASSUME NEW i \in Stages, j = GroupJob(i)
        PROVE  Dependencies(j) \subseteq Jobs
    BY <1>1, <1>2, <1>4, <2>4, KindsOfJobs
  <2>5. QED
    BY <2>1, <2>2, <2>3, <2>4 DEF Jobs
<1>9. Graph \in [Jobs -> SUBSET Jobs]
  BY <1>8 DEF Graph
<1>10. QED
  BY <1>3, <1>4, <1>5, <1>6, <1>9, KindsOfJobs DEF Graph

(* Among the sequential tasks of its stage before it, a task depends on    *)
(* the last.                                                               *)
LEMMA LastBefore ==
  ASSUME NEW t \in Tasks, NEW s \in SequentialTasks(Stage[t]), s < t
  PROVE  \E m \in SequentialTasks(Stage[t]) :
           s <= m /\ m < t /\ TaskJob(m) \in PreviousSequential(t)
<1> DEFINE before == {r \in SequentialTasks(Stage[t]) : r < t}
           gaps == {t - r : r \in before}
<1>1. before \subseteq Nat /\ t \in Nat /\ s \in Nat
  BY StagesAssumption DEF SequentialTasks, InStage, Tasks
<1>2. gaps \in SUBSET Nat /\ t - s \in gaps
  BY <1>1
<1>3. PICK n \in gaps : \A g \in gaps : n <= g
  <2> DEFINE less == {ss \in Nat \X Nat : ss[1] < ss[2]}
  <2>0. IsWellFoundedOn(less, Nat)
    BY NatLessThanWellFounded DEF OpToRel
  <2> HIDE DEF less
  <2>1. PICK n \in gaps : \A g \in gaps : ~ (<<g, n>> \in less)
    BY <1>2, <2>0, WFMin
  <2>2. ASSUME NEW g \in gaps PROVE n <= g
    <3>1. n \in Nat /\ g \in Nat
      BY <1>2
    <3>2. ~ (g < n)
      BY <2>1, <3>1 DEF less
    <3>3. QED
      BY <3>1, <3>2
  <2>3. QED
    BY <2>2
<1>4. PICK m \in before : n = t - m
  BY <1>3
<1>5. \A r \in before : r <= m
  <2>1. ASSUME NEW r \in before PROVE r <= m
    <3>1. t - m <= t - r /\ r \in Nat /\ m \in Nat
      BY <1>1, <1>3, <1>4
    <3>2. QED
      BY <1>1, <3>1
  <2>2. QED
    BY <2>1
<1>6. QED
  BY <1>4, <1>5 DEF PreviousSequential

----------------------------------------------------------------------------
(* A job that starts comes after everything it should.                     *)
LEMMA StageComplete ==
  ASSUME GraphInv, StageInv, NEW i \in Stages,
         \A d \in Graph[StageJob(i)] : phase[d] = "done",
         NEW k \in QueuedJobs, JobStage(k) <= i
  PROVE  phase[k] = "done"
<1>1. i \in Int /\ JobStage(k) \in Stages /\ JobStage(k) \in Int
  BY KindsOfJobs DEF Stages
<1>2. CASE JobStage(k) = i
  <2>1. CASE k \in SequentialJobs(i)
    BY <2>1, GraphType
  <2>2. CASE k \in ParallelJobs(i)
    <3>1. phase[GroupJob(i)] = "done"
      BY GraphType
    <3>2. QED
      BY <2>2, <3>1, GraphType, KindsOfJobs DEF GraphInv
  <2>3. QED
    BY <1>2, <2>1, <2>2, QueuedInItsStage
<1>3. CASE JobStage(k) < i
  <2>1. i - 1 \in Stages /\ JobStage(k) <= i - 1
    BY <1>1, <1>3, StagesAssumption DEF Stages
  <2>2. phase[StageJob(i - 1)] = "done"
    BY <2>1, GraphType DEF PreviousStage
  <2>3. QED
    BY <2>1, <2>2 DEF StageInv
<1>4. QED
  BY <1>1, <1>2, <1>3

LEMMA PredecessorsDone ==
  ASSUME GraphInv, StageInv, OrderInv, NEW j \in QueuedJobs,
         \A d \in Graph[j] : phase[d] = "done",
         NEW k \in Predecessors(j)
  PROVE  phase[k] = "done"
<1> DEFINE i == JobStage(j)
<1>1. /\ i \in Stages /\ i \in Int /\ k \in QueuedJobs
      /\ JobStage(k) \in Stages /\ JobStage(k) \in Int
      /\ Graph[j] = QueuedDependencies(j)
  BY KindsOfJobs, GraphType DEF Predecessors, Stages
<1>2. CASE JobStage(k) < i
  <2>1. i - 1 \in Stages /\ JobStage(k) <= i - 1
    BY <1>1, <1>2, StagesAssumption DEF Stages
  <2>2. phase[StageJob(i - 1)] = "done"
    BY <1>1, <2>1 DEF PreviousStage, QueuedDependencies
  <2>3. QED
    BY <1>1, <2>1, <2>2 DEF StageInv
<1>3. CASE IsSequential(j) /\ JobStage(k) = i
  <2>1. CASE k \in ParallelJobs(i)
    <3>1. phase[GroupJob(i)] = "done"
      BY <1>1, <1>3 DEF QueuedDependencies
    <3>2. QED
      BY <1>1, <2>1, <3>1, GraphType, KindsOfJobs DEF GraphInv
  <2>2. CASE k \in SequentialJobs(i) /\ IsSequential(k)
    <3>1. PICK t \in SequentialTasks(i) : j = TaskJob(t)
      BY <1>1, <1>3, QueuedInItsStage DEF SequentialJobs
    <3>2. PICK s \in SequentialTasks(i) : k = TaskJob(s)
      BY <2>2 DEF SequentialJobs
    <3>3. t \in Tasks /\ Stage[t] = i /\ s < t /\ j.of = t
      <4>1. t \in Tasks /\ Stage[t] = i /\ j.of = t /\ k.of = s
        BY <3>1, <3>2 DEF TaskJob, SequentialTasks, InStage
      <4>2. ~ (JobStage(k) < i)
        BY <1>1, <1>3
      <4>3. QED
        BY <1>3, <2>2, <4>1, <4>2 DEF Predecessors
    <3>4. PICK m \in SequentialTasks(i) :
            s <= m /\ m < t /\ TaskJob(m) \in PreviousSequential(t)
      BY <3>2, <3>3, LastBefore
    <3>5. phase[TaskJob(m)] = "done"
      BY <1>1, <1>3, <3>3, <3>4 DEF QueuedDependencies
    <3>6. CASE m = s
      BY <3>2, <3>5, <3>6
    <3>7. CASE m # s
      <4>1. s \in Int /\ m \in Int /\ s < m
        BY <3>2, <3>4, <3>7 DEF SequentialTasks, InStage, Tasks
      <4>2. TaskJob(m) \in QueuedJobs
        BY <1>1, <3>4 DEF QueuedJobs, SequentialJobs
      <4>3. k \in Predecessors(TaskJob(m))
        BY <1>1, <3>2, <3>4, <4>1, <4>2
           DEF Predecessors, TaskJob, IsSequential, JobStage, SequentialTasks, InStage
      <4>4. QED
        BY <3>5, <4>2, <4>3 DEF OrderInv
    <3>8. QED
      BY <3>6, <3>7
  <2>3. QED
    BY <1>1, <1>3, <2>1, <2>2, QueuedInItsStage
<1>4. QED
  BY <1>2, <1>3 DEF Predecessors

----------------------------------------------------------------------------
(* A callback step of j moves it from one busy location to another and     *)
(* leaves every job where it is.                                           *)
Busy == {"test", "index", "execute", "fail"}

LEMMA SubTaskCountType ==
  ASSUME NEW j \in QueuedJobs
  PROVE  GetSubTaskCount(j) \in Nat \ {0}
<1>1. IsFiniteSet(Tasks)
  BY StagesAssumption, FS_Interval DEF Tasks
<1>2. IsFiniteSet(DistributableTasks(j.of))
  BY <1>1, FS_Subset DEF DistributableTasks, InStage
<1>3. Cardinality(DistributableTasks(j.of)) \in Nat
  BY <1>2, FS_CardinalityType
<1>4. QED
  BY <1>3 DEF GetSubTaskCount

LEMMA CallbackStepInv ==
  ASSUME IndInv, NEW j \in QueuedJobs, CallbackStep(j)
  PROVE  IndInv'
<1>1. /\ UNCHANGED <<dependsOn, phase, returned, manifestWritten, result>>
      /\ at[j] \in Busy
      /\ \E l \in {"index", "execute", "fail", "end"} : at' = [at EXCEPT ![j] = l]
  BY DEF CallbackStep, TestFailureFlag, TakeIndex, ExecuteSucceeds, ExecuteFails, SetFailureFlag,
         Goto, jobs, Busy
<1>2. /\ phase[j] = "running" /\ at \in [QueuedJobs -> Locations]
      /\ \A k \in QueuedJobs : k # j => at'[k] = at[k]
  BY <1>1, KindsOfJobs DEF IndInv, TypeOK, LocationInv, Busy
<1>3. /\ bBuildFailed' \in BOOLEAN
      /\ bBuildFailed => bBuildFailed'
      /\ executed' \in SUBSET QueuedJobs /\ failed' \in SUBSET QueuedJobs
      /\ executed \subseteq executed' /\ failed \subseteq failed'
      /\ failed' # failed => failed' = failed \cup {j} /\ at'[j] = "fail" /\ at[j] = "execute"
  BY <1>2 DEF CallbackStep, TestFailureFlag, TakeIndex, ExecuteSucceeds, ExecuteFails, SetFailureFlag,
         Goto, history, IndInv, TypeOK
<1>4. currentJobIndex' \in Nat /\ progress' \in [QueuedJobs -> Nat]
  <2>1. CASE TakeIndex(j)
    <3>1. GetSubTaskCount(j) \in Nat /\ currentJobIndex \in Nat
      BY SubTaskCountType DEF IndInv, TypeOK
    <3>2. /\ currentJobIndex' = currentJobIndex + GetSubTaskCount(j)
          /\ progress' = [progress EXCEPT ![j] = currentJobIndex' - GetSubTaskCount(j) + 1]
      BY <2>1 DEF TakeIndex
    <3>3. currentJobIndex' \in Nat /\ currentJobIndex' - GetSubTaskCount(j) + 1 \in Nat
      BY <3>1, <3>2
    <3>4. QED
      BY <3>2, <3>3 DEF IndInv, TypeOK
  <2>2. CASE ~TakeIndex(j)
    BY <2>2 DEF CallbackStep, TestFailureFlag, ExecuteSucceeds, ExecuteFails, SetFailureFlag,
       progressVars, IndInv, TypeOK
  <2>3. QED
    BY <2>1, <2>2
<1>5. TypeOK'
  <2>1. at' \in [QueuedJobs -> Locations]
    BY <1>1, <1>2 DEF Locations
  <2>2. QED
    BY <1>1, <1>3, <1>4, <2>1 DEF IndInv, TypeOK
<1>6. GraphInv' /\ StageInv'
  BY <1>1 DEF IndInv, GraphInv, StageInv
<1>61. OrderInv'
  BY <1>1 DEF IndInv, OrderInv
<1>7. LocationInv'
  <2>1. at'[j] # "idle"
    BY <1>1, <1>2
  <2>2. QED
    BY <1>1, <1>2, <2>1 DEF IndInv, LocationInv
<1>8. FailureInv'
  <2>1. ASSUME NEW k \in QueuedJobs, k # j
        PROVE  /\ k \in failed' => at'[k] = "fail" \/ (at'[k] = "end" /\ bBuildFailed')
               /\ at'[k] = "end" => k \in executed' \/ bBuildFailed'
    BY <1>2, <1>3, <2>1 DEF IndInv, FailureInv
  <2>2. /\ j \in failed' => at'[j] = "fail" \/ (at'[j] = "end" /\ bBuildFailed')
        /\ at'[j] = "end" => j \in executed' \/ bBuildFailed'
    <3>1. at[j] = "fail" \/ j \notin failed
      BY <1>1 DEF IndInv, FailureInv, Busy
    <3>2. CASE TestFailureFlag(j)
      BY <1>2, <3>1, <3>2 DEF TestFailureFlag, Goto, history
    <3>3. CASE TakeIndex(j) \/ ExecuteSucceeds(j) \/ ExecuteFails(j)
      BY <1>2, <3>1, <3>3 DEF TakeIndex, ExecuteSucceeds, ExecuteFails, Goto, history
    <3>4. CASE SetFailureFlag(j)
      BY <1>2, <3>4 DEF SetFailureFlag, Goto
    <3>5. QED
      BY <3>2, <3>3, <3>4 DEF CallbackStep
  <2>3. QED
    BY <2>1, <2>2 DEF FailureInv
<1>9. FailureStopsBuild'
  <2>1. SUFFICES ASSUME NEW k \in QueuedJobs, Executing(k)', NEW f \in Predecessors(k), f \in failed'
                 PROVE  FALSE
    BY DEF FailureStopsBuild, Predecessors
  <2>2. k \in QueuedJobs /\ f \in QueuedJobs
    BY DEF Predecessors
  <2>3. at'[k] # "idle"
    BY <2>1 DEF Executing
  <2>4. phase[k] # "idle"
    BY <1>1, <1>7, <2>2, <2>3 DEF LocationInv
  <2>5. phase[f] = "done" /\ at[f] = "end"
    BY <2>2, <2>4 DEF IndInv, OrderInv, LocationInv
  <2>6. f # j /\ f \in failed
    BY <1>1, <1>3, <2>1, <2>5 DEF Busy
  <2>7. bBuildFailed
    BY <2>2, <2>5, <2>6 DEF IndInv, FailureInv
  <2>8. Executing(k)
    <3>1. CASE k # j
      BY <1>2, <2>1, <2>2, <3>1 DEF Executing
    <3>2. CASE k = j
      BY <1>2, <2>1, <2>7, <3>2 DEF Executing, CallbackStep, TestFailureFlag, TakeIndex,
         ExecuteSucceeds, ExecuteFails, SetFailureFlag, Goto
    <3>3. QED
      BY <3>1, <3>2
  <2>9. QED
    BY <2>2, <2>6, <2>8 DEF IndInv, FailureStopsBuild
<1>10. ResultInv'
  <2>1. CASE manifestWritten \/ result = "succeeded"
    <3>1. returned /\ phase[Host] = "done"
      BY <2>1 DEF IndInv, ResultInv
    <3>2. phase[StageJob(JobStage(j))] = "done"
      BY <3>1, GraphType, KindsOfJobs DEF IndInv, GraphInv
    <3>3. JobStage(j) \in Stages /\ JobStage(j) <= JobStage(j)
      BY KindsOfJobs DEF Stages
    <3>4. phase[j] = "done"
      BY <3>2, <3>3 DEF IndInv, StageInv
    <3>5. QED
      BY <1>2, <3>4
  <2>2. CASE ~(manifestWritten \/ result = "succeeded")
    BY <1>1, <2>2 DEF IndInv, ResultInv
  <2>3. QED
    BY <2>1, <2>2
<1>11. QED
  BY <1>5, <1>6, <1>61, <1>7, <1>8, <1>9, <1>10 DEF IndInv

LEMMA StartJobInv ==
  ASSUME IndInv, NEW j \in Jobs, StartJob(j)
  PROVE  IndInv'
<1>1. /\ UNCHANGED <<dependsOn, returned, bBuildFailed, currentJobIndex, progress, executed,
                     failed, manifestWritten, result>>
      /\ phase[j] = "idle" /\ \A d \in Graph[j] : phase[d] = "done"
      /\ phase' = [phase EXCEPT ![j] = "running"]
      /\ at' = [k \in QueuedJobs |-> IF k = j THEN "test" ELSE at[k]]
  BY DEF StartJob, Scheduler!Start, progressVars, history, IndInv, GraphInv
<1>2. /\ \A k \in Jobs : k # j => phase'[k] = phase[k]
      /\ phase'[j] = "running"
      /\ \A k \in Jobs : phase[k] = "done" => phase'[k] = "done"
      /\ \A k \in Jobs : phase'[k] = "done" => phase[k] = "done"
  BY <1>1 DEF IndInv, TypeOK
<1>3. TypeOK'
  BY <1>1 DEF IndInv, TypeOK, Locations
<1>4. GraphInv'
  <2>1. ASSUME NEW k \in Jobs, phase'[k] # "idle", NEW d \in Graph[k]
        PROVE  phase'[d] = "done"
    <3>1. d \in Jobs
      BY GraphType
    <3>2. phase[d] = "done"
      BY <1>1, <1>2, <2>1 DEF IndInv, GraphInv
    <3>3. QED
      BY <1>2, <3>1, <3>2
  <2>2. QED
    BY <1>1, <2>1 DEF IndInv, GraphInv
<1>5. StageInv'
  <2>1. ASSUME NEW i \in Stages, phase'[StageJob(i)] # "idle",
               NEW k \in QueuedJobs, JobStage(k) <= i
        PROVE  phase'[k] = "done"
    <3>1. phase[k] = "done"
      <4>1. CASE StageJob(i) = j
        BY <1>1, <2>1, <4>1, StageComplete DEF IndInv
      <4>2. CASE StageJob(i) # j
        BY <1>2, <2>1, <4>2, KindsOfJobs DEF IndInv, StageInv
      <4>3. QED
        BY <4>1, <4>2
    <3>2. QED
      BY <1>2, <3>1, KindsOfJobs
  <2>2. QED
    BY <2>1 DEF StageInv
<1>6. OrderInv'
  <2>1. ASSUME NEW q \in QueuedJobs, phase'[q] # "idle", NEW k \in Predecessors(q)
        PROVE  phase'[k] = "done"
    <3>1. phase[k] = "done"
      <4>1. CASE q = j
        BY <1>1, <4>1, PredecessorsDone DEF IndInv
      <4>2. CASE q # j
        BY <1>2, <2>1, <4>2, KindsOfJobs DEF IndInv, OrderInv
      <4>3. QED
        BY <4>1, <4>2
    <3>2. QED
      BY <1>2, <3>1, KindsOfJobs DEF Predecessors
  <2>2. QED
    BY <2>1 DEF OrderInv
<1>7. LocationInv'
  BY <1>1, <1>2, KindsOfJobs DEF IndInv, LocationInv
<1>8. FailureInv' /\ FailureStopsBuild'
  <2>1. \A k \in QueuedJobs : at'[k] = at[k] \/ (at[k] = "idle" /\ at'[k] = "test")
    BY <1>1, KindsOfJobs DEF IndInv, LocationInv
  <2>2. FailureInv'
    BY <1>1, <2>1 DEF IndInv, FailureInv
  <2>3. FailureStopsBuild'
    BY <1>1, <2>1 DEF IndInv, FailureStopsBuild, Executing
  <2>4. QED
    BY <2>2, <2>3
<1>9. ResultInv'
  BY <1>1, <1>2, KindsOfJobs DEF IndInv, ResultInv
<1>10. QED
  BY <1>3, <1>4, <1>5, <1>6, <1>7, <1>8, <1>9 DEF IndInv

LEMMA FinishJobInv ==
  ASSUME IndInv, NEW j \in Jobs, FinishJob(j)
  PROVE  IndInv'
<1>1. /\ UNCHANGED <<dependsOn, returned, at, bBuildFailed, currentJobIndex, progress, executed,
                     failed, manifestWritten, result>>
      /\ phase[j] = "running" /\ phase' = [phase EXCEPT ![j] = "done"]
      /\ j \in QueuedJobs => at[j] = "end"
  BY DEF FinishJob, Scheduler!Finish, progressVars, history
<1>2. /\ \A k \in Jobs : phase[k] = "done" => phase'[k] = "done"
      /\ \A k \in Jobs : phase'[k] # "idle" <=> phase[k] # "idle"
      /\ \A k \in Jobs : k # j => phase'[k] = phase[k]
  BY <1>1 DEF IndInv, TypeOK
<1>3. TypeOK'
  BY <1>1 DEF IndInv, TypeOK
<1>4. GraphInv'
  BY <1>1, <1>2, GraphType DEF IndInv, GraphInv
<1>5. StageInv'
  BY <1>2, KindsOfJobs DEF IndInv, StageInv
<1>6. OrderInv'
  BY <1>2, KindsOfJobs DEF IndInv, OrderInv, Predecessors
<1>7. LocationInv'
  BY <1>1, <1>2, KindsOfJobs DEF IndInv, LocationInv
<1>8. FailureInv' /\ FailureStopsBuild'
  BY <1>1 DEF IndInv, FailureInv, FailureStopsBuild, Executing
<1>9. ResultInv'
  BY <1>1, <1>2, KindsOfJobs DEF IndInv, ResultInv
<1>10. QED
  BY <1>3, <1>4, <1>5, <1>6, <1>7, <1>8, <1>9 DEF IndInv

LEMMA MainStepInv ==
  ASSUME IndInv, MainStep
  PROVE  IndInv'
<1>1. /\ UNCHANGED <<dependsOn, phase, at, bBuildFailed, currentJobIndex, progress, executed,
                     failed>>
      /\ returned' \in BOOLEAN /\ manifestWritten' \in BOOLEAN
      /\ result' \in {"none", "succeeded", "failed"}
      /\ returned' => returned \/ phase[Host] = "done"
      /\ manifestWritten' \/ result' = "succeeded" => returned' /\ ~bBuildFailed
  <2>1. CASE WaitReturns
    BY <2>1, Zenon DEF WaitReturns, Scheduler!Return, progressVars, history, IndInv, TypeOK,
                       ResultInv
  <2>2. CASE ReportFailure
    BY <2>2, Zenon DEF ReportFailure, progressVars, history, jobs, IndInv, TypeOK, ResultInv
  <2>3. CASE WriteManifest
    <3>1. PICK written \in BOOLEAN :
            manifestWritten' = written /\ result' = IF written THEN "succeeded" ELSE "failed"
      BY <2>3 DEF WriteManifest
    <3>2. /\ returned /\ ~bBuildFailed
          /\ UNCHANGED <<dependsOn, phase, returned, at, bBuildFailed, currentJobIndex, progress,
                         executed, failed>>
      BY <2>3 DEF WriteManifest, progressVars, history, jobs
    <3>3. manifestWritten' \in BOOLEAN /\ result' \in {"none", "succeeded", "failed"}
      BY <3>1, Zenon
    <3>4. QED
      BY <3>2, <3>3, Zenon DEF IndInv, TypeOK
  <2>4. QED
    BY <2>1, <2>2, <2>3 DEF MainStep
<1>2. TypeOK'
  BY <1>1 DEF IndInv, TypeOK
<1>3. GraphInv' /\ StageInv' /\ OrderInv' /\ LocationInv'
  BY <1>1 DEF IndInv, GraphInv, StageInv, OrderInv, LocationInv
<1>4. FailureInv' /\ FailureStopsBuild'
  BY <1>1 DEF IndInv, FailureInv, FailureStopsBuild, Executing
<1>5. ResultInv'
  BY <1>1 DEF IndInv, ResultInv
<1>6. QED
  BY <1>2, <1>3, <1>4, <1>5 DEF IndInv

THEOREM IndInvHolds == Spec => []IndInv
<1>1. Init => IndInv
  <2>1. SUFFICES ASSUME Init PROVE IndInv
    OBVIOUS
  <2>2. /\ \A j \in Jobs : phase[j] = "idle"
        /\ \A j \in QueuedJobs : at[j] = "idle"
    BY <2>1 DEF Init
  <2>3. TypeOK
    BY <2>1, GraphType DEF Init, TypeOK, Locations
  <2>4. GraphInv /\ StageInv /\ OrderInv /\ LocationInv
    BY <2>1, <2>2, KindsOfJobs DEF Init, GraphInv, StageInv, OrderInv, LocationInv
  <2>5. FailureInv /\ FailureStopsBuild /\ ResultInv
    BY <2>1, <2>2 DEF Init, FailureInv, FailureStopsBuild, Executing, ResultInv
  <2>6. QED
    BY <2>3, <2>4, <2>5 DEF IndInv
<1>2. IndInv /\ [Next]_vars => IndInv'
  <2>1. SUFFICES ASSUME IndInv, [Next]_vars PROVE IndInv'
    OBVIOUS
  <2>2. CASE UNCHANGED vars
    BY <2>1, <2>2 DEF vars, IndInv, TypeOK, GraphInv, StageInv, OrderInv, LocationInv, FailureInv,
                      FailureStopsBuild, Executing, ResultInv
  <2>3. CASE Next
    BY <2>1, <2>2, <2>3, CallbackStepInv, StartJobInv, FinishJobInv, MainStepInv
       DEF Next, Terminated
  <2>4. QED
    BY <2>1, <2>2, <2>3
<1>3. QED
  BY <1>1, <1>2, PTL DEF Spec

(* Every variable of a build keeps its type. *)
THEOREM TypeCorrect == Spec => []TypeOK
BY IndInvHolds, PTL DEF IndInv

(* Stages are executed one after the other, for any tasks in any stages.   *)
THEOREM StagesExecuteInOrder == Spec => []StagesInOrder
<1>1. IndInv => StagesInOrder
  BY DEF IndInv, StagesInOrder, OrderInv, LocationInv, Executing
<1>2. QED
  BY <1>1, IndInvHolds, PTL

(* A task that cannot run in parallel executes alone. *)
THEOREM SequentialTasksRunAlone == Spec => []SequentialRunsAlone
<1>1. ASSUME IndInv, NEW j \in QueuedJobs, NEW k \in QueuedJobs, IsSequential(j), Executing(j),
             Executing(k), j # k
      PROVE  FALSE
  <2>1. ASSUME NEW q \in QueuedJobs, Executing(q)
        PROVE  phase[q] # "idle" /\ phase[q] # "done"
    <3>1. at[q] # "idle" /\ at[q] # "end"
      BY <2>1 DEF Executing
    <3>2. QED
      BY <1>1, <3>1 DEF IndInv, LocationInv
  <2>2. k \notin Predecessors(j) /\ j \notin Predecessors(k)
    BY <1>1, <2>1 DEF IndInv, OrderInv
  <2>3. JobStage(j) \in Int /\ JobStage(k) \in Int
    BY KindsOfJobs DEF Stages
  <2>4. JobStage(k) = JobStage(j)
    BY <2>2, <2>3 DEF Predecessors
  <2>5. CASE ~IsSequential(k)
    BY <1>1, <2>2, <2>4, <2>5 DEF Predecessors
  <2>6. CASE IsSequential(k)
    <3>1. PICK s \in Tasks, t \in Tasks : j = TaskJob(s) /\ k = TaskJob(t)
      BY <1>1, <2>6, QueuedInItsStage DEF SequentialJobs, SequentialTasks, InStage
    <3>2. s \in Int /\ t \in Int /\ s # t /\ j.of = s /\ k.of = t
      BY <1>1, <3>1 DEF TaskJob, Tasks
    <3>3. s < t \/ t < s
      BY <3>2
    <3>4. QED
      BY <1>1, <2>2, <2>4, <2>6, <3>2, <3>3 DEF Predecessors
  <2>7. QED
    BY <2>5, <2>6
<1>2. IndInv => SequentialRunsAlone
  BY <1>1 DEF SequentialRunsAlone
<1>3. QED
  BY <1>2, IndInvHolds, PTL

(* No task executes after a failure that it comes after. *)
THEOREM NothingExecutesAfterAFailure == Spec => []FailureStopsBuild
BY IndInvHolds, PTL DEF IndInv

(* A build that succeeds, or writes its manifest, executed every task and  *)
(* none of them failed.                                                    *)
THEOREM SuccessIsComplete == Spec => []SuccessMeansAllExecuted
<1>1. IndInv => SuccessMeansAllExecuted
  <2>1. SUFFICES ASSUME IndInv, manifestWritten \/ result = "succeeded"
                 PROVE  executed = QueuedJobs /\ failed = {}
    BY DEF SuccessMeansAllExecuted
  <2>2. returned /\ ~bBuildFailed /\ phase[Host] = "done"
    BY <2>1 DEF IndInv, ResultInv
  <2>3. ASSUME NEW j \in QueuedJobs
        PROVE  at[j] = "end"
    <3>1. phase[StageJob(JobStage(j))] = "done"
      BY <2>1, <2>2, GraphType, KindsOfJobs DEF IndInv, GraphInv
    <3>2. JobStage(j) \in Stages /\ JobStage(j) <= JobStage(j)
      BY KindsOfJobs DEF Stages
    <3>3. phase[j] = "done"
      BY <2>1, <3>1, <3>2 DEF IndInv, StageInv
    <3>4. QED
      BY <2>1, <3>3 DEF IndInv, LocationInv
  <2>4. QED
    BY <2>1, <2>2, <2>3 DEF IndInv, TypeOK, FailureInv
<1>2. QED
  BY <1>1, IndInvHolds, PTL
----------------------------------------------------------------------------
(* The progress counter.                                                   *)

(* The jobs that have a number, and the tasks that those of an accelerator *)
(* stand for. *)
Taken == {j \in QueuedJobs : progress[j] # 0}
TakenTasks ==
  UNION {DistributableTasks(i) : i \in {i \in Stages : AccelerateJob(i) \in Taken}}

(* The counter has counted exactly these, and all ranges lie below it. *)
ProgressInv ==
  /\ \A j \in Taken : at[j] \notin {"idle", "test", "index"}
  /\ currentJobIndex = Cardinality(Taken) + Cardinality(TakenTasks)
  /\ \A j \in QueuedJobs : Indices(j) \subseteq 1 .. currentJobIndex
  /\ \A j, k \in QueuedJobs : j # k => Indices(j) \cap Indices(k) = {}

LEMMA FiniteJobs ==
  /\ IsFiniteSet(QueuedJobs)
  /\ IsFiniteSet(Tasks)
<1> DEFINE taskJobs == {TaskJob(t) : t \in Tasks}
           accelerateJobs == {AccelerateJob(i) : i \in Stages}
<1>1. IsFiniteSet(Tasks) /\ IsFiniteSet(Stages)
  BY StagesAssumption, FS_Interval DEF Tasks, Stages
<1>2. IsFiniteSet(taskJobs)
  <2>1. [t \in Tasks |-> TaskJob(t)] \in Surjection(Tasks, taskJobs)
    BY DEF Surjection
  <2>2. QED
    BY <1>1, <2>1, FS_Surjection
<1>3. IsFiniteSet(accelerateJobs)
  <2>1. [i \in Stages |-> AccelerateJob(i)] \in Surjection(Stages, accelerateJobs)
    BY DEF Surjection
  <2>2. QED
    BY <1>1, <2>1, FS_Surjection
<1>4. IsFiniteSet(taskJobs \cup accelerateJobs)
  BY <1>2, <1>3, FS_Union
<1>5. QueuedJobs \subseteq taskJobs \cup accelerateJobs
  BY DEF QueuedJobs, ParallelJobs, SequentialJobs, ParallelTasks, SequentialTasks, InStage
<1>6. QED
  BY <1>1, <1>4, <1>5, FS_Subset

LEMMA InitProgressInv == Init => ProgressInv
<1> SUFFICES ASSUME Init PROVE ProgressInv
  OBVIOUS
<1>1. Taken = {} /\ TakenTasks = {}
  BY DEF Init, Taken, TakenTasks
<1>2. \A j \in QueuedJobs : Indices(j) = {}
  BY DEF Init, Indices
<1>3. QED
  BY <1>1, <1>2, FS_EmptySet DEF Init, ProgressInv

(* A job that takes a number adds what it stands for to the counter. *)
LEMMA TakeIndexCounts ==
  ASSUME IndInv, ProgressInv, NEW j \in QueuedJobs, TakeIndex(j)
  PROVE  /\ Taken' = Taken \cup {j}
         /\ Cardinality(Taken') + Cardinality(TakenTasks')
              = Cardinality(Taken) + Cardinality(TakenTasks) + GetSubTaskCount(j)
<1>1. /\ at[j] = "index" /\ j \notin Taken
      /\ currentJobIndex \in Nat /\ progress \in [QueuedJobs -> Nat]
  BY DEF TakeIndex, Goto, IndInv, TypeOK, ProgressInv
<1>2. /\ progress'[j] = currentJobIndex + 1
      /\ \A k \in QueuedJobs : k # j => progress'[k] = progress[k]
  BY <1>1, SubTaskCountType DEF TakeIndex
<1>3. Taken' = Taken \cup {j}
  BY <1>1, <1>2 DEF Taken
<1>4. IsFiniteSet(Taken) /\ IsFiniteSet(TakenTasks)
  <2>1. Taken \subseteq QueuedJobs /\ TakenTasks \subseteq Tasks
    BY DEF Taken, TakenTasks, DistributableTasks, InStage
  <2>2. QED
    BY <2>1, FiniteJobs, FS_Subset
<1>5. Cardinality(Taken') = Cardinality(Taken) + 1
  BY <1>1, <1>3, <1>4, FS_AddElement
<1>6. Cardinality(Taken) \in Nat /\ Cardinality(TakenTasks) \in Nat
  BY <1>4, FS_CardinalityType
<1>7. CASE j.kind # "accelerate"
  <2>1. \A i \in Stages : AccelerateJob(i) # j
    BY <1>7 DEF AccelerateJob
  <2>2. TakenTasks' = TakenTasks
    BY <1>3, <2>1 DEF TakenTasks
  <2>3. GetSubTaskCount(j) = 1
    BY <1>7 DEF GetSubTaskCount
  <2>4. QED
    BY <1>3, <1>5, <1>6, <2>2, <2>3
<1>8. CASE j.kind = "accelerate"
  <2>1. PICK i \in Stages : j = AccelerateJob(i)
    BY <1>8 DEF QueuedJobs, ParallelJobs, SequentialJobs, TaskJob
  <2>2. j.of = i /\ \A k \in Stages : AccelerateJob(k) = j <=> k = i
    BY <2>1 DEF AccelerateJob
  <2>3. TakenTasks' = TakenTasks \cup DistributableTasks(i)
    BY <1>3, <2>2 DEF TakenTasks
  <2>4. TakenTasks \cap DistributableTasks(i) = {}
    BY <1>1, <2>1 DEF TakenTasks, DistributableTasks, InStage
  <2>5. IsFiniteSet(DistributableTasks(i))
    BY FiniteJobs, FS_Subset DEF DistributableTasks, InStage
  <2>6. Cardinality(DistributableTasks(i)) \in Nat
    BY <2>5, FS_CardinalityType
  <2>7. Cardinality(TakenTasks')
          = Cardinality(TakenTasks) + Cardinality(DistributableTasks(i))
    BY <1>4, <1>6, <2>3, <2>4, <2>5, <2>6, FS_Union, FS_EmptySet
  <2>8. GetSubTaskCount(j) = Cardinality(DistributableTasks(i)) + 1
    BY <1>8, <2>2 DEF GetSubTaskCount
  <2>9. QED
    BY <1>3, <1>5, <1>6, <2>6, <2>7, <2>8
<1>9. QED
  BY <1>7, <1>8

LEMMA TakeIndexProgress ==
  ASSUME IndInv, ProgressInv, NEW j \in QueuedJobs, TakeIndex(j)
  PROVE  ProgressInv'
<1> DEFINE n == GetSubTaskCount(j)
<1>1. n \in Nat \ {0} /\ currentJobIndex \in Nat /\ progress \in [QueuedJobs -> Nat]
  BY SubTaskCountType DEF IndInv, TypeOK
<1>2. /\ currentJobIndex' = currentJobIndex + n
      /\ progress'[j] = currentJobIndex + 1
      /\ \A k \in QueuedJobs : k # j => progress'[k] = progress[k]
  BY <1>1 DEF TakeIndex
<1> HIDE DEF n
<1>3. Indices(j)' = currentJobIndex + 1 .. currentJobIndex + n
  BY <1>1, <1>2 DEF Indices, n
<1>4. \A k \in QueuedJobs : k # j => Indices(k)' = Indices(k)
  BY <1>2 DEF Indices
<1>5. \A k \in QueuedJobs : Indices(k) \subseteq 1 .. currentJobIndex
  BY DEF ProgressInv
<1>6. ASSUME NEW k \in QueuedJobs
      PROVE  Indices(k)' \subseteq 1 .. currentJobIndex'
  BY <1>1, <1>2, <1>3, <1>4, <1>5
<1>7. ASSUME NEW k \in QueuedJobs, k # j
      PROVE  Indices(j)' \cap Indices(k)' = {}
  BY <1>1, <1>3, <1>4, <1>5, <1>7
<1>8. ASSUME NEW k \in QueuedJobs, NEW l \in QueuedJobs, k # l
      PROVE  Indices(k)' \cap Indices(l)' = {}
  BY <1>4, <1>7, <1>8 DEF ProgressInv
<1>9. currentJobIndex' = Cardinality(Taken') + Cardinality(TakenTasks')
  BY <1>1, <1>2, TakeIndexCounts DEF ProgressInv, n
<1>10. \A k \in Taken' : at'[k] \notin {"idle", "test", "index"}
  <2>1. Taken' = Taken \cup {j}
    BY TakeIndexCounts
  <2>2. at'[j] = "execute" /\ \A k \in QueuedJobs : k # j => at'[k] = at[k]
    BY DEF TakeIndex, Goto, IndInv, TypeOK
  <2>3. QED
    BY <2>1, <2>2 DEF ProgressInv, Taken
<1>11. QED
  BY <1>6, <1>8, <1>9, <1>10 DEF ProgressInv

(* No other step takes a number, and none goes back. *)
LEMMA OtherProgress ==
  ASSUME IndInv, ProgressInv, UNCHANGED progressVars,
         \A k \in QueuedJobs : at[k] \notin {"idle", "test", "index"} =>
                                 at'[k] \notin {"idle", "test", "index"}
  PROVE  ProgressInv'
<1>1. Taken' = Taken /\ TakenTasks' = TakenTasks
  BY DEF Taken, TakenTasks, progressVars
<1>2. \A k \in QueuedJobs : Indices(k)' = Indices(k)
  BY DEF Indices, progressVars
<1>3. QED
  BY <1>1, <1>2 DEF ProgressInv, progressVars, Taken

LEMMA NextProgressInv ==
  ASSUME IndInv, ProgressInv, [Next]_vars
  PROVE  ProgressInv'
<1>1. ASSUME NEW j \in QueuedJobs, TakeIndex(j)
      PROVE  ProgressInv'
  BY <1>1, TakeIndexProgress
<1>2. ASSUME NEW j \in QueuedJobs, CallbackStep(j), ~TakeIndex(j)
      PROVE  ProgressInv'
  <2>1. /\ UNCHANGED progressVars
        /\ \E l \in Locations :
             at' = [at EXCEPT ![j] = l] /\ (at[j] # "test" => l \in {"fail", "end"})
        /\ at[j] # "index"
    BY <1>2 DEF CallbackStep, TestFailureFlag, ExecuteSucceeds, ExecuteFails, SetFailureFlag, Goto,
       Locations
  <2>2. \A k \in QueuedJobs : at[k] \notin {"idle", "test", "index"} =>
                                at'[k] \notin {"idle", "test", "index"}
    BY <2>1 DEF IndInv, TypeOK
  <2>3. QED
    BY <2>1, <2>2, OtherProgress
<1>3. ASSUME NEW j \in Jobs, StartJob(j)
      PROVE  ProgressInv'
  <2>1. UNCHANGED progressVars /\ at' = [k \in QueuedJobs |-> IF k = j THEN "test" ELSE at[k]]
    BY <1>3 DEF StartJob
  <2>2. phase[j] = "idle"
    BY <1>3 DEF StartJob, Scheduler!Start
  <2>3. j \in QueuedJobs => at[j] = "idle"
    BY <2>2 DEF IndInv, LocationInv
  <2>4. QED
    BY <2>1, <2>3, OtherProgress
<1>4. CASE (\E j \in Jobs : FinishJob(j)) \/ MainStep \/ UNCHANGED vars
  <2>1. UNCHANGED progressVars /\ UNCHANGED at
    BY <1>4 DEF FinishJob, MainStep, WaitReturns, ReportFailure, WriteManifest, vars, progressVars
  <2>2. QED
    BY <2>1, OtherProgress
<1>5. QED
  BY <1>1, <1>2, <1>3, <1>4 DEF Next, Terminated

(* The numbers that tasks show do not overlap, and none is larger than the *)
(* total, for any tasks and any interleaving of their callbacks.           *)
THEOREM ProgressNeverOverlaps == Spec => []ProgressIsDisjoint
<1>1. IndInv /\ ProgressInv => ProgressIsDisjoint
  <2>1. SUFFICES ASSUME IndInv, ProgressInv PROVE ProgressIsDisjoint
    OBVIOUS
  <2> DEFINE all == UNION {DistributableTasks(i) : i \in Stages}
  <2>2. Taken \subseteq QueuedJobs /\ TakenTasks \subseteq all /\ all \subseteq Tasks
    BY DEF Taken, TakenTasks, DistributableTasks, InStage
  <2>3. IsFiniteSet(all) /\ IsFiniteSet(Taken) /\ IsFiniteSet(TakenTasks)
    BY <2>2, FiniteJobs, FS_Subset
  <2>4. /\ Cardinality(Taken) <= Cardinality(QueuedJobs)
        /\ Cardinality(TakenTasks) <= Cardinality(all)
    BY <2>2, <2>3, FiniteJobs, FS_Subset
  <2>5. /\ Cardinality(Taken) \in Nat /\ Cardinality(TakenTasks) \in Nat
        /\ Cardinality(QueuedJobs) \in Nat /\ Cardinality(all) \in Nat
    BY <2>3, FiniteJobs, FS_CardinalityType
  <2>6. currentJobIndex <= totalJobs /\ currentJobIndex \in Nat /\ totalJobs \in Nat
    BY <2>1, <2>4, <2>5 DEF ProgressInv, totalJobs
  <2>7. 1 .. currentJobIndex \subseteq 1 .. totalJobs
    BY <2>6
  <2>8. QED
    BY <2>1, <2>7 DEF ProgressIsDisjoint, ProgressInv
<1>2. Spec => []ProgressInv
  <2>1. ProgressInv /\ IndInv /\ [Next]_vars => ProgressInv'
    BY NextProgressInv
  <2>2. QED
    BY <2>1, InitProgressInv, IndInvHolds, PTL DEF Spec
<1>3. QED
  BY <1>1, <1>2, IndInvHolds, PTL

----------------------------------------------------------------------------
(***************************************************************************)
(* What JobScheduler asks of the graph that Build makes.                   *)
(***************************************************************************)

(* Every job but the host job is a dependency of another, so that          *)
(* enqueueing the host job reaches it.                                     *)
HangsBelowHost ==
  \A j \in Jobs \ {Host} : \E p \in Jobs : j \in Graph[p]

(* No job depends on itself, directly or not: no set of jobs has, for each *)
(* of them, another in the set that depends on it.                         *)
GraphIsAcyclic ==
  \A S \in SUBSET Jobs : (\A j \in S : \E p \in S : j \in Graph[p]) => S = {}

(* Where a job comes in the build: its stage, the host job after the last, *)
(* and its place in the stage: the group job after what runs in parallel,  *)
(* the sequential tasks in their order, and the job of the stage last.     *)
Column(j) == IF j.kind = "host" THEN COUNT ELSE JobStage(j)
Place(j) ==
  CASE j.kind = "stage" -> NumTasks + 2
    [] j.kind = "group" -> 1
    [] IsSequential(j)  -> j.of + 1
    [] OTHER            -> 0

Before(d, j) ==
  Column(d) < Column(j) \/ (Column(d) = Column(j) /\ Place(d) < Place(j))

LEMMA Places ==
  /\ Column(Host) = COUNT /\ Place(Host) = 0
  /\ \A i \in Stages : Column(StageJob(i)) = i /\ Place(StageJob(i)) = NumTasks + 2
  /\ \A i \in Stages : Column(GroupJob(i)) = i /\ Place(GroupJob(i)) = 1
  /\ \A j \in QueuedJobs :
       /\ Column(j) = JobStage(j)
       /\ Place(j) = IF IsSequential(j) THEN j.of + 1 ELSE 0
       /\ IsSequential(j) => j.of \in Tasks
<1>1. /\ Column(Host) = COUNT /\ Place(Host) = 0
      /\ \A i \in Stages : Column(StageJob(i)) = i /\ Place(StageJob(i)) = NumTasks + 2
      /\ \A i \in Stages : Column(GroupJob(i)) = i /\ Place(GroupJob(i)) = 1
  BY DEF Column, Place, Host, StageJob, GroupJob, JobStage, IsSequential
<1>2. ASSUME NEW j \in QueuedJobs
      PROVE  /\ j.kind \in {"task", "accelerate"}
             /\ IsSequential(j) => j.of \in Tasks
  BY DEF QueuedJobs, ParallelJobs, SequentialJobs, TaskJob, AccelerateJob, IsSequential,
         ParallelTasks, SequentialTasks, InStage
<1>3. ASSUME NEW j \in QueuedJobs
      PROVE  /\ Column(j) = JobStage(j)
             /\ Place(j) = IF IsSequential(j) THEN j.of + 1 ELSE 0
  BY <1>2 DEF Column, Place
<1>4. QED
  BY <1>1, <1>2, <1>3

LEMMA PlaceTypes ==
  ASSUME NEW j \in Jobs
  PROVE  Column(j) \in 0 .. COUNT /\ Place(j) \in 0 .. NumTasks + 2
<1>1. COUNT \in Nat /\ NumTasks \in Nat /\ \A t \in Tasks : t \in Nat /\ t <= NumTasks
  BY StagesAssumption DEF Tasks
<1>2. \A i \in Stages : i \in Nat /\ i <= COUNT
  BY <1>1 DEF Stages
<1>3. CASE j \in QueuedJobs
  BY <1>1, <1>2, <1>3, Places, KindsOfJobs
<1>4. CASE j = Host
  BY <1>1, <1>4, Places
<1>5. ASSUME NEW i \in Stages, j = StageJob(i) \/ j = GroupJob(i)
      PROVE  Column(j) \in 0 .. COUNT /\ Place(j) \in 0 .. NumTasks + 2
  BY <1>1, <1>2, <1>5, Places
<1>6. QED
  BY <1>3, <1>4, <1>5 DEF Jobs

(* A job depends only on jobs before it. *)
LEMMA DependsOnEarlier ==
  ASSUME NEW j \in Jobs, NEW d \in Graph[j]
  PROVE  d \in Jobs /\ Before(d, j)
<1>1. COUNT \in Nat /\ NumTasks \in Nat /\ \A t \in Tasks : t \in Nat /\ t <= NumTasks
  BY StagesAssumption DEF Tasks
<1>2. \A i \in Stages : i \in Nat /\ i < COUNT
  BY <1>1 DEF Stages
<1>3. d \in Jobs
  BY GraphType
<1>0. Column(d) \in Nat /\ Column(j) \in Nat /\ Place(d) \in Nat /\ Place(j) \in Nat
  BY <1>1, <1>3, PlaceTypes
<1>4. ASSUME NEW i \in Stages, NEW e \in PreviousStage(i)
      PROVE  Column(e) < i
  <2>1. e = StageJob(i - 1) /\ i - 1 \in Stages
    BY <1>4 DEF PreviousStage
  <2>2. QED
    BY <1>2, <2>1, Places
<1>5. ASSUME NEW i \in Stages, NEW e \in SequentialJobs(i)
      PROVE  Column(e) = i /\ Place(e) = e.of + 1 /\ e.of \in Tasks
  <2>1. e \in QueuedJobs /\ IsSequential(e) /\ JobStage(e) = i
    BY <1>5 DEF QueuedJobs, SequentialJobs, TaskJob, IsSequential, SequentialTasks, InStage, JobStage
  <2>2. QED
    BY <2>1, Places
<1>6. ASSUME NEW i \in Stages, NEW e \in ParallelJobs(i)
      PROVE  Column(e) = i /\ Place(e) = 0
  <2>1. e \in QueuedJobs /\ ~IsSequential(e) /\ JobStage(e) = i
    BY <1>6 DEF QueuedJobs, ParallelJobs, TaskJob, AccelerateJob, IsSequential, ParallelTasks,
                DistributableTasks, InStage, JobStage
  <2>2. QED
    BY <2>1, Places
<1>7. CASE j = Host
  BY <1>2, <1>7, GraphType, Places DEF Before
<1>8. ASSUME NEW i \in Stages, j = StageJob(i) PROVE Before(d, j)
  <2>1. CASE d \in PreviousStage(i)
    BY <1>4, <1>8, <2>1, Places DEF Before
  <2>2. CASE d = GroupJob(i)
    BY <1>1, <1>8, <2>2, Places DEF Before
  <2>3. CASE d \in SequentialJobs(i)
    BY <1>1, <1>5, <1>8, <2>3, Places DEF Before
  <2>4. QED
    BY <1>8, <2>1, <2>2, <2>3, GraphType
<1>9. ASSUME NEW i \in Stages, j = GroupJob(i) PROVE Before(d, j)
  <2>1. CASE d \in PreviousStage(i)
    BY <1>4, <1>9, <2>1, Places DEF Before
  <2>2. CASE d \in ParallelJobs(i)
    BY <1>6, <1>9, <2>2, Places DEF Before
  <2>3. QED
    BY <1>9, <2>1, <2>2, GraphType
<1>10. CASE j \in QueuedJobs
  <2>1. JobStage(j) \in Stages /\ Column(j) = JobStage(j)
    BY <1>10, KindsOfJobs, Places
  <2>2. CASE d \in PreviousStage(JobStage(j))
    <3>1. Column(d) < JobStage(j)
      BY <1>4, <2>1, <2>2
    <3>2. QED
      BY <1>0, <1>3, <2>1, <3>1 DEF Before
  <2>3. CASE IsSequential(j) /\ d = GroupJob(JobStage(j))
    <3>1. Column(d) = JobStage(j) /\ Place(d) = 1
      BY <2>1, <2>3, Places
    <3>2. Place(j) = j.of + 1 /\ j.of \in Tasks
      BY <1>10, <2>3, Places
    <3>3. j.of \in Nat /\ 1 <= j.of
      BY <1>1, <3>2 DEF Tasks
    <3>4. QED
      BY <1>0, <1>3, <2>1, <3>1, <3>2, <3>3 DEF Before
  <2>4. CASE IsSequential(j) /\ d \in PreviousSequential(j.of)
    <3>1. JobStage(j) = Stage[j.of]
      BY <2>4 DEF JobStage, IsSequential
    <3>2. d \in SequentialJobs(JobStage(j)) /\ d.of < j.of
      BY <2>4, <3>1 DEF PreviousSequential, SequentialJobs, TaskJob
    <3>3. Place(j) = j.of + 1 /\ j.of \in Tasks
      BY <1>10, <2>4, Places
    <3>4. Column(d) = Column(j) /\ Place(d) = d.of + 1 /\ d.of \in Tasks
      BY <1>5, <2>1, <3>2
    <3>5. j.of \in Nat /\ d.of \in Nat
      BY <1>1, <3>3, <3>4
    <3>6. QED
      BY <1>0, <1>3, <3>2, <3>3, <3>4, <3>5 DEF Before
  <2>5. QED
    BY <1>10, <2>2, <2>3, <2>4, GraphType DEF QueuedDependencies
<1>11. QED
  BY <1>3, <1>7, <1>8, <1>9, <1>10 DEF Jobs

(* The least number of a set of natural numbers. *)
LEMMA LeastOf ==
  ASSUME NEW N \in SUBSET Nat, N # {}
  PROVE  \E n \in N : \A m \in N : n <= m
<1> DEFINE less == {ss \in Nat \X Nat : ss[1] < ss[2]}
<1>1. IsWellFoundedOn(less, Nat)
  BY NatLessThanWellFounded DEF OpToRel
<1> HIDE DEF less
<1>2. PICK n \in N : \A m \in N : ~ (<<m, n>> \in less)
  BY <1>1, WFMin
<1>3. ASSUME NEW m \in N PROVE n <= m
  <2>1. ~ (m < n)
    BY <1>2 DEF less
  <2>2. QED
    BY <2>1
<1>4. QED
  BY <1>3

(* A set of jobs has one that comes before no other of them. *)
LEMMA LastJob ==
  ASSUME NEW S \in SUBSET Jobs, S # {}
  PROVE  \E j \in S : \A k \in S : ~Before(j, k)
<1>1. COUNT \in Nat /\ NumTasks \in Nat
  BY StagesAssumption
<1>2. \A j \in S : /\ Column(j) \in Nat /\ COUNT - Column(j) \in Nat
                   /\ Place(j) \in Nat /\ NumTasks + 2 - Place(j) \in Nat
  BY <1>1, PlaceTypes
<1> DEFINE columns == {COUNT - Column(j) : j \in S}
<1>3. PICK a \in S : \A k \in S : COUNT - Column(a) <= COUNT - Column(k)
  <2>1. columns \in SUBSET Nat /\ columns # {}
    BY <1>2
  <2>2. PICK n \in columns : \A m \in columns : n <= m
    BY <2>1, LeastOf
  <2>3. PICK x \in S : n = COUNT - Column(x)
    BY <2>2
  <2>4. QED
    BY <2>2, <2>3
<1> DEFINE T == {j \in S : Column(j) = Column(a)}
           places == {NumTasks + 2 - Place(j) : j \in T}
<1>4. PICK b \in T : \A k \in T : NumTasks + 2 - Place(b) <= NumTasks + 2 - Place(k)
  <2>1. places \in SUBSET Nat /\ places # {}
    BY <1>2
  <2>2. PICK n \in places : \A m \in places : n <= m
    BY <2>1, LeastOf
  <2>3. PICK x \in T : n = NumTasks + 2 - Place(x)
    BY <2>2
  <2>4. QED
    BY <2>2, <2>3
<1>5. ASSUME NEW k \in S PROVE ~Before(b, k)
  <2>1. Column(k) <= Column(a) /\ Column(b) = Column(a)
    BY <1>1, <1>2, <1>3
  <2>2. Column(k) = Column(a) => Place(k) <= Place(b)
    BY <1>1, <1>2, <1>4
  <2>3. QED
    BY <1>1, <1>2, <2>1, <2>2 DEF Before
<1>6. QED
  BY <1>5

(* A set of jobs has one that none of them comes before. *)
LEMMA FirstJob ==
  ASSUME NEW S \in SUBSET Jobs, S # {}
  PROVE  \E j \in S : \A k \in S : ~Before(k, j)
<1>2. \A j \in S : Column(j) \in Nat /\ Place(j) \in Nat
  BY StagesAssumption, PlaceTypes
<1> DEFINE columns == {Column(j) : j \in S}
<1>3. PICK a \in S : \A k \in S : Column(a) <= Column(k)
  <2>1. columns \in SUBSET Nat /\ columns # {}
    BY <1>2
  <2>2. PICK n \in columns : \A m \in columns : n <= m
    BY <2>1, LeastOf
  <2>3. PICK x \in S : n = Column(x)
    BY <2>2
  <2>4. QED
    BY <2>2, <2>3
<1> DEFINE T == {j \in S : Column(j) = Column(a)}
           places == {Place(j) : j \in T}
<1>4. PICK b \in T : \A k \in T : Place(b) <= Place(k)
  <2>1. places \in SUBSET Nat /\ places # {}
    BY <1>2
  <2>2. PICK n \in places : \A m \in places : n <= m
    BY <2>1, LeastOf
  <2>3. PICK x \in T : n = Place(x)
    BY <2>2
  <2>4. QED
    BY <2>2, <2>3
<1>5. ASSUME NEW k \in S PROVE ~Before(k, b)
  BY <1>2, <1>3, <1>4 DEF Before
<1>6. QED
  BY <1>5

(* The graph that Build makes has the shape that JobScheduler needs, for   *)
(* any tasks in any stages: every job is reached from the host job, and no *)
(* job waits for itself (Builder.cpp, Build).                              *)
THEOREM GraphIsFitForTheScheduler == HangsBelowHost /\ GraphIsAcyclic
<1>1. GraphIsAcyclic
  <2> SUFFICES ASSUME NEW S \in SUBSET Jobs, \A j \in S : \E p \in S : j \in Graph[p], S # {}
               PROVE  FALSE
    BY DEF GraphIsAcyclic
  <2>1. PICK j \in S : \A k \in S : ~Before(j, k)
    BY LastJob
  <2>2. PICK p \in S : j \in Graph[p]
    OBVIOUS
  <2>3. QED
    BY <2>1, <2>2, DependsOnEarlier
<1>2. HangsBelowHost
  <2> SUFFICES ASSUME NEW j \in Jobs \ {Host} PROVE \E p \in Jobs : j \in Graph[p]
    BY DEF HangsBelowHost
  <2>1. CASE j \in QueuedJobs
    <3>1. JobStage(j) \in Stages
      BY <2>1, KindsOfJobs
    <3>2. j \in ParallelJobs(JobStage(j)) \/ j \in SequentialJobs(JobStage(j))
      BY <2>1, QueuedInItsStage
    <3>3. j \in Graph[GroupJob(JobStage(j))] \/ j \in Graph[StageJob(JobStage(j))]
      BY <3>1, <3>2, GraphType
    <3>4. QED
      BY <3>1, <3>3, KindsOfJobs
  <2>2. ASSUME NEW i \in Stages, j = StageJob(i) PROVE \E p \in Jobs : j \in Graph[p]
    BY <2>2, GraphType, KindsOfJobs
  <2>3. ASSUME NEW i \in Stages, j = GroupJob(i) PROVE \E p \in Jobs : j \in Graph[p]
    BY <2>3, GraphType, KindsOfJobs
  <2>4. QED
    BY <2>1, <2>2, <2>3 DEF Jobs
<1>3. QED
  BY <1>1, <1>2

(* The build never gets stuck: until the host job is done some job runs,   *)
(* or all that it waits for is done and a pool thread may start it.        *)
SomeJobCanGoOn ==
  phase[Host] # "done" =>
    \E j \in Jobs : \/ phase[j] = "running"
                    \/ phase[j] = "idle" /\ \A d \in dependsOn[j] : phase[d] = "done"

THEOREM BuildNeverGetsStuck == Spec => []SomeJobCanGoOn
<1>1. IndInv => SomeJobCanGoOn
  <2> SUFFICES ASSUME IndInv, phase[Host] # "done", \A j \in Jobs : phase[j] # "running"
               PROVE  \E j \in Jobs : phase[j] = "idle" /\ \A d \in dependsOn[j] : phase[d] = "done"
    BY DEF SomeJobCanGoOn
  <2> DEFINE Left == {j \in Jobs : phase[j] # "done"}
  <2>1. Host \in Left
    BY KindsOfJobs
  <2>2. PICK j \in Left : \A k \in Left : ~Before(k, j)
    BY <2>1, FirstJob
  <2>3. \A d \in Graph[j] : phase[d] = "done"
    BY <2>2, DependsOnEarlier
  <2>4. phase[j] = "idle" /\ dependsOn = Graph
    BY <2>2 DEF IndInv, TypeOK, GraphInv
  <2>5. QED
    BY <2>3, <2>4
<1>2. QED
  BY <1>1, IndInvHolds, PTL
============================================================================
