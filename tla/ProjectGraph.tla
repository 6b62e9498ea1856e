--------------------------- MODULE ProjectGraph ----------------------------
(***************************************************************************)
(* How Builder::Build (App/Builder/Builder.cpp) builds a project with the  *)
(* projects it depends on: it walks the graph of dependencies depth first, *)
(* and either collects the projects in a list and builds them one by one,  *)
(* or makes a job for each and lets the scheduler build them in parallel.  *)
(*                                                                         *)
(* The scheduler is TaskGraph, which JobScheduler implements; the job of a *)
(* project goes by the name of the project.  Building one project is one   *)
(* step from "building" to "built" or "failed".                            *)
(*                                                                         *)
(* Definitions marked Bug are mutated forms that no action uses.           *)
(***************************************************************************)
EXTENDS Integers, Sequences, FiniteSets

CONSTANTS
  Projects,   (* the projects of the workspace                             *)
  Target,     (* the project to build                                      *)
  Host,       (* the job that the main thread waits for                    *)
  Graphs,     (* the graphs of dependencies to consider                    *)
  Modes       (* the values of BuildProjectsInParallel to consider         *)

ASSUME ProjectsAssumption ==
  IsFiniteSet(Projects) /\ Target \in Projects /\ Host \notin Projects
ASSUME GraphsAssumption == Graphs \subseteq [Projects -> SUBSET Projects]
ASSUME ModesAssumption == Modes \subseteq BOOLEAN

VARIABLES
  dependencies,    (* Dependencies.Dependency of each project              *)
  parallel,        (* Workspace.BuildProjectsInParallel                    *)
  stack,           (* the calls of the recursive walk, innermost first     *)
  processedList,   (* the projects that the walk has come to               *)
  dependencyList,  (* the projects in the order they will be built         *)
  next,            (* the index in it of the next project to build         *)
  dependsOn,       (* the dependencies of each job, given to the scheduler *)
  phase,           (* how far each job has got, for the scheduler          *)
  returned,        (* Wait(hostJob) has returned                           *)
  state,           (* what has become of each project                      *)
  bFailed,         (* the flag shared by the jobs                          *)
  result           (* what Build returned                                  *)

config == <<dependencies, parallel>>
jobs == <<dependsOn, phase, returned>>
vars == <<dependencies, parallel, stack, processedList, dependencyList, next,
          dependsOn, phase, returned, state, bFailed, result>>

Jobs == Projects \cup {Host}

Scheduler == INSTANCE TaskGraph WITH Root <- Host

Frame(p) == [project |-> p, todo |-> dependencies[p]]

(* The walk has been called for Target, below the host job. *)
Init ==
  /\ dependencies \in Graphs
  /\ parallel \in Modes
  /\ stack = <<Frame(Target)>>
  /\ processedList = {Target}
  /\ dependencyList = << >>
  /\ next = 1
  /\ dependsOn =
       [j \in Jobs |-> IF parallel /\ j = Host THEN {Target} ELSE {}]
  /\ phase = [j \in Jobs |-> "idle"]
  /\ returned = FALSE
  /\ state = [p \in Projects |-> "unbuilt"]
  /\ bFailed = FALSE
  /\ result = "none"

----------------------------------------------------------------------------
(* BuildDependencyList and BuildDependencyTree                             *)

Walking == stack # << >>

(* The calls when the innermost has come to a dependency. *)
Drop(d) == [stack EXCEPT ![1].todo = @ \ {d}]

(* A dependency that the walk has come to before is skipped. *)
SkipProcessed(d) ==
  /\ Walking
  /\ d \in stack[1].todo \cap processedList
  /\ stack' = Drop(d)
  /\ UNCHANGED <<config, processedList, dependencyList, next, jobs, state,
                 bFailed, result>>

(* Bug: every job hangs below the host job. *)
VisitBelowHost(d) ==
  /\ Walking
  /\ d \in stack[1].todo \ processedList
  /\ stack' = <<Frame(d)>> \o Drop(d)
  /\ processedList' = processedList \cup {d}
  /\ IF parallel THEN Scheduler!Depend(Host, d) ELSE UNCHANGED jobs
  /\ UNCHANGED <<config, dependencyList, next, state, bFailed, result>>

(* A new one is walked, below the job of the project that names it. *)
Visit(d) ==
  /\ Walking
  /\ d \in stack[1].todo \ processedList
  /\ stack' = <<Frame(d)>> \o Drop(d)
  /\ processedList' = processedList \cup {d}
  /\ IF parallel THEN Scheduler!Depend(stack[1].project, d)
                 ELSE UNCHANGED jobs
  /\ UNCHANGED <<config, dependencyList, next, state, bFailed, result>>

(* Bug: the list is in the order in which the walk comes to the projects. *)
LeavePrepending ==
  /\ Walking
  /\ stack[1].todo = {}
  /\ stack' = Tail(stack)
  /\ dependencyList' = IF parallel THEN dependencyList
                       ELSE <<stack[1].project>> \o dependencyList
  /\ UNCHANGED <<config, processedList, next, jobs, state, bFailed, result>>

Leave ==
  /\ Walking
  /\ stack[1].todo = {}
  /\ stack' = Tail(stack)
  /\ dependencyList' = IF parallel THEN dependencyList
                       ELSE Append(dependencyList, stack[1].project)
  /\ UNCHANGED <<config, processedList, next, jobs, state, bFailed, result>>

----------------------------------------------------------------------------
(* for (auto& depProject : dependencyList)                                 *)

Looping == ~Walking /\ ~parallel /\ result = "none"

BuildNext ==
  /\ Looping
  /\ next <= Len(dependencyList)
  /\ state[dependencyList[next]] = "unbuilt"
  /\ state' = [state EXCEPT ![dependencyList[next]] = "building"]
  /\ UNCHANGED <<config, stack, processedList, dependencyList, next, jobs,
                 bFailed, result>>

(* Bug: the index moves twice, in the body and in the head of the loop. *)
BuildSucceedsTwice ==
  /\ Looping
  /\ next <= Len(dependencyList)
  /\ state[dependencyList[next]] = "building"
  /\ state' = [state EXCEPT ![dependencyList[next]] = "built"]
  /\ next' = next + 2
  /\ UNCHANGED <<config, stack, processedList, dependencyList, jobs, bFailed,
                 result>>

BuildSucceeds ==
  /\ Looping
  /\ next <= Len(dependencyList)
  /\ state[dependencyList[next]] = "building"
  /\ state' = [state EXCEPT ![dependencyList[next]] = "built"]
  /\ next' = next + 1
  /\ UNCHANGED <<config, stack, processedList, dependencyList, jobs, bFailed,
                 result>>

(* Bug: the loop goes on after a failure. *)
BuildFailsQuietly ==
  /\ Looping
  /\ next <= Len(dependencyList)
  /\ state[dependencyList[next]] = "building"
  /\ state' = [state EXCEPT ![dependencyList[next]] = "failed"]
  /\ next' = next + 1
  /\ UNCHANGED <<config, stack, processedList, dependencyList, jobs, bFailed,
                 result>>

BuildFails ==
  /\ Looping
  /\ next <= Len(dependencyList)
  /\ state[dependencyList[next]] = "building"
  /\ state' = [state EXCEPT ![dependencyList[next]] = "failed"]
  /\ result' = "failed"
  /\ UNCHANGED <<config, stack, processedList, dependencyList, next, jobs,
                 bFailed>>

LoopEnds ==
  /\ Looping
  /\ next > Len(dependencyList)
  /\ result' = "succeeded"
  /\ UNCHANGED <<config, stack, processedList, dependencyList, next, jobs,
                 state, bFailed>>

----------------------------------------------------------------------------
(* The jobs, once the host job is enqueued.                                *)

Running == ~Walking /\ parallel

(* Only the projects that the walk came to have a job. *)
StartJob(j) ==
  /\ Running
  /\ j \in processedList \cup {Host}
  /\ Scheduler!Start(j)
  /\ state' = [p \in Projects |-> IF p = j THEN "starting" ELSE state[p]]
  /\ UNCHANGED <<config, stack, processedList, dependencyList, next, bFailed,
                 result>>

(* if (bFailed) return *)
TestFailed(p) ==
  /\ state[p] = "starting"
  /\ state' = [state EXCEPT ![p] = IF bFailed THEN "skipped" ELSE "building"]
  /\ UNCHANGED <<config, stack, processedList, dependencyList, next, jobs,
                 bFailed, result>>

JobSucceeds(p) ==
  /\ Running
  /\ state[p] = "building"
  /\ state' = [state EXCEPT ![p] = "built"]
  /\ UNCHANGED <<config, stack, processedList, dependencyList, next, jobs,
                 bFailed, result>>

(* bFailed = true *)
JobFails(p) ==
  /\ Running
  /\ state[p] = "building"
  /\ state' = [state EXCEPT ![p] = "failed"]
  /\ bFailed' = TRUE
  /\ UNCHANGED <<config, stack, processedList, dependencyList, next, jobs,
                 result>>

FinishJob(j) ==
  /\ Scheduler!Finish(j)
  /\ j \in Projects => state[j] \in {"built", "failed", "skipped"}
  /\ UNCHANGED <<config, stack, processedList, dependencyList, next, state,
                 bFailed, result>>

(* Wait(hostJob); return !bFailed *)
WaitReturns ==
  /\ Running
  /\ Scheduler!Return
  /\ result' = IF bFailed THEN "failed" ELSE "succeeded"
  /\ UNCHANGED <<config, stack, processedList, dependencyList, next, state,
                 bFailed>>

----------------------------------------------------------------------------
Terminated == result # "none" /\ UNCHANGED vars

Next ==
  \/ \E d \in Projects : SkipProcessed(d) \/ Visit(d)
  \/ Leave
  \/ BuildNext
  \/ BuildSucceeds
  \/ BuildFails
  \/ LoopEnds
  \/ \E j \in Jobs : StartJob(j) \/ FinishJob(j)
  \/ \E p \in Projects : TestFailed(p) \/ JobSucceeds(p) \/ JobFails(p)
  \/ WaitReturns
  \/ Terminated

Spec == Init /\ [][Next]_vars
----------------------------------------------------------------------------
(***************************************************************************)
(* Properties                                                              *)
(***************************************************************************)
(* Every variable has its type. *)
TypeOK ==
  /\ dependencies \in [Projects -> SUBSET Projects]
  /\ parallel \in BOOLEAN
  /\ stack \in Seq([project : Projects, todo : SUBSET Projects])
  /\ processedList \subseteq Projects
  /\ dependencyList \in Seq(Projects)
  /\ next \in 1 .. Len(dependencyList) + 1
  /\ dependsOn \in [Jobs -> SUBSET Jobs]
  /\ phase \in [Jobs -> {"idle", "running", "done"}]
  /\ returned \in BOOLEAN
  /\ state \in [Projects -> {"unbuilt", "starting", "building", "built",
                             "failed", "skipped"}]
  /\ bFailed \in BOOLEAN
  /\ result \in {"none", "succeeded", "failed"}

Started(p) == state[p] \in {"building", "built", "failed"}

(* No set of projects is closed under "has a dependency in the set". *)
Acyclic ==
  \A S \in SUBSET Projects : S # {} => \E p \in S : dependencies[p] \cap S = {}

(* The projects that Target needs: the least set that contains it and the  *)
(* dependencies of its members.                                            *)
Needed ==
  {p \in Projects :
     \A S \in SUBSET Projects :
       Target \in S /\ (\A q \in S : dependencies[q] \subseteq S) => p \in S}

(* "Name of projects this project is dependent on, they will be built      *)
(* before this project is built" (ProjectSchema.inc:316).                  *)
DependenciesBuiltFirst ==
  Acyclic =>
    \A p \in Projects :
      Started(p) => \A d \in dependencies[p] : state[d] = "built"

(* It holds of the sequential build, on any acyclic graph. *)
SequentialOrder == ~parallel => DependenciesBuiltFirst

(* In the parallel build it holds of the dependencies that only one        *)
(* project names: no project starts when one it waits for has failed or    *)
(* has yet to be built.                                                    *)
ParallelOrderUnlessShared ==
  parallel /\ Acyclic =>
    \A p \in Projects : Started(p) =>
      \A d \in dependencies[p] :
        (\A q \in Projects : d \in dependencies[q] => q = p)
          => state[d] = "built"

(* Build succeeds only if it has built all the projects that the target    *)
(* needs, and nothing else, in either mode and on any graph.               *)
SuccessMeansAllBuilt ==
  result = "succeeded" => {p \in Projects : state[p] = "built"} = Needed
============================================================================
