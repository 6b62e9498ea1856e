----------------------------- MODULE TaskGraph -----------------------------
(***************************************************************************)
(* What Core/Parallel/Jobs/JobScheduler.h promises to the client that      *)
(* builds a graph of jobs, enqueues its root and waits for it: a job runs  *)
(* once, after every job it depends on ("The parent job will not be run    *)
(* until all its dependents are executed"), and Wait returns only when the *)
(* root has run.                                                           *)
(***************************************************************************)
CONSTANTS
  Jobs,        (* the jobs                                                 *)
  Root         (* the job that the client enqueues and waits for           *)

VARIABLES
  dependsOn,   (* the jobs that each job depends on                        *)
  phase,       (* what has become of each job: idle, running or done       *)
  returned     (* Wait has returned                                        *)

graphVars == <<dependsOn, phase, returned>>

GraphInit ==
  /\ dependsOn = [j \in Jobs |-> {}]
  /\ phase = [j \in Jobs |-> "idle"]
  /\ returned = FALSE

Depend(p, d) ==
  /\ \A j \in Jobs : phase[j] = "idle"
  /\ dependsOn' = [dependsOn EXCEPT ![p] = @ \cup {d}]
  /\ UNCHANGED <<phase, returned>>

Start(j) ==
  /\ phase[j] = "idle"
  /\ \A d \in dependsOn[j] : phase[d] = "done"
  /\ phase' = [phase EXCEPT ![j] = "running"]
  /\ UNCHANGED <<dependsOn, returned>>

Finish(j) ==
  /\ phase[j] = "running"
  /\ phase' = [phase EXCEPT ![j] = "done"]
  /\ UNCHANGED <<dependsOn, returned>>

Return ==
  /\ phase[Root] = "done"
  /\ ~returned
  /\ returned' = TRUE
  /\ UNCHANGED <<dependsOn, phase>>

GraphNext ==
  \/ \E p, d \in Jobs : Depend(p, d)
  \/ \E j \in Jobs : Start(j) \/ Finish(j)
  \/ Return

GraphSpec == GraphInit /\ [][GraphNext]_graphVars
============================================================================
