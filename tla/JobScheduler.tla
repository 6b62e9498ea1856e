---------------------------- MODULE JobScheduler ---------------------------
(***************************************************************************)
(* Core/Parallel/Jobs/JobScheduler.cpp, as Builder.cpp uses it: the main   *)
(* thread builds a graph of jobs, enqueues the root, waits for it and      *)
(* destroys the scheduler, while the pool threads run the jobs.            *)
(*                                                                         *)
(* One step per lock operation, condition variable operation, atomic       *)
(* operation and access to a shared flag.  A job is its slot: one round of *)
(* a scheduler allocates each slot at most once, so a handle never becomes *)
(* stale.  m_QueuedJobs is the queue that ConcurrentQueue implements, with *)
(* the one thing of its Push that a caller can notice kept: m_Head is read *)
(* in a step of its own (PushLoad), and a Push whose m_Head was overtaken  *)
(* by the m_Tail it reads later is refused.                                *)
(*                                                                         *)
(* Definitions marked Bug are mutated forms that no action uses.           *)
(***************************************************************************)
EXTENDS Integers, Sequences, FiniteSets

CONSTANTS
  Workers,      (* the pool threads                                        *)
  Main,         (* the thread that owns the scheduler                      *)
  Jobs,         (* the jobs it creates                                     *)
  Root,         (* the host job that it enqueues and waits for             *)
  Edges,        (* the pairs <<p, d>> it may pass to AddDependency         *)
  MaxJobCount,  (* capacity of m_QueuedJobs                                *)
  NoJob,        (* no job                                                  *)
  Free,         (* the owner of a mutex that nobody holds                  *)
  MaxSpurious   (* bound: spurious wakeups of condition variables          *)

Threads == Workers \cup {Main}

ASSUME JobsAssumption ==
  IsFiniteSet(Jobs) /\ Root \in Jobs /\ NoJob \notin Jobs
ASSUME EdgesAssumption == Edges \subseteq Jobs \X Jobs
ASSUME ThreadsAssumption == Main \notin Workers /\ Free \notin Threads
ASSUME MaxJobCountAssumption == MaxJobCount \in Nat \ {0}
ASSUME MaxSpuriousAssumption == MaxSpurious \in Nat

VARIABLES
  dependsOn,    (* Job::Dependencies; Dependents is its converse           *)
  pending,      (* Job::DependenciesPending                                *)
  enqueued,     (* Job::Enqueued                                           *)
  completed,    (* Job::Completed                                          *)
  queue,        (* the jobs in m_QueuedJobs                                *)
  popped,       (* how many were ever popped: its m_Tail                   *)
  freeSlots,    (* jobs whose slot is back in m_FreeJobIndices             *)
  aborting,     (* m_Aborting                                              *)
  workMutex,    (* the owner of m_WorkMutex                                *)
  waitMutex,    (* the owner of m_WaitingMutex                             *)
  pc,           (* where each thread is                                    *)
  frames,       (* the calls of Enqueue each thread is in, innermost first *)
  oldHead,      (* OldHead of the Push a thread is in                      *)
  current,      (* the job a pool thread runs                              *)
  release,      (* its dependents that RunJob has yet to visit             *)
  phase,        (* history: how far the callback of each job has got       *)
  spurious,     (* spurious wakeups so far                                 *)
  asserted      (* an assertion failed and the process is gone             *)

graph == <<dependsOn, pending>>
fifo == <<queue, popped, oldHead>>
locks == <<workMutex, waitMutex>>
work == <<current, release, phase>>
vars == <<dependsOn, pending, enqueued, completed, queue, popped, freeSlots,
          aborting, workMutex, waitMutex, pc, frames, oldHead, current,
          release, phase, spurious, asserted>>

Dependents(j) == {p \in Jobs : j \in dependsOn[p]}

Init ==
  /\ dependsOn = [j \in Jobs |-> {}]
  /\ pending = [j \in Jobs |-> 0]
  /\ enqueued = [j \in Jobs |-> FALSE]
  /\ completed = [j \in Jobs |-> FALSE]
  /\ queue = << >>
  /\ popped = 0
  /\ freeSlots = {}
  /\ aborting = FALSE
  /\ workMutex = Free
  /\ waitMutex = Free
  /\ pc = [t \in Threads |-> IF t = Main THEN "create" ELSE "loop"]
  /\ frames = [t \in Threads |-> << >>]
  /\ oldHead = [t \in Threads |-> 0]
  /\ current = [t \in Workers |-> NoJob]
  /\ release = [t \in Workers |-> {}]
  /\ phase = [j \in Jobs |-> "idle"]
  /\ spurious = 0
  /\ asserted = FALSE

(* Thread t is at l, in a process that no assertion has ended. *)
At(t, l) == pc[t] = l /\ ~asserted

Goto(t, from, to) ==
  /\ At(t, from)
  /\ pc' = [pc EXCEPT ![t] = to]

(* notify_all on m_WorkCondVar, by a thread that goes from from to to. A   *)
(* woken thread competes for the mutex like one that enters WaitForJob.    *)
GotoWakingAll(t, from, to) ==
  /\ At(t, from)
  /\ pc' = [u \in Threads |-> IF u = t THEN to
                              ELSE IF pc[u] = "asleep" THEN "lockWork"
                              ELSE pc[u]]

(* notify_one on m_WorkCondVar *)
GotoWakingOne(t, from, to) ==
  /\ At(t, from)
  /\ IF \E w \in Workers : pc[w] = "asleep"
     THEN \E w \in Workers :
            /\ pc[w] = "asleep"
            /\ pc' = [pc EXCEPT ![t] = to, ![w] = "lockWork"]
     ELSE pc' = [pc EXCEPT ![t] = to]

----------------------------------------------------------------------------
(* AddDependency, before anything is enqueued.                             *)

AddDependency(p, d) ==
  /\ At(Main, "create")
  /\ <<p, d>> \in Edges
  /\ d \notin dependsOn[p]
  /\ dependsOn' = [dependsOn EXCEPT ![p] = @ \cup {d}]
  /\ pending' = [pending EXCEPT ![p] = @ + 1]
  /\ UNCHANGED <<enqueued, completed, fifo, freeSlots, aborting, locks, pc,
                 frames, work, spurious, asserted>>

----------------------------------------------------------------------------
(* Enqueue, by the main thread or by a pool thread inside RunJob.          *)

Top(t) == frames[t][1].job

Frame(j) == [job |-> j, children |-> dependsOn[j]]

(* Enqueue(j) is called, on top of the calls in progress c. *)
CallEnqueue(t, from, j, c) ==
  /\ Goto(t, from, "enqTest")
  /\ frames' = [frames EXCEPT ![t] = <<Frame(j)>> \o c]

(* Builder adds every job it creates to a group, a stage or the host job.  *)
StartEnqueue ==
  /\ \A j \in Jobs \ {Root} : Dependents(j) # {}
  /\ CallEnqueue(Main, "create", Root, << >>)
  /\ UNCHANGED <<graph, enqueued, completed, fifo, freeSlots, aborting, locks,
                 work, spurious, asserted>>

(* Bug: runs with one dependency left. *)
TestPendingOneEarly(t) ==
  /\ Goto(t, "enqTest", IF pending[Top(t)] <= 1 THEN "enqClaim" ELSE "children")
  /\ UNCHANGED <<graph, enqueued, completed, fifo, freeSlots, aborting, locks,
                 frames, work, spurious, asserted>>

(* if (ResolvedJob->DependenciesPending <= 0) *)
TestPending(t) ==
  /\ Goto(t, "enqTest", IF pending[Top(t)] <= 0 THEN "enqClaim" ELSE "children")
  /\ UNCHANGED <<graph, enqueued, completed, fifo, freeSlots, aborting, locks,
                 frames, work, spurious, asserted>>

(* Bug: ignores that another thread has enqueued it. *)
ClaimEnqueueUnconditionally(t) ==
  /\ Goto(t, "enqClaim", "pushLoad")
  /\ enqueued' = [enqueued EXCEPT ![Top(t)] = TRUE]
  /\ UNCHANGED <<graph, completed, fifo, freeSlots, aborting, locks, frames,
                 work, spurious, asserted>>

(* Enqueued.compare_exchange_strong(expectedValue, true) *)
ClaimEnqueue(t) ==
  /\ Goto(t, "enqClaim", IF enqueued[Top(t)] THEN "children" ELSE "pushLoad")
  /\ enqueued' = [enqueued EXCEPT ![Top(t)] = TRUE]
  /\ UNCHANGED <<graph, completed, fifo, freeSlots, aborting, locks, frames,
                 work, spurious, asserted>>

(* m_QueuedJobs.Push reads m_Head ... *)
PushLoad(t) ==
  /\ Goto(t, "pushLoad", "pushTry")
  /\ oldHead' = [oldHead EXCEPT ![t] = popped + Len(queue)]
  /\ UNCHANGED <<graph, enqueued, completed, queue, popped, freeSlots, aborting,
                 locks, frames, work, spurious, asserted>>

(* ... and later m_Tail *)
PushDiff(t) == (oldHead[t] + 1) - popped
PushInRange(t) == PushDiff(t) >= 0 /\ PushDiff(t) <= MaxJobCount

PushAppend(t) ==
  /\ PushInRange(t)
  /\ popped + Len(queue) = oldHead[t]
  /\ Goto(t, "pushTry", "children")
  /\ queue' = Append(queue, Top(t))
  /\ oldHead' = [oldHead EXCEPT ![t] = 0]
  /\ UNCHANGED <<graph, enqueued, completed, popped, freeSlots, aborting, locks,
                 frames, work, spurious, asserted>>

PushRetry(t) ==
  /\ PushInRange(t)
  /\ popped + Len(queue) # oldHead[t]
  /\ Goto(t, "pushTry", "pushLoad")
  /\ UNCHANGED <<graph, enqueued, completed, fifo, freeSlots, aborting, locks,
                 frames, work, spurious, asserted>>

(* Push returned false: assert(false) *)
PushRefused(t) ==
  /\ ~PushInRange(t)
  /\ At(t, "pushTry")
  /\ asserted' = TRUE
  /\ UNCHANGED <<graph, enqueued, completed, fifo, freeSlots, aborting, locks,
                 pc, frames, work, spurious>>

(* for (JobHandle ChildHandle : ResolvedJob->Dependencies) *)
VisitChild(t, c) ==
  /\ At(t, "children")
  /\ c \in frames[t][1].children
  /\ LET visited == [frames[t] EXCEPT ![1].children = @ \ {c}]
     IN IF enqueued[c]
        THEN /\ frames' = [frames EXCEPT ![t] = visited]
             /\ UNCHANGED pc
        ELSE CallEnqueue(t, "children", c, visited)
  /\ UNCHANGED <<graph, enqueued, completed, fifo, freeSlots, aborting, locks,
                 work, spurious, asserted>>

(* Lock m_WorkMutex, notify_one, unlock, return. *)
NotifyAndReturn(t) ==
  /\ frames[t] # << >>
  /\ frames[t][1].children = {}
  /\ workMutex = Free
  /\ GotoWakingOne(t, "children", IF Len(frames[t]) > 1 THEN "children"
                                  ELSE IF t = Main THEN "lockWait"
                                  ELSE "release")
  /\ frames' = [frames EXCEPT ![t] = Tail(@)]
  /\ UNCHANGED <<graph, enqueued, completed, fifo, freeSlots, aborting, locks,
                 work, spurious, asserted>>

EnqueueStep(t) ==
  \/ TestPending(t)
  \/ ClaimEnqueue(t)
  \/ PushLoad(t)
  \/ PushAppend(t)
  \/ PushRetry(t)
  \/ PushRefused(t)
  \/ \E c \in Jobs : VisitChild(t, c)
  \/ NotifyAndReturn(t)

----------------------------------------------------------------------------
(* ThreadEntryPoint and WaitForJob.                                        *)

(* while (!m_Aborting) *)
Loop(w) ==
  /\ Goto(w, "loop", IF aborting THEN "exited" ELSE "lockWork")
  /\ UNCHANGED <<graph, enqueued, completed, fifo, freeSlots, aborting, locks,
                 frames, work, spurious, asserted>>

(* Acquire m_WorkMutex, on entry or when woken. *)
LockWork(w) ==
  /\ Goto(w, "lockWork", "poll")
  /\ workMutex = Free
  /\ workMutex' = w
  /\ UNCHANGED <<graph, enqueued, completed, fifo, freeSlots, aborting, waitMutex,
                 frames, work, spurious, asserted>>

PollAborted(w) ==
  /\ aborting
  /\ Goto(w, "poll", "loop")
  /\ workMutex' = Free
  /\ UNCHANGED <<graph, enqueued, completed, fifo, freeSlots, aborting, waitMutex,
                 frames, work, spurious, asserted>>

PollTakes(w) ==
  /\ ~aborting
  /\ queue # << >>
  /\ Goto(w, "poll", "callback")
  /\ workMutex' = Free
  /\ current' = [current EXCEPT ![w] = Head(queue)]
  /\ phase' = [phase EXCEPT ![Head(queue)] = "running"]
  /\ queue' = Tail(queue)
  /\ popped' = popped + 1
  /\ UNCHANGED <<graph, enqueued, completed, oldHead, freeSlots, aborting,
                 waitMutex, frames, release, spurious, asserted>>

PollEmpty(w) ==
  /\ ~aborting
  /\ queue = << >>
  /\ Goto(w, "poll", "sleep")
  /\ UNCHANGED <<graph, enqueued, completed, fifo, freeSlots, aborting, locks,
                 frames, work, spurious, asserted>>

(* Bug: releases the mutex, then sleeps. *)
SleepAfterUnlock(w) ==
  /\ IF workMutex = w
     THEN At(w, "sleep") /\ workMutex' = Free /\ UNCHANGED pc
     ELSE Goto(w, "sleep", "asleep") /\ UNCHANGED workMutex
  /\ UNCHANGED <<graph, enqueued, completed, fifo, freeSlots, aborting, waitMutex,
                 frames, work, spurious, asserted>>

(* m_WorkCondVar.wait(lock) *)
Sleep(w) ==
  /\ Goto(w, "sleep", "asleep")
  /\ workMutex' = Free
  /\ UNCHANGED <<graph, enqueued, completed, fifo, freeSlots, aborting, waitMutex,
                 frames, work, spurious, asserted>>

SpuriousWakeup(w) ==
  /\ spurious < MaxSpurious
  /\ Goto(w, "asleep", "lockWork")
  /\ spurious' = spurious + 1
  /\ UNCHANGED <<graph, enqueued, completed, fifo, freeSlots, aborting, locks,
                 frames, work, asserted>>

----------------------------------------------------------------------------
(* RunJob                                                                  *)

FinishCallback(w) ==
  /\ Goto(w, "callback", "release")
  /\ phase' = [phase EXCEPT ![current[w]] = "done"]
  /\ release' = [release EXCEPT ![w] = Dependents(current[w])]
  /\ UNCHANGED <<graph, enqueued, completed, fifo, freeSlots, aborting, locks,
                 frames, current, spurious, asserted>>

(* int Index = (--DependenciesPending); if (Index == 0) Enqueue(Handle) *)
ReleaseDependent(w, k) ==
  /\ At(w, "release")
  /\ k \in release[w]
  /\ pending' = [pending EXCEPT ![k] = @ - 1]
  /\ release' = [release EXCEPT ![w] = @ \ {k}]
  /\ IF pending[k] - 1 = 0
     THEN CallEnqueue(w, "release", k, << >>)
     ELSE UNCHANGED <<pc, frames>>
  /\ UNCHANGED <<dependsOn, enqueued, completed, fifo, freeSlots, aborting, locks,
                 current, phase, spurious, asserted>>

(* Bug: sets Completed without m_WaitingMutex. *)
CompleteWithoutLock(w) ==
  /\ At(w, "release")
  /\ release[w] = {}
  /\ completed' = [completed EXCEPT ![current[w]] = TRUE]
  /\ pc' = [pc EXCEPT ![w] = "recycle",
                      ![Main] = IF @ = "waiting" THEN "lockWait" ELSE @]
  /\ UNCHANGED <<graph, enqueued, fifo, freeSlots, aborting, locks, frames,
                 work, spurious, asserted>>

(* Lock m_WaitingMutex, Completed = true, notify_all, unlock. *)
Complete(w) ==
  /\ At(w, "release")
  /\ release[w] = {}
  /\ waitMutex = Free
  /\ completed' = [completed EXCEPT ![current[w]] = TRUE]
  /\ pc' = [pc EXCEPT ![w] = "recycle",
                      ![Main] = IF @ = "waiting" THEN "lockWait" ELSE @]
  /\ UNCHANGED <<graph, enqueued, fifo, freeSlots, aborting, locks, frames,
                 work, spurious, asserted>>

(* Bug: frees the slot after it has been cleared. *)
RecycleSlotOnceForgotten(w) ==
  /\ Goto(w, "recycle", "loop")
  /\ current' = [current EXCEPT ![w] = NoJob]
  /\ freeSlots' = freeSlots \cup {current'[w]}
  /\ UNCHANGED <<graph, enqueued, completed, fifo, aborting, locks, frames,
                 release, phase, spurious, asserted>>

(* m_FreeJobIndices.Push(JobIndex) *)
RecycleSlot(w) ==
  /\ Goto(w, "recycle", "loop")
  /\ freeSlots' = freeSlots \cup {current[w]}
  /\ current' = [current EXCEPT ![w] = NoJob]
  /\ UNCHANGED <<graph, enqueued, completed, fifo, aborting, locks, frames,
                 release, phase, spurious, asserted>>

WorkerStep(w) ==
  \/ Loop(w)
  \/ LockWork(w)
  \/ PollAborted(w)
  \/ PollTakes(w)
  \/ PollEmpty(w)
  \/ Sleep(w)
  \/ FinishCallback(w)
  \/ \E k \in Jobs : ReleaseDependent(w, k)
  \/ Complete(w)
  \/ RecycleSlot(w)

----------------------------------------------------------------------------
(* Wait(Root), then ~JobScheduler, by the main thread.                     *)

LockWait ==
  /\ Goto(Main, "lockWait", "waitTest")
  /\ waitMutex = Free
  /\ waitMutex' = Main
  /\ UNCHANGED <<graph, enqueued, completed, fifo, freeSlots, aborting, workMutex,
                 frames, work, spurious, asserted>>

WaitDone ==
  /\ completed[Root]
  /\ Goto(Main, "waitTest", "abort")
  /\ waitMutex' = Free
  /\ UNCHANGED <<graph, enqueued, completed, fifo, freeSlots, aborting, workMutex,
                 frames, work, spurious, asserted>>

WaitNotDone ==
  /\ ~completed[Root]
  /\ Goto(Main, "waitTest", "waitSleep")
  /\ UNCHANGED <<graph, enqueued, completed, fifo, freeSlots, aborting, locks,
                 frames, work, spurious, asserted>>

(* m_WaitingCondVar.wait(lock) *)
WaitSleep ==
  /\ Goto(Main, "waitSleep", "waiting")
  /\ waitMutex' = Free
  /\ UNCHANGED <<graph, enqueued, completed, fifo, freeSlots, aborting, workMutex,
                 frames, work, spurious, asserted>>

SpuriousWait ==
  /\ spurious < MaxSpurious
  /\ Goto(Main, "waiting", "lockWait")
  /\ spurious' = spurious + 1
  /\ UNCHANGED <<graph, enqueued, completed, fifo, freeSlots, aborting, locks,
                 frames, work, asserted>>

(* m_Aborting = true, outside the lock *)
Abort ==
  /\ Goto(Main, "abort", "abortNotify")
  /\ aborting' = TRUE
  /\ UNCHANGED <<graph, enqueued, completed, fifo, freeSlots, locks, frames, work,
                 spurious, asserted>>

AbortNotify ==
  /\ workMutex = Free
  /\ GotoWakingAll(Main, "abortNotify", "join")
  /\ UNCHANGED <<graph, enqueued, completed, fifo, freeSlots, aborting, locks,
                 frames, work, spurious, asserted>>

Join ==
  /\ \A w \in Workers : pc[w] = "exited"
  /\ Goto(Main, "join", "destroyed")
  /\ UNCHANGED <<graph, enqueued, completed, fifo, freeSlots, aborting, locks,
                 frames, work, spurious, asserted>>

MainStep ==
  \/ LockWait
  \/ WaitDone
  \/ WaitNotDone
  \/ WaitSleep
  \/ Abort
  \/ AbortNotify
  \/ Join

----------------------------------------------------------------------------
(* The program has ended, well or by a failed assertion. *)
Terminated ==
  /\ pc[Main] = "destroyed" \/ asserted
  /\ UNCHANGED vars

Next ==
  \/ \E p, d \in Jobs : AddDependency(p, d)
  \/ StartEnqueue
  \/ \E t \in Threads : EnqueueStep(t)
  \/ \E w \in Workers : WorkerStep(w) \/ SpuriousWakeup(w)
  \/ MainStep
  \/ SpuriousWait
  \/ Terminated

Spec == Init /\ [][Next]_vars

(* Threads keep running, and so do callbacks: a callback returns. *)
Fairness ==
  /\ \A w \in Workers : WF_vars(WorkerStep(w) \/ EnqueueStep(w))
  /\ WF_vars(MainStep \/ EnqueueStep(Main))

FairSpec == Spec /\ Fairness
----------------------------------------------------------------------------
(***************************************************************************)
(* Properties                                                              *)
(***************************************************************************)
EnqueueLocations ==
  {"enqTest", "enqClaim", "pushLoad", "pushTry", "children"}
WorkerLocations ==
  {"loop", "lockWork", "poll", "sleep", "asleep", "callback", "release",
   "recycle", "exited"} \cup EnqueueLocations
MainLocations ==
  {"create", "lockWait", "waitTest", "waitSleep", "waiting", "abort",
   "abortNotify", "join", "destroyed"} \cup EnqueueLocations

Frames == [job : Jobs, children : SUBSET Jobs]

(* Every variable has its type. *)
TypeOK ==
  /\ dependsOn \in [Jobs -> SUBSET Jobs]
  /\ pending \in [Jobs -> Int]
  /\ enqueued \in [Jobs -> BOOLEAN]
  /\ completed \in [Jobs -> BOOLEAN]
  /\ queue \in Seq(Jobs)
  /\ popped \in Nat
  /\ freeSlots \subseteq Jobs
  /\ aborting \in BOOLEAN
  /\ workMutex \in Workers \cup {Free}
  /\ waitMutex \in {Main, Free}
  /\ pc \in [Threads -> WorkerLocations \cup MainLocations]
  /\ \A w \in Workers : pc[w] \in WorkerLocations
  /\ pc[Main] \in MainLocations
  /\ frames \in [Threads -> Seq(Frames)]
  /\ oldHead \in [Threads -> Nat]
  /\ current \in [Workers -> Jobs \cup {NoJob}]
  /\ release \in [Workers -> SUBSET Jobs]
  /\ phase \in [Jobs -> {"idle", "running", "done"}]
  /\ spurious \in 0 .. MaxSpurious
  /\ asserted \in BOOLEAN

(* A job's callback has started only if the callback of every job it       *)
(* depends on has returned (JobScheduler.h:113), although the counter is   *)
(* decremented and tested, and the job pushed, by whichever threads get    *)
(* there, and the main thread walks the same graph meanwhile.              *)
DependencyOrder ==
  \A j \in Jobs : phase[j] # "idle" => \A d \in dependsOn[j] : phase[d] = "done"

(***************************************************************************)
(* The inductive invariant behind DependencyOrder.                         *)
(***************************************************************************)
PushLocations == {"pushLoad", "pushTry"}

FramesInv ==
  \A t \in Threads : frames[t] # << >> <=> pc[t] \in EnqueueLocations

(* A pool thread holds a job from Pop until its slot is recycled, alone,   *)
(* and visits the dependents of that job only.                             *)
HoldsJob(w) ==
  pc[w] \in {"callback", "release", "recycle"} \cup EnqueueLocations

HeldJobInv ==
  \A w \in Workers :
    /\ current[w] # NoJob <=> HoldsJob(w)
    /\ HoldsJob(w) =>
         phase[current[w]] = IF pc[w] = "callback" THEN "running" ELSE "done"
    /\ \A u \in Workers :
         current[w] # NoJob /\ current[u] = current[w] => u = w

ReleaseInv ==
  \A w \in Workers :
    /\ release[w] # {} => pc[w] \in {"release"} \cup EnqueueLocations
    /\ \A k \in release[w] : current[w] \in dependsOn[k]

(* Between its compare-exchange on Enqueued and its Pop a job is on its    *)
(* way through exactly one Push or in one place in the queue.              *)
EnqueuedInv ==
  /\ \A j \in Jobs : ~enqueued[j] => phase[j] = "idle"
  /\ \A i \in 1 .. Len(queue) : enqueued[queue[i]] /\ phase[queue[i]] = "idle"
  /\ \A i, k \in 1 .. Len(queue) : queue[i] = queue[k] => i = k

PushingInv ==
  \A t \in Threads : pc[t] \in PushLocations =>
    /\ enqueued[Top(t)] /\ phase[Top(t)] = "idle"
    /\ \A i \in 1 .. Len(queue) : queue[i] # Top(t)
    /\ \A u \in Threads : pc[u] \in PushLocations /\ Top(u) = Top(t) => u = t

(* What a job still waits for: a dependency whose callback has not         *)
(* returned, or whose thread has not yet come to this job.                 *)
Unreleased(k) ==
  {d \in dependsOn[k] :
     \/ phase[d] # "done"
     \/ \E w \in Workers : current[w] = d /\ k \in release[w]}

PendingInv == \A k \in Jobs : pending[k] = Cardinality(Unreleased(k))

ReadyInv ==
  /\ \A j \in Jobs : enqueued[j] => pending[j] <= 0
  /\ \A t \in Threads : pc[t] = "enqClaim" => pending[Top(t)] <= 0

CompletedInv == \A j \in Jobs : completed[j] => phase[j] = "done"

CreateInv == pc[Main] = "create" => \A j \in Jobs : ~enqueued[j]

IndInv ==
  /\ TypeOK /\ FramesInv /\ HeldJobInv /\ ReleaseInv /\ EnqueuedInv
  /\ PushingInv /\ PendingInv /\ ReadyInv /\ CompletedInv /\ CreateInv

(* No notification is lost: while no Enqueue is in progress, a pool thread *)
(* sleeps only if the jobs in the queue are no more than the threads that  *)
(* are awake and about to poll it.                                         *)
WorkConserving ==
  (/\ \A t \in Threads : frames[t] = << >>
   /\ \E w \in Workers : pc[w] \in {"sleep", "asleep"})
  => Len(queue) <= Cardinality({w \in Workers : pc[w] \in {"lockWork", "poll"}})

(* Wait returns and the destructor joins every thread: no wakeup is lost,  *)
(* no job is forgotten, no thread sleeps through m_Aborting.               *)
WaitReturns == pc[Main] # "create" ~> pc[Main] = "destroyed"

(* assert(false) of Enqueue (JobScheduler.cpp:150) is never reached: the   *)
(* queue has room for every job there is.                                  *)
EnqueueNeverRefused == ~asserted

Abstract == INSTANCE TaskGraph WITH
  returned <- pc[Main] \in {"abort", "abortNotify", "join", "destroyed"}

(* The scheduler runs each job once, after what it depends on, and Wait    *)
(* returns only when the root has run.                                     *)
ImplementsTaskGraph == Abstract!GraphSpec
============================================================================
