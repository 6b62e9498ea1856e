-------------------- MODULE JobSchedulerProgressProofs ---------------------
(***************************************************************************)
(* Why Wait and the destructor of JobScheduler return: at no time does     *)
(* everybody wait for somebody else.  That each thread that can go on does *)
(* so is fairness, and stays with the model checker (WaitReturns); that    *)
(* there always is one is proved here, for any number of threads and any   *)
(* acyclic graph.                                                          *)
(***************************************************************************)
EXTENDS JobSchedulerProofs, NaturalsInduction, WellFoundedInduction

(***************************************************************************)
(* Mutexes, and the end of the scheduler.                                  *)
(***************************************************************************)

(* A mutex is held only where its holder can go on. *)
MutexInv ==
  /\ workMutex # Free => pc[workMutex] \in {"poll", "sleep"}
  /\ pc[Main] \in {"waitTest", "waitSleep"} <=> waitMutex = Main

(* The main thread sleeps only while the root has not completed, and pool  *)
(* threads exit only when told to, and sleep no more when told.            *)
StopInv ==
  /\ pc[Main] \in {"waitSleep", "waiting"} => ~completed[Root]
  /\ pc[Main] \in {"abortNotify", "join", "destroyed"} => aborting
  /\ pc[Main] \in {"join", "destroyed"} =>
       \A w \in Workers : pc[w] \notin {"sleep", "asleep"}
  /\ \A w \in Workers : pc[w] = "exited" => aborting

LEMMA Threadwise ==
  ASSUME IndInv
  PROVE  /\ pc \in [Threads -> WorkerLocations \cup MainLocations]
         /\ Main \in Threads /\ Workers \subseteq Threads /\ Threads = Workers \cup {Main}
         /\ Main \notin Workers /\ Free \notin Workers /\ Main # Free
         /\ workMutex \in Workers \cup {Free} /\ waitMutex \in {Main, Free}
         /\ Root \in Jobs /\ completed \in [Jobs -> BOOLEAN]
         /\ \A w \in Workers : pc[w] \in WorkerLocations
         /\ pc[Main] \in MainLocations
BY ThreadsAssumption, JobsAssumption DEF IndInv, TypeOK, Threads

LEMMA MutexStep ==
  ASSUME IndInv, MutexInv, [Next]_vars
  PROVE  MutexInv'
<1> USE Threadwise
<1>1. ASSUME UNCHANGED locks,
             \A t \in Threads : pc'[t] # pc[t] =>
               /\ pc[t] \notin {"poll", "sleep", "waitTest", "waitSleep"}
               /\ pc'[t] \notin {"waitTest", "waitSleep"}
      PROVE  MutexInv'
  BY <1>1 DEF MutexInv, locks
<1>2. ASSUME UNCHANGED locks,
             NEW t \in Threads, NEW from, NEW to, Goto(t, from, to),
             from \notin {"poll", "sleep", "waitTest", "waitSleep"},
             to \notin {"waitTest", "waitSleep"}
      PROVE  MutexInv'
  BY <1>1, <1>2 DEF Goto, At
<1>3. ASSUME UNCHANGED <<locks, pc>> PROVE MutexInv'
  BY <1>1, <1>3
<1>4. ASSUME NEW t \in Threads, EnqueueStep(t) PROVE MutexInv'
  <2>1. CASE NotifyAndReturn(t)
    <3>1. /\ pc[t] = "children" /\ UNCHANGED locks
          /\ \A u \in Threads :
               \/ pc'[u] = pc[u]
               \/ u = t /\ pc'[u] \in {"children", "lockWait", "release"}
               \/ pc[u] = "asleep" /\ pc'[u] = "lockWork"
      BY <2>1 DEF NotifyAndReturn, GotoWakingOne, At
    <3>2. QED
      BY <1>1, <3>1
  <2>2. CASE \E c \in Jobs : VisitChild(t, c)
    BY <1>2, <1>3, <2>2 DEF VisitChild, CallEnqueue
  <2>3. CASE \/ TestPending(t) \/ ClaimEnqueue(t) \/ PushLoad(t) \/ PushAppend(t)
             \/ PushRetry(t) \/ PushRefused(t)
    BY <1>2, <1>3, <2>3
       DEF TestPending, ClaimEnqueue, PushLoad, PushAppend, PushRetry, PushRefused
  <2>4. QED
    BY <1>4, <2>1, <2>2, <2>3 DEF EnqueueStep
<1>5. ASSUME NEW w \in Workers, WorkerStep(w) \/ SpuriousWakeup(w) PROVE MutexInv'
  <2>1. CASE LockWork(w)
    BY <2>1 DEF LockWork, Goto, At, MutexInv
  <2>2. CASE PollAborted(w) \/ PollTakes(w) \/ Sleep(w)
    BY <2>2 DEF PollAborted, PollTakes, Sleep, Goto, At, MutexInv
  <2>3. CASE PollEmpty(w)
    BY <2>3 DEF PollEmpty, Goto, At, MutexInv, locks
  <2>4. CASE Loop(w) \/ FinishCallback(w) \/ RecycleSlot(w) \/ SpuriousWakeup(w)
    BY <1>2, <2>4 DEF Loop, FinishCallback, RecycleSlot, SpuriousWakeup
  <2>5. CASE Complete(w)
    BY <1>1, <2>5 DEF Complete, At
  <2>6. CASE \E k \in Jobs : ReleaseDependent(w, k)
    BY <1>2, <1>3, <2>6 DEF ReleaseDependent, CallEnqueue
  <2>7. QED
    BY <1>5, <2>1, <2>2, <2>3, <2>4, <2>5, <2>6 DEF WorkerStep
<1>6. CASE MainStep \/ SpuriousWait
  <2>1. CASE LockWait \/ WaitDone \/ WaitSleep \/ WaitNotDone
    BY <2>1 DEF LockWait, WaitDone, WaitNotDone, WaitSleep, Goto, At, MutexInv, locks
  <2>2. CASE Abort \/ Join \/ SpuriousWait
    BY <1>2, <2>2 DEF Abort, Join, SpuriousWait
  <2>3. CASE AbortNotify
    BY <1>1, <2>3 DEF AbortNotify, GotoWakingAll, At
  <2>4. QED
    BY <1>6, <2>1, <2>2, <2>3 DEF MainStep
<1>7. ASSUME NEW p \in Jobs, NEW d \in Jobs, AddDependency(p, d) PROVE MutexInv'
  BY <1>3, <1>7 DEF AddDependency
<1>8. CASE StartEnqueue
  BY <1>2, <1>8 DEF StartEnqueue, CallEnqueue
<1>9. CASE UNCHANGED vars
  BY <1>3, <1>9 DEF vars, locks
<1>10. QED
  BY <1>4, <1>5, <1>6, <1>7, <1>8, <1>9 DEF Next, Terminated

LEMMA StopStep ==
  ASSUME IndInv, PollInv, MutexInv, StopInv, [Next]_vars
  PROVE  StopInv'
<1> USE Threadwise
<1>1. ASSUME UNCHANGED <<aborting, completed>>,
             \A t \in Threads : pc'[t] # pc[t] =>
               pc'[t] \notin {"waitSleep", "waiting", "abortNotify", "join", "destroyed",
                              "sleep", "asleep", "exited"}
      PROVE  StopInv'
  <2>1. \A t \in Threads :
          pc'[t] \in {"waitSleep", "waiting", "abortNotify", "join", "destroyed",
                      "sleep", "asleep", "exited"} => pc'[t] = pc[t]
    BY <1>1
  <2>2. QED
    BY <1>1, <2>1 DEF StopInv
<1>2. ASSUME UNCHANGED <<aborting, completed>>,
             NEW t \in Threads, NEW from, NEW to, Goto(t, from, to),
             to \notin {"waitSleep", "waiting", "abortNotify", "join", "destroyed",
                        "sleep", "asleep", "exited"}
      PROVE  StopInv'
  BY <1>1, <1>2 DEF Goto, At
<1>3. ASSUME UNCHANGED <<aborting, completed, pc>> PROVE StopInv'
  BY <1>1, <1>3
<1>4. ASSUME NEW t \in Threads, EnqueueStep(t) PROVE StopInv'
  <2>1. CASE NotifyAndReturn(t)
    <3>1. /\ UNCHANGED <<aborting, completed>>
          /\ \A u \in Threads :
               \/ pc'[u] = pc[u]
               \/ u = t /\ pc'[u] \in {"children", "lockWait", "release"}
               \/ pc[u] = "asleep" /\ pc'[u] = "lockWork"
      BY <2>1 DEF NotifyAndReturn, GotoWakingOne, At
    <3>2. QED
      BY <1>1, <3>1
  <2>2. CASE \E c \in Jobs : VisitChild(t, c)
    BY <1>2, <1>3, <2>2 DEF VisitChild, CallEnqueue
  <2>3. CASE \/ TestPending(t) \/ ClaimEnqueue(t) \/ PushLoad(t) \/ PushAppend(t)
             \/ PushRetry(t) \/ PushRefused(t)
    BY <1>2, <1>3, <2>3
       DEF TestPending, ClaimEnqueue, PushLoad, PushAppend, PushRetry, PushRefused
  <2>4. QED
    BY <1>4, <2>1, <2>2, <2>3 DEF EnqueueStep
<1>5. ASSUME NEW w \in Workers, WorkerStep(w) \/ SpuriousWakeup(w) PROVE StopInv'
  <2>1. CASE Loop(w)
    <3>1. /\ UNCHANGED <<aborting, completed>> /\ pc'[Main] = pc[Main]
          /\ pc'[w] = IF aborting THEN "exited" ELSE "lockWork"
          /\ \A u \in Workers : u # w => pc'[u] = pc[u]
      BY <2>1 DEF Loop, Goto, At
    <3>2. QED
      BY <3>1 DEF StopInv
  <2>2. CASE PollEmpty(w) \/ Sleep(w)
    <3>1. /\ UNCHANGED <<aborting, completed>> /\ pc'[Main] = pc[Main]
          /\ pc'[w] \in {"sleep", "asleep"}
          /\ ~aborting \/ pc[w] = "sleep"
          /\ \A u \in Workers : u # w => pc'[u] = pc[u]
      BY <2>2 DEF PollEmpty, Sleep, Goto, At
    <3>2. pc[Main] \notin {"join", "destroyed"}
      BY <3>1 DEF StopInv
    <3>3. QED
      BY <3>1, <3>2 DEF StopInv
  <2>3. CASE Complete(w)
    <3>1. /\ pc'[Main] \notin {"waitSleep", "waiting"} /\ aborting' = aborting
          /\ pc'[w] = "recycle"
          /\ \A u \in Threads : u # w /\ u # Main => pc'[u] = pc[u]
          /\ pc'[Main] = pc[Main] \/ pc'[Main] = "lockWait"
      BY <2>3 DEF Complete, At, MutexInv
    <3>2. QED
      BY <3>1 DEF StopInv
  <2>4. CASE \/ LockWork(w) \/ PollAborted(w) \/ PollTakes(w) \/ FinishCallback(w)
             \/ RecycleSlot(w) \/ SpuriousWakeup(w)
    BY <1>2, <2>4 DEF LockWork, PollAborted, PollTakes, FinishCallback, RecycleSlot, SpuriousWakeup
  <2>5. CASE \E k \in Jobs : ReleaseDependent(w, k)
    BY <1>2, <1>3, <2>5 DEF ReleaseDependent, CallEnqueue
  <2>6. QED
    BY <1>5, <2>1, <2>2, <2>3, <2>4, <2>5 DEF WorkerStep
<1>6. CASE MainStep \/ SpuriousWait
  <2>1. CASE LockWait \/ WaitDone \/ SpuriousWait
    BY <1>2, <2>1 DEF LockWait, WaitDone, SpuriousWait
  <2>2. CASE WaitNotDone \/ WaitSleep \/ Abort \/ Join
    <3>1. /\ completed' = completed /\ (aborting => aborting')
          /\ \A u \in Workers : pc'[u] = pc[u]
          /\ \/ pc[Main] = "waitTest" /\ pc'[Main] = "waitSleep" /\ ~completed[Root]
             \/ pc[Main] = "waitSleep" /\ pc'[Main] = "waiting"
             \/ pc'[Main] = "abortNotify" /\ aborting'
             \/ pc[Main] = "join" /\ pc'[Main] = "destroyed"
      BY <2>2 DEF WaitNotDone, WaitSleep, Abort, Join, Goto, At
    <3>2. QED
      BY <3>1 DEF StopInv
  <2>3. CASE AbortNotify
    <3>1. /\ UNCHANGED <<completed, aborting>> /\ pc[Main] = "abortNotify" /\ pc'[Main] = "join"
          /\ \A u \in Workers : pc'[u] = IF pc[u] = "asleep" THEN "lockWork" ELSE pc[u]
          /\ \A u \in Workers : pc[u] # "sleep"
      BY <2>3 DEF AbortNotify, GotoWakingAll, At, PollInv
    <3>2. QED
      BY <3>1 DEF StopInv
  <2>4. QED
    BY <1>6, <2>1, <2>2, <2>3 DEF MainStep
<1>7. ASSUME NEW p \in Jobs, NEW d \in Jobs, AddDependency(p, d) PROVE StopInv'
  BY <1>3, <1>7 DEF AddDependency
<1>8. CASE StartEnqueue
  BY <1>2, <1>8 DEF StartEnqueue, CallEnqueue
<1>9. CASE UNCHANGED vars
  BY <1>3, <1>9 DEF vars
<1>10. QED
  BY <1>4, <1>5, <1>6, <1>7, <1>8, <1>9 DEF Next, Terminated

(* The scheduler is destroyed only after its threads have seen it: none    *)
(* sleeps when the main thread joins them, and none holds m_WorkMutex but  *)
(* to look at the queue; and the main thread sleeps on m_WaitingCondVar    *)
(* only while the root has not completed, so that the notify_all of the    *)
(* thread that completes it is still to come (JobScheduler.cpp, RunJob).   *)
NoSleeperIsForgotten ==
  /\ pc[Main] = "join" => \A w \in Workers : pc[w] # "asleep"
  /\ pc[Main] = "waiting" => ~completed[Root]
  /\ \A w \in Workers : workMutex = w => pc[w] \in {"poll", "sleep"}

THEOREM SleepersAreWoken == Spec => []NoSleeperIsForgotten
<1>1. Init => PollInv /\ MutexInv /\ StopInv
  <2> SUFFICES ASSUME Init PROVE PollInv /\ MutexInv /\ StopInv
    OBVIOUS
  <2>1. /\ pc[Main] = "create" /\ workMutex = Free /\ waitMutex = Free /\ aborting = FALSE
        /\ \A w \in Workers : pc[w] = "loop"
        /\ Main # Free
    BY ThreadsAssumption DEF Init, Threads
  <2>2. QED
    BY <2>1 DEF PollInv, MutexInv, StopInv
<1>2. IndInv /\ PollInv /\ MutexInv /\ StopInv /\ [Next]_vars
        => PollInv' /\ MutexInv' /\ StopInv'
  BY PollStep, MutexStep, StopStep
<1>3. IndInv /\ MutexInv /\ StopInv => NoSleeperIsForgotten
  BY Threadwise DEF MutexInv, StopInv, NoSleeperIsForgotten
<1>4. QED
  BY <1>1, <1>2, <1>3, IndInvHolds, PTL DEF Spec
----------------------------------------------------------------------------
(***************************************************************************)
(* Jobs that were enqueued.                                                *)
(***************************************************************************)
Queued(j) == \E i \in 1 .. Len(queue) : queue[i] = j
Pushing(t, j) == pc[t] \in PushLocations /\ Top(t) = j

(* A job that was enqueued is in someone's hands until it has completed.   *)
HandledInv ==
  /\ \A j \in Jobs : enqueued[j] =>
       \/ Queued(j)
       \/ \E t \in Threads : Pushing(t, j)
       \/ \E w \in Workers : current[w] = j
       \/ completed[j]
  /\ \A w \in Workers : pc[w] = "recycle" => completed[current[w]]

(* A step that enqueues nothing and lets go of nothing. *)
LEMMA StillHandled ==
  ASSUME IndInv, HandledInv, UNCHANGED <<enqueued, queue, current>>,
         \A j \in Jobs : completed[j] => completed'[j],
         \A t \in Threads : pc[t] \in PushLocations =>
           pc'[t] \in PushLocations /\ Top(t)' = Top(t),
         \A w \in Workers : pc'[w] = "recycle" =>
           pc[w] = "recycle" \/ completed'[current[w]]
  PROVE  HandledInv'
<1>1. \A w \in Workers : pc[w] = "recycle" => current[w] \in Jobs
  BY DEF IndInv, TypeOK, HeldJobInv, HoldsJob
<1>2. QED
  BY <1>1 DEF HandledInv, Queued, Pushing

LEMMA HandledStep ==
  ASSUME IndInv, HandledInv, [Next]_vars
  PROVE  HandledInv'
<1> USE Threadwise
<1>1. ASSUME UNCHANGED <<enqueued, queue, current, completed, frames>>,
             \A t \in Threads : pc'[t] # pc[t] =>
               pc[t] \notin PushLocations /\ pc'[t] # "recycle"
      PROVE  HandledInv'
  BY <1>1, StillHandled DEF Top
<1>2. ASSUME UNCHANGED <<enqueued, queue, current, completed, frames>>,
             NEW t \in Threads, NEW from, NEW to, Goto(t, from, to),
             from \notin PushLocations, to # "recycle"
      PROVE  HandledInv'
  BY <1>1, <1>2 DEF Goto, At
<1>3. ASSUME UNCHANGED <<enqueued, queue, current, completed>>,
             NEW t \in Threads, NEW to, pc[t] \notin PushLocations, to # "recycle",
             pc' = [pc EXCEPT ![t] = to],
             \A u \in Threads : u # t => frames'[u] = frames[u]
      PROVE  HandledInv'
  BY <1>3, StillHandled DEF Top
<1>4. ASSUME UNCHANGED <<enqueued, queue, current, completed, frames, pc>>
      PROVE  HandledInv'
  BY <1>1, <1>4
<1>5. ASSUME NEW t \in Threads, EnqueueStep(t) PROVE HandledInv'
  <2> USE DEF PushLocations
  <2>1. CASE NotifyAndReturn(t)
    <3>1. /\ pc[t] = "children" /\ UNCHANGED <<enqueued, queue, current, completed>>
          /\ \A u \in Threads :
               \/ pc'[u] = pc[u]
               \/ u = t /\ pc'[u] \in {"children", "lockWait", "release"}
               \/ pc[u] = "asleep" /\ pc'[u] = "lockWork"
          /\ \A u \in Threads : u # t => frames'[u] = frames[u]
      BY <2>1 DEF NotifyAndReturn, GotoWakingOne, At, fifo, work, IndInv, TypeOK
    <3>2. QED
      BY <3>1, StillHandled DEF Top
  <2>2. ASSUME NEW c \in Jobs, VisitChild(t, c) PROVE HandledInv'
    <3>1. /\ pc[t] = "children" /\ UNCHANGED <<enqueued, queue, current, completed>>
          /\ \E to \in {"children", "enqTest"} : pc' = [pc EXCEPT ![t] = to]
          /\ \A u \in Threads : u # t => frames'[u] = frames[u]
      BY <2>2 DEF VisitChild, CallEnqueue, Goto, At, fifo, work, IndInv, TypeOK
    <3>2. QED
      BY <1>3, <3>1
  <2>3. CASE TestPending(t)
    BY <1>2, <2>3 DEF TestPending, fifo, work
  <2>4. CASE PushLoad(t) \/ PushRetry(t)
    <3>1. /\ UNCHANGED <<enqueued, queue, current, completed, frames>>
          /\ pc[t] \in PushLocations
          /\ \E to \in PushLocations : pc' = [pc EXCEPT ![t] = to]
      BY <2>4 DEF PushLoad, PushRetry, Goto, At, fifo, work
    <3>2. QED
      BY <3>1, StillHandled DEF Top
  <2>5. CASE PushRefused(t)
    BY <1>4, <2>5 DEF PushRefused, fifo, work
  <2>6. CASE ClaimEnqueue(t)
    <3>1. /\ pc[t] = "enqClaim" /\ UNCHANGED <<queue, current, completed, frames>>
          /\ pc' = [pc EXCEPT ![t] = IF enqueued[Top(t)] THEN "children" ELSE "pushLoad"]
          /\ enqueued' = [enqueued EXCEPT ![Top(t)] = TRUE]
      BY <2>6 DEF ClaimEnqueue, Goto, At, fifo, work
    <3>2. Top(t) \in Jobs /\ enqueued \in [Jobs -> BOOLEAN]
      BY <3>1, TopIsAJob DEF IndInv, TypeOK, EnqueueLocations
    <3>3. /\ \A u \in Threads : \A j \in Jobs : Pushing(u, j) => Pushing(u, j)'
          /\ ~enqueued[Top(t)] => Pushing(t, Top(t))'
          /\ \A w \in Workers : pc'[w] = "recycle" => pc[w] = "recycle"
      BY <3>1 DEF Pushing, Top
    <3>4. \A j \in Jobs : enqueued'[j] => enqueued[j] \/ j = Top(t)
      BY <3>1, <3>2
    <3>5. ASSUME NEW j \in Jobs, enqueued'[j]
          PROVE  \/ Queued(j)'
                 \/ \E u \in Threads : Pushing(u, j)'
                 \/ \E w \in Workers : current'[w] = j
                 \/ completed'[j]
      <4>1. CASE enqueued[j]
        BY <3>1, <3>3, <4>1 DEF HandledInv, Queued
      <4>2. CASE ~enqueued[j]
        <5>1. j = Top(t) /\ Top(t)' = Top(t)
          BY <3>1, <3>4, <3>5, <4>2 DEF Top
        <5>2. QED
          BY <3>3, <4>2, <5>1
      <4>3. QED
        BY <4>1, <4>2
    <3>6. QED
      BY <3>1, <3>3, <3>5 DEF HandledInv
  <2>7. CASE PushAppend(t)
    <3>1. /\ pc[t] = "pushTry" /\ UNCHANGED <<enqueued, current, completed, frames>>
          /\ pc' = [pc EXCEPT ![t] = "children"]
          /\ queue' = Append(queue, Top(t)) /\ queue \in Seq(Jobs)
      BY <2>7 DEF PushAppend, Goto, At, work, IndInv, TypeOK
    <3>2. Top(t) \in Jobs
      BY <3>1, TopIsAJob DEF IndInv, EnqueueLocations
    <3>3. /\ Len(queue') = Len(queue) + 1 /\ queue'[Len(queue) + 1] = Top(t)
          /\ \A i \in 1 .. Len(queue) : queue'[i] = queue[i]
          /\ Len(queue) \in Nat
      BY <3>1, <3>2
    <3>4. /\ \A j \in Jobs : Queued(j) => Queued(j)'
          /\ Queued(Top(t))'
      <4>1. \A i \in 1 .. Len(queue) : i \in 1 .. Len(queue')
        BY <3>3
      <4>2. Len(queue) + 1 \in 1 .. Len(queue')
        BY <3>3
      <4>3. \E i \in 1 .. Len(queue') : queue'[i] = Top(t)'
        BY <3>1, <3>3, <4>2 DEF Top
      <4>4. QED
        BY <3>3, <4>1, <4>3 DEF Queued
    <3>5. \A u \in Threads : \A j \in Jobs : Pushing(u, j) => Pushing(u, j)' \/ j = Top(t)
      BY <3>1 DEF Pushing, Top
    <3>6. \A w \in Workers : pc'[w] = "recycle" => pc[w] = "recycle"
      BY <3>1
    <3>7. Top(t)' = Top(t)
      BY <3>1 DEF Top
    <3>8. ASSUME NEW j \in Jobs, enqueued'[j]
          PROVE  \/ Queued(j)'
                 \/ \E u \in Threads : Pushing(u, j)'
                 \/ \E w \in Workers : current'[w] = j
                 \/ completed'[j]
      <4>1. CASE j = Top(t)
        BY <3>4, <3>7, <4>1
      <4>2. CASE j # Top(t)
        BY <3>1, <3>4, <3>5, <3>8, <4>2 DEF HandledInv
      <4>3. QED
        BY <4>1, <4>2
    <3>9. QED
      BY <3>1, <3>6, <3>8 DEF HandledInv
  <2>8. QED
    BY <1>5, <2>1, <2>2, <2>3, <2>4, <2>5, <2>6, <2>7 DEF EnqueueStep
<1>6. ASSUME NEW w \in Workers, WorkerStep(w) \/ SpuriousWakeup(w) PROVE HandledInv'
  <2> USE DEF PushLocations
  <2>1. CASE \/ Loop(w) \/ LockWork(w) \/ PollAborted(w) \/ PollEmpty(w) \/ Sleep(w)
             \/ SpuriousWakeup(w) \/ FinishCallback(w)
    BY <1>2, <2>1 DEF Loop, LockWork, PollAborted, PollEmpty, Sleep, SpuriousWakeup,
                      FinishCallback, fifo, work
  <2>2. CASE PollTakes(w)
    <3>1. /\ pc[w] = "poll" /\ UNCHANGED <<enqueued, completed, frames>>
          /\ pc' = [pc EXCEPT ![w] = "callback"]
          /\ current' = [current EXCEPT ![w] = queue[1]]
          /\ queue' = Tail(queue) /\ queue # << >>
      BY <2>2 DEF PollTakes, Goto, At, IndInv, TypeOK
    <3>2. /\ queue \in Seq(Jobs) /\ Len(queue) \in Nat \ {0}
          /\ current \in [Workers -> Jobs \cup {NoJob}]
          /\ current[w] = NoJob
      <4>1. queue \in Seq(Jobs) /\ current \in [Workers -> Jobs \cup {NoJob}]
        BY DEF IndInv, TypeOK
      <4>2. ~HoldsJob(w)
        BY <3>1 DEF HoldsJob, EnqueueLocations
      <4>3. current[w] = NoJob
        BY <4>2 DEF IndInv, HeldJobInv
      <4>4. QED
        BY <3>1, <4>1, <4>3
    <3>3. Len(queue') = Len(queue) - 1 /\ \A i \in 1 .. Len(queue') : queue'[i] = queue[i + 1]
      BY <3>1, <3>2
    <3>4. \A j \in Jobs : Queued(j) => Queued(j)' \/ current'[w] = j
      <4> SUFFICES ASSUME NEW j \in Jobs, NEW i \in 1 .. Len(queue), queue[i] = j, i # 1
                   PROVE  Queued(j)'
        BY <3>1, <3>2 DEF Queued
      <4>1. i - 1 \in 1 .. Len(queue')
        BY <3>2, <3>3
      <4>2. queue'[i - 1] = j
        BY <3>2, <3>3, <4>1
      <4>3. QED
        BY <4>1, <4>2 DEF Queued
    <3>5. /\ \A u \in Threads : \A j \in Jobs : Pushing(u, j) => Pushing(u, j)'
          /\ \A u \in Workers : \A j \in Jobs : current[u] = j => current'[u] = j
          /\ \A u \in Workers : pc'[u] = "recycle" => pc[u] = "recycle" /\ current'[u] = current[u]
      BY <3>1, <3>2, JobsAssumption DEF Pushing, Top
    <3>6. QED
      BY <3>1, <3>4, <3>5 DEF HandledInv
  <2>3. ASSUME NEW k \in Jobs, ReleaseDependent(w, k) PROVE HandledInv'
    <3>1. /\ pc[w] = "release" /\ UNCHANGED <<enqueued, queue, current, completed>>
          /\ \E to \in {"release", "enqTest"} : pc' = [pc EXCEPT ![w] = to]
          /\ \A u \in Threads : u # w => frames'[u] = frames[u]
      BY <2>3 DEF ReleaseDependent, CallEnqueue, Goto, At, fifo, IndInv, TypeOK
    <3>2. QED
      BY <1>3, <3>1
  <2>4. CASE Complete(w)
    <3>1. /\ pc[w] = "release" /\ UNCHANGED <<enqueued, queue, current, frames>>
          /\ \A t \in Threads : \/ pc'[t] = pc[t]
                                \/ t = w /\ pc'[t] = "recycle"
                                \/ t = Main /\ pc[t] = "waiting" /\ pc'[t] = "lockWait"
          /\ completed' = [completed EXCEPT ![current[w]] = TRUE]
      BY <2>4 DEF Complete, At, fifo, work
    <3>2. current[w] \in Jobs
      BY <3>1 DEF IndInv, TypeOK, HeldJobInv, HoldsJob
    <3>3. completed'[current[w]] /\ \A j \in Jobs : completed[j] => completed'[j]
      BY <3>1, <3>2
    <3>4. QED
      BY <3>1, <3>3, StillHandled DEF Top
  <2>5. CASE RecycleSlot(w)
    <3>1. /\ pc[w] = "recycle" /\ UNCHANGED <<enqueued, queue, completed, frames>>
          /\ pc' = [pc EXCEPT ![w] = "loop"]
          /\ current' = [current EXCEPT ![w] = NoJob]
      BY <2>5 DEF RecycleSlot, Goto, At, fifo
    <3>2. completed[current[w]] /\ current \in [Workers -> Jobs \cup {NoJob}]
      BY <3>1 DEF HandledInv, IndInv, TypeOK
    <3>3. /\ \A u \in Threads : \A j \in Jobs : Pushing(u, j) => Pushing(u, j)'
          /\ \A u \in Workers : \A j \in Jobs : current[u] = j => current'[u] = j \/ completed[j]
          /\ \A u \in Workers : pc'[u] = "recycle" => pc[u] = "recycle" /\ current'[u] = current[u]
      BY <3>1, <3>2 DEF Pushing, Top
    <3>4. QED
      BY <3>1, <3>3 DEF HandledInv, Queued
  <2>6. QED
    BY <1>6, <2>1, <2>2, <2>3, <2>4, <2>5 DEF WorkerStep
<1>7. CASE MainStep \/ SpuriousWait
  <2> USE DEF PushLocations
  <2>1. CASE AbortNotify
    BY <1>1, <2>1 DEF AbortNotify, GotoWakingAll, At, fifo, work
  <2>2. CASE LockWait \/ WaitDone \/ WaitNotDone \/ WaitSleep \/ SpuriousWait \/ Abort \/ Join
    BY <1>2, <2>2 DEF LockWait, WaitDone, WaitNotDone, WaitSleep, SpuriousWait, Abort, Join,
                      fifo, work
  <2>3. QED
    BY <1>7, <2>1, <2>2 DEF MainStep
<1>8. ASSUME NEW p \in Jobs, NEW d \in Jobs, AddDependency(p, d) PROVE HandledInv'
  BY <1>4, <1>8 DEF AddDependency, fifo, work
<1>9. CASE StartEnqueue
  <2>1. /\ pc[Main] = "create" /\ UNCHANGED <<enqueued, queue, current, completed>>
        /\ pc' = [pc EXCEPT ![Main] = "enqTest"]
        /\ \A u \in Threads : u # Main => frames'[u] = frames[u]
    BY <1>9 DEF StartEnqueue, CallEnqueue, Goto, At, fifo, work, IndInv, TypeOK
  <2>2. QED
    BY <1>3, <2>1 DEF PushLocations
<1>10. CASE UNCHANGED vars
  BY <1>4, <1>10 DEF vars
<1>11. QED
  BY <1>5, <1>6, <1>7, <1>8, <1>9, <1>10 DEF Next, Terminated

(* A job with dependencies waits for one of them, or whoever released it   *)
(* from the last of them is about to enqueue it.                           *)
Enqueuing(t, k) == pc[t] \in {"enqTest", "enqClaim"} /\ Top(t) = k

ReleasedInv ==
  \A k \in Jobs :
    dependsOn[k] # {} =>
      enqueued[k] \/ pending[k] > 0 \/ \E t \in Threads : Enqueuing(t, k)

LEMMA ReleasedStep ==
  ASSUME IndInv, ReleasedInv, [Next]_vars
  PROVE  ReleasedInv'
<1> USE Threadwise
<1> DEFINE Moves(t) == pc[t] \notin {"enqTest", "enqClaim"}
<1>1. ASSUME UNCHANGED <<graph, enqueued>>,
             \A t \in Threads : Moves(t) \/ (pc'[t] = pc[t] /\ frames'[t] = frames[t])
      PROVE  ReleasedInv'
  BY <1>1 DEF ReleasedInv, Enqueuing, Top, graph
<1>2. ASSUME UNCHANGED <<graph, enqueued, frames>>,
             NEW t \in Threads, NEW from, NEW to, Goto(t, from, to),
             from \notin {"enqTest", "enqClaim"}
      PROVE  ReleasedInv'
  BY <1>1, <1>2 DEF Goto, At
<1>3. ASSUME UNCHANGED <<graph, enqueued, frames, pc>> PROVE ReleasedInv'
  BY <1>1, <1>3
<1>4. ASSUME NEW t \in Threads, EnqueueStep(t) PROVE ReleasedInv'
  <2>1. CASE NotifyAndReturn(t)
    <3>1. /\ pc[t] = "children" /\ UNCHANGED <<graph, enqueued>>
          /\ \A u \in Threads : u # t => frames'[u] = frames[u]
          /\ \A u \in Threads : u # t => pc'[u] = pc[u] \/ pc[u] = "asleep"
      BY <2>1 DEF NotifyAndReturn, GotoWakingOne, At, IndInv, TypeOK
    <3>2. QED
      BY <1>1, <3>1
  <2>2. ASSUME NEW c \in Jobs, VisitChild(t, c) PROVE ReleasedInv'
    <3>1. /\ pc[t] = "children" /\ UNCHANGED <<graph, enqueued>>
          /\ \A u \in Threads : u # t => frames'[u] = frames[u] /\ pc'[u] = pc[u]
      BY <2>2 DEF VisitChild, CallEnqueue, Goto, At, IndInv, TypeOK
    <3>2. QED
      BY <1>1, <3>1
  <2>3. CASE TestPending(t)
    <3>1. /\ pc[t] = "enqTest" /\ UNCHANGED <<dependsOn, pending, enqueued, frames>>
          /\ pc' = [pc EXCEPT ![t] = IF pending[Top(t)] <= 0 THEN "enqClaim" ELSE "children"]
          /\ Top(t) \in Jobs /\ pending \in [Jobs -> Int]
      BY <2>3, TopIsAJob DEF TestPending, Goto, At, graph, IndInv, TypeOK, EnqueueLocations
    <3>2. \A k \in Jobs : \A u \in Threads : Enqueuing(u, k) => Enqueuing(u, k)' \/ pending[k] > 0
      BY <3>1 DEF Enqueuing, Top
    <3>3. QED
      BY <3>1, <3>2 DEF ReleasedInv
  <2>4. CASE ClaimEnqueue(t)
    <3>1. /\ pc[t] = "enqClaim" /\ UNCHANGED <<dependsOn, pending, frames>>
          /\ \A u \in Threads : u # t => pc'[u] = pc[u]
          /\ enqueued' = [enqueued EXCEPT ![Top(t)] = TRUE]
          /\ Top(t) \in Jobs /\ enqueued \in [Jobs -> BOOLEAN]
      BY <2>4, TopIsAJob DEF ClaimEnqueue, Goto, At, graph, IndInv, TypeOK, EnqueueLocations
    <3>2. \A k \in Jobs : \A u \in Threads : Enqueuing(u, k) => Enqueuing(u, k)' \/ enqueued'[k]
      BY <3>1 DEF Enqueuing, Top
    <3>3. \A k \in Jobs : enqueued[k] => enqueued'[k]
      BY <3>1
    <3>4. QED
      BY <3>1, <3>2, <3>3 DEF ReleasedInv
  <2>5. CASE PushLoad(t) \/ PushAppend(t) \/ PushRetry(t)
    BY <1>2, <2>5 DEF PushLoad, PushAppend, PushRetry
  <2>6. CASE PushRefused(t)
    BY <1>3, <2>6 DEF PushRefused
  <2>7. QED
    BY <1>4, <2>1, <2>2, <2>3, <2>4, <2>5, <2>6 DEF EnqueueStep
<1>5. ASSUME NEW w \in Workers, WorkerStep(w) \/ SpuriousWakeup(w) PROVE ReleasedInv'
  <2>1. CASE \/ Loop(w) \/ LockWork(w) \/ PollAborted(w) \/ PollEmpty(w) \/ Sleep(w)
             \/ SpuriousWakeup(w) \/ FinishCallback(w) \/ PollTakes(w) \/ RecycleSlot(w)
    BY <1>2, <2>1 DEF Loop, LockWork, PollAborted, PollEmpty, Sleep, SpuriousWakeup,
                      FinishCallback, PollTakes, RecycleSlot
  <2>2. CASE Complete(w)
    BY <1>1, <2>2 DEF Complete, At
  <2>3. ASSUME NEW k \in Jobs, ReleaseDependent(w, k) PROVE ReleasedInv'
    <3>1. /\ pc[w] = "release" /\ UNCHANGED <<dependsOn, enqueued>>
          /\ \A u \in Threads : u # w => frames'[u] = frames[u] /\ pc'[u] = pc[u]
          /\ pending' = [pending EXCEPT ![k] = @ - 1] /\ pending \in [Jobs -> Int]
      BY <2>3 DEF ReleaseDependent, CallEnqueue, Goto, At, IndInv, TypeOK
    <3>2. pending[k] - 1 = 0 => Enqueuing(w, k)'
      <4>1. ASSUME pending[k] - 1 = 0
            PROVE  pc'[w] = "enqTest" /\ frames'[w] = <<Frame(k)>> \o << >>
        BY <2>3, <4>1 DEF ReleaseDependent, CallEnqueue, Goto, IndInv, TypeOK
      <4>2. Frame(k) \in Frames /\ Frame(k).job = k
        BY FrameType DEF IndInv
      <4>3. (<<Frame(k)>> \o << >>)[1] = Frame(k)
        BY <4>2
      <4>4. QED
        BY <4>1, <4>2, <4>3 DEF Enqueuing, Top
    <3>3. \A j \in Jobs : \A u \in Threads : Enqueuing(u, j) => Enqueuing(u, j)'
      BY <3>1 DEF Enqueuing, Top
    <3>4. \A j \in Jobs : pending[j] > 0 => pending'[j] > 0 \/ Enqueuing(w, j)'
      BY <3>1, <3>2
    <3>5. QED
      BY <3>1, <3>3, <3>4 DEF ReleasedInv
  <2>4. QED
    BY <1>5, <2>1, <2>2, <2>3 DEF WorkerStep
<1>6. CASE MainStep \/ SpuriousWait
  <2>1. CASE AbortNotify
    BY <1>1, <2>1 DEF AbortNotify, GotoWakingAll, At
  <2>2. CASE LockWait \/ WaitDone \/ WaitNotDone \/ WaitSleep \/ SpuriousWait \/ Abort \/ Join
    BY <1>2, <2>2 DEF LockWait, WaitDone, WaitNotDone, WaitSleep, SpuriousWait, Abort, Join
  <2>3. QED
    BY <1>6, <2>1, <2>2 DEF MainStep
<1>7. ASSUME NEW p \in Jobs, NEW d \in Jobs, AddDependency(p, d) PROVE ReleasedInv'
  <2>1. /\ UNCHANGED <<enqueued, frames, pc>>
        /\ dependsOn' = [dependsOn EXCEPT ![p] = @ \cup {d}]
        /\ pending' = [pending EXCEPT ![p] = @ + 1] /\ pending \in [Jobs -> Int]
        /\ dependsOn \in [Jobs -> SUBSET Jobs]
    BY <1>7 DEF AddDependency, IndInv, TypeOK
  <2>2. pending[p] \in Nat
    BY UnreleasedIsFinite DEF IndInv, PendingInv
  <2>3. /\ pending'[p] > 0
        /\ \A k \in Jobs : k # p => pending'[k] = pending[k] /\ dependsOn'[k] = dependsOn[k]
    BY <2>1, <2>2
  <2>4. \A k \in Jobs : \A u \in Threads : Enqueuing(u, k) => Enqueuing(u, k)'
    BY <2>1 DEF Enqueuing, Top
  <2>5. QED
    BY <2>1, <2>3, <2>4 DEF ReleasedInv
<1>8. CASE StartEnqueue
  <2>1. /\ pc[Main] = "create" /\ UNCHANGED <<graph, enqueued>>
        /\ \A u \in Threads : u # Main => frames'[u] = frames[u] /\ pc'[u] = pc[u]
    BY <1>8 DEF StartEnqueue, CallEnqueue, Goto, At, IndInv, TypeOK
  <2>2. QED
    BY <1>1, <2>1
<1>9. CASE UNCHANGED vars
  BY <1>3, <1>9 DEF vars, graph
<1>10. QED
  BY <1>4, <1>5, <1>6, <1>7, <1>8, <1>9 DEF Next, Terminated

----------------------------------------------------------------------------
(***************************************************************************)
(* The walk of the main thread over the graph.                             *)
(***************************************************************************)

(* The jobs that wait for l, directly or not, and l. *)
Above(l) ==
  {j \in Jobs :
     \A S \in SUBSET Jobs :
       (l \in S /\ \A k \in S : Dependents(k) \subseteq S) => j \in S}

LEMMA AboveIs ==
  ASSUME NEW l \in Jobs
  PROVE  /\ l \in Above(l) /\ Above(l) \subseteq Jobs
         /\ \A k \in Above(l) : Dependents(k) \subseteq Above(l)
         /\ \A j \in Above(l) \ {l} : dependsOn[j] \cap Above(l) # {}
<1> DEFINE Closed(S) == l \in S /\ \A k \in S : Dependents(k) \subseteq S
<1>1. l \in Above(l) /\ Above(l) \subseteq Jobs
  BY DEF Above
<1>2. ASSUME NEW k \in Above(l), NEW p \in Dependents(k)
      PROVE  p \in Above(l)
  BY <1>2 DEF Above, Dependents
<1>3. ASSUME NEW j \in Above(l) \ {l}, dependsOn[j] \cap Above(l) = {}
      PROVE  FALSE
  <2> DEFINE S == Above(l) \ {j}
  <2>1. S \in SUBSET Jobs /\ l \in S
    BY <1>1
  <2>2. ASSUME NEW k \in S, NEW p \in Dependents(k) PROVE p \in S
    BY <1>2, <1>3, <2>2 DEF Dependents
  <2>3. Closed(S)
    BY <2>1, <2>2
  <2>4. j \in S
    BY <2>1, <2>3 DEF Above
  <2>5. QED
    BY <2>4
<1>4. QED
  BY <1>1, <1>2, <1>3

(* Once a job is enqueued so is everything below it. *)
LEMMA EnqueuedBelow ==
  ASSUME IndInv, NEW p \in Jobs, enqueued[p], NEW d \in dependsOn[p]
  PROVE  enqueued[d] /\ phase[d] = "done"
<1>1. Unreleased(p) = {}
  BY ReadyHasNoUnreleased DEF IndInv, ReadyInv
<1>2. d \in Jobs
  BY DEF IndInv, TypeOK
<1>3. phase[d] = "done"
  BY <1>1 DEF Unreleased
<1>4. QED
  BY <1>2, <1>3 DEF IndInv, EnqueuedInv

LEMMA AboveNotEnqueued ==
  ASSUME IndInv, NEW l \in Jobs, ~enqueued[l], NEW j \in Above(l)
  PROVE  ~enqueued[j]
<1> DEFINE S == {k \in Jobs : ~enqueued[k]}
<1>1. S \in SUBSET Jobs /\ l \in S
  OBVIOUS
<1>2. ASSUME NEW k \in S, NEW p \in Dependents(k) PROVE p \in S
  BY EnqueuedBelow DEF Dependents
<1>3. j \in S
  BY <1>1, <1>2 DEF Above
<1>4. QED
  BY <1>3

(* The root is above every job. *)
LEMMA RootAbove ==
  ASSUME IndInv, BuiltInv, AcyclicEdges, \A j \in Jobs \ {Root} : Dependents(j) # {},
         NEW l \in Jobs
  PROVE  Root \in Above(l)
<1> SUFFICES ASSUME Root \notin Above(l) PROVE FALSE
  OBVIOUS
<1>1. ASSUME NEW j \in Above(l) PROVE \E p \in Above(l) : <<p, j>> \in Edges
  <2>1. j \in Jobs \ {Root}
    BY AboveIs
  <2>2. PICK p : p \in Dependents(j)
    BY <2>1
  <2>3. p \in Jobs /\ j \in dependsOn[p]
    BY <2>2 DEF Dependents
  <2>4. QED
    BY <2>2, <2>3, AboveIs DEF BuiltInv
<1>2. Above(l) \in SUBSET Jobs /\ l \in Above(l)
  BY AboveIs
<1>3. QED
  BY <1>1, <1>2 DEF AcyclicEdges

(* A job without dependencies that is not enqueued is still ahead of the   *)
(* walk of the main thread: below a child it has yet to visit, or the job  *)
(* whose Enqueue it has just entered.                                      *)
Ahead(l) ==
  \/ \E i \in 1 .. Len(frames[Main]) :
       frames[Main][i].children \cap Above(l) # {}
  \/ Enqueuing(Main, l)

WalkInv ==
  \A l \in Jobs :
    pc[Main] # "create" /\ dependsOn[l] = {} /\ ~enqueued[l] => Ahead(l)

(* A call of Enqueue(c) is ahead of everything below c. *)
LEMMA CalledAhead ==
  ASSUME TypeOK, NEW l \in Jobs, NEW c \in Above(l), NEW s \in Seq(Frames), UNCHANGED dependsOn,
         frames'[Main] = <<Frame(c)>> \o s, pc'[Main] = "enqTest"
  PROVE  Ahead(l)'
<1>1. c \in Jobs /\ Frame(c) \in Frames /\ Frame(c).job = c /\ Frame(c).children = dependsOn[c]
  BY FrameType, AboveIs DEF Frame
<1>2. /\ 1 \in 1 .. Len(frames'[Main]) /\ frames'[Main][1] = Frame(c)
  BY <1>1
<1>3. Above(l)' = Above(l)
  BY DEF Above, Dependents
<1>4. CASE c = l
  <2>1. Enqueuing(Main, l)'
    BY <1>1, <1>2, <1>4 DEF Enqueuing, Top
  <2>2. QED
    BY <2>1 DEF Ahead
<1>5. CASE c # l
  BY <1>1, <1>2, <1>3, <1>5, AboveIs DEF Ahead
<1>6. QED
  BY <1>4, <1>5

LEMMA WalkStep ==
  ASSUME AcyclicEdges, IndInv, BuiltInv, WalkInv, [Next]_vars
  PROVE  WalkInv'
<1> USE Threadwise
<1>1. enqueued \in [Jobs -> BOOLEAN] /\ frames \in [Threads -> Seq(Frames)]
  BY DEF IndInv, TypeOK
<1>2. ASSUME pc[Main] # "create", UNCHANGED dependsOn, \A j \in Jobs : enqueued[j] => enqueued'[j],
             \A l \in Jobs : dependsOn[l] = {} /\ ~enqueued[l] /\ Ahead(l) => Ahead(l)' \/ enqueued'[l]
      PROVE  WalkInv'
  BY <1>2 DEF WalkInv
<1>3. ASSUME UNCHANGED <<dependsOn, enqueued>>, frames'[Main] = frames[Main],
             pc[Main] \notin {"create", "enqTest", "enqClaim"} \/ pc'[Main] = pc[Main],
             pc'[Main] = "create" => pc[Main] = "create"
      PROVE  WalkInv'
  <2>1. \A l \in Jobs : Above(l)' = Above(l)
    BY <1>3 DEF Above, Dependents
  <2>2. CASE pc[Main] = "create"
    BY <1>3, <2>2 DEF WalkInv
  <2>3. CASE pc[Main] # "create"
    <3>1. \A l \in Jobs : Ahead(l) => Ahead(l)'
      BY <1>3, <2>1 DEF Ahead, Enqueuing, Top
    <3>2. QED
      BY <1>2, <1>3, <2>3, <3>1
  <2>4. QED
    BY <2>2, <2>3
<1>4. ASSUME NEW t \in Workers, EnqueueStep(t) PROVE WalkInv'
  <2>1. CASE ClaimEnqueue(t)
    <3>1. /\ pc[t] = "enqClaim" /\ UNCHANGED <<dependsOn, frames>>
          /\ pc'[Main] = pc[Main]
          /\ enqueued' = [enqueued EXCEPT ![Top(t)] = TRUE]
      BY <2>1 DEF ClaimEnqueue, Goto, At, graph
    <3>2. Top(t) \in Jobs /\ pc[Main] # "create"
      BY <3>1, TopIsAJob, EnqueueLeavesCreate DEF IndInv, EnqueueLocations
    <3>3. \A j \in Jobs : enqueued[j] => enqueued'[j]
      BY <1>1, <3>1, <3>2
    <3>4. \A l \in Jobs : Ahead(l) => Ahead(l)'
      BY <3>1 DEF Ahead, Enqueuing, Top, Above, Dependents
    <3>5. QED
      BY <1>2, <3>1, <3>2, <3>3, <3>4
  <2>2. CASE NotifyAndReturn(t)
    <3>1. UNCHANGED <<dependsOn, enqueued>> /\ frames'[Main] = frames[Main] /\ pc'[Main] = pc[Main]
      BY <1>1, <2>2 DEF NotifyAndReturn, GotoWakingOne, At, graph, WorkerLocations
    <3>2. QED
      BY <1>3, <3>1
  <2>3. ASSUME NEW c \in Jobs, VisitChild(t, c) PROVE WalkInv'
    <3>1. UNCHANGED <<dependsOn, enqueued>> /\ frames'[Main] = frames[Main] /\ pc'[Main] = pc[Main]
      BY <1>1, <2>3 DEF VisitChild, CallEnqueue, Goto, At, graph
    <3>2. QED
      BY <1>3, <3>1
  <2>4. CASE TestPending(t) \/ PushLoad(t) \/ PushAppend(t) \/ PushRetry(t) \/ PushRefused(t)
    <3>1. UNCHANGED <<dependsOn, enqueued, frames>> /\ pc'[Main] = pc[Main]
      BY <2>4 DEF TestPending, PushLoad, PushAppend, PushRetry, PushRefused, Goto, At, graph
    <3>2. QED
      BY <1>3, <3>1
  <2>5. QED
    BY <1>4, <2>1, <2>2, <2>3, <2>4 DEF EnqueueStep
<1>5. CASE EnqueueStep(Main)
  <2>1. CASE TestPending(Main)
    <3>1. /\ pc[Main] = "enqTest" /\ UNCHANGED <<dependsOn, enqueued, frames>>
          /\ pc'[Main] = IF pending[Top(Main)] <= 0 THEN "enqClaim" ELSE "children"
      BY <2>1 DEF TestPending, Goto, At, graph
    <3>2. ASSUME NEW l \in Jobs, dependsOn[l] = {}, Ahead(l) PROVE Ahead(l)'
      <4>1. CASE Top(Main) = l
        <5>1. Unreleased(l) = {}
          BY <3>2 DEF Unreleased
        <5>2. pending[l] = 0
          BY <5>1, FS_EmptySet DEF IndInv, PendingInv
        <5>3. QED
          BY <3>1, <4>1, <5>2 DEF Ahead, Enqueuing, Top
      <4>2. CASE Top(Main) # l
        BY <3>1, <3>2, <4>2 DEF Ahead, Enqueuing, Top, Above, Dependents
      <4>3. QED
        BY <4>1, <4>2
    <3>3. QED
      BY <1>2, <3>1, <3>2
  <2>2. CASE ClaimEnqueue(Main)
    <3>1. /\ pc[Main] = "enqClaim" /\ UNCHANGED <<dependsOn, frames>>
          /\ enqueued' = [enqueued EXCEPT ![Top(Main)] = TRUE]
      BY <2>2 DEF ClaimEnqueue, Goto, At, graph
    <3>2. Top(Main) \in Jobs
      BY <3>1, TopIsAJob DEF IndInv, EnqueueLocations
    <3>3. enqueued'[Top(Main)] /\ \A j \in Jobs : enqueued[j] => enqueued'[j]
      BY <1>1, <3>1, <3>2
    <3>4. ASSUME NEW l \in Jobs, Ahead(l) PROVE Ahead(l)' \/ enqueued'[l]
      <4>1. CASE Enqueuing(Main, l)
        BY <3>3, <4>1 DEF Enqueuing
      <4>2. CASE ~Enqueuing(Main, l)
        BY <3>1, <3>4, <4>2 DEF Ahead, Above, Dependents
      <4>3. QED
        BY <4>1, <4>2
    <3>5. QED
      BY <1>2, <3>1, <3>3, <3>4
  <2>3. CASE PushLoad(Main) \/ PushAppend(Main) \/ PushRetry(Main) \/ PushRefused(Main)
    <3>1. /\ UNCHANGED <<dependsOn, enqueued, frames>> /\ pc[Main] \in PushLocations
          /\ pc'[Main] # "create"
      BY <2>3 DEF PushLoad, PushAppend, PushRetry, PushRefused, Goto, At, graph, PushLocations
    <3>2. QED
      BY <1>3, <3>1 DEF PushLocations
  <2>4. ASSUME NEW c \in Jobs, VisitChild(Main, c) PROVE WalkInv'
    <3> DEFINE f == frames[Main]
               visited == [f EXCEPT ![1].children = @ \ {c}]
    <3>1. /\ pc[Main] = "children" /\ UNCHANGED <<dependsOn, enqueued>>
          /\ \/ /\ enqueued[c] /\ frames'[Main] = visited
             \/ /\ ~enqueued[c] /\ frames'[Main] = <<Frame(c)>> \o visited
                /\ pc'[Main] = "enqTest"
      BY <1>1, <2>4 DEF VisitChild, CallEnqueue, Goto, At, graph
    <3>2. f \in Seq(Frames) /\ Len(f) \in Nat \ {0} /\ f[1] \in Frames
      BY <3>1, TopIsAJob DEF IndInv, EnqueueLocations
    <3>3. /\ visited \in Seq(Frames) /\ Len(visited) = Len(f)
          /\ visited[1].children = f[1].children \ {c}
          /\ \A i \in 2 .. Len(f) : visited[i] = f[i]
      <4>1. [f[1] EXCEPT !.children = @ \ {c}] \in Frames
        BY <3>2 DEF Frames
      <4>2. visited = [f EXCEPT ![1] = [f[1] EXCEPT !.children = @ \ {c}]]
        BY <3>2
      <4>3. 1 \in 1 .. Len(f) /\ [f[1] EXCEPT !.children = @ \ {c}].children = f[1].children \ {c}
        BY <3>2 DEF Frames
      <4>4. QED
        BY <3>2, <4>1, <4>2, <4>3
    <3>4. ASSUME NEW l \in Jobs, ~enqueued[l], Ahead(l) PROVE Ahead(l)'
      <4>1. PICK i \in 1 .. Len(f) : f[i].children \cap Above(l) # {}
        BY <3>1, <3>4 DEF Ahead, Enqueuing
      <4>2. Above(l)' = Above(l)
        BY <3>1 DEF Above, Dependents
      <4>3. CASE enqueued[c]
        <5>1. c \notin Above(l)
          BY <3>4, <4>3, AboveNotEnqueued
        <5>2. visited[i].children \cap Above(l) # {} /\ i \in 1 .. Len(visited)
          BY <3>2, <3>3, <4>1, <5>1
        <5>3. QED
          BY <3>1, <4>2, <4>3, <5>2 DEF Ahead
      <4>4. CASE ~enqueued[c] /\ c \in Above(l)
        BY <3>1, <3>3, <4>4, CalledAhead DEF IndInv
      <4>5. CASE ~enqueued[c] /\ c \notin Above(l)
        <5>1. visited[i].children \cap Above(l) # {} /\ i \in 1 .. Len(visited)
          BY <3>2, <3>3, <4>1, <4>5
        <5>2. Frame(c) \in Frames
          BY FrameType DEF IndInv
        <5>3. \A s \in Seq(Frames) : \A x \in Frames : \A n \in 1 .. Len(s) :
                (<<x>> \o s)[n + 1] = s[n] /\ n + 1 \in 1 .. Len(<<x>> \o s)
          OBVIOUS
        <5>4. frames'[Main] = <<Frame(c)>> \o visited
          BY <3>1, <4>5
        <5>5. frames'[Main][i + 1] = visited[i] /\ i + 1 \in 1 .. Len(frames'[Main])
          BY <3>3, <5>1, <5>2, <5>3, <5>4
        <5>6. QED
          BY <4>2, <5>1, <5>5 DEF Ahead
      <4>6. QED
        BY <4>3, <4>4, <4>5
    <3>5. QED
      BY <1>2, <3>1, <3>4
  <2>5. CASE NotifyAndReturn(Main)
    <3> DEFINE f == frames[Main]
    <3>1. /\ pc[Main] = "children" /\ UNCHANGED <<dependsOn, enqueued>>
          /\ frames'[Main] = Tail(f) /\ f[1].children = {}
      BY <1>1, <2>5 DEF NotifyAndReturn, GotoWakingOne, At, graph
    <3>2. f \in Seq(Frames) /\ Len(f) \in Nat \ {0}
      BY <3>1, TopIsAJob DEF IndInv, EnqueueLocations
    <3>3. ASSUME NEW l \in Jobs, Ahead(l) PROVE Ahead(l)'
      <4>1. PICK i \in 1 .. Len(f) : f[i].children \cap Above(l) # {}
        BY <3>1, <3>3 DEF Ahead, Enqueuing
      <4>2. Above(l)' = Above(l)
        BY <3>1 DEF Above, Dependents
      <4>3. i # 1
        BY <3>1, <4>1
      <4>4. i - 1 \in 1 .. Len(Tail(f)) /\ Tail(f)[i - 1] = f[i]
        BY <3>2, <4>3
      <4>5. QED
        BY <3>1, <4>1, <4>2, <4>4 DEF Ahead
    <3>4. QED
      BY <1>2, <3>1, <3>3
  <2>6. QED
    BY <1>5, <2>1, <2>2, <2>3, <2>4, <2>5 DEF EnqueueStep
<1>6. ASSUME NEW w \in Workers, WorkerStep(w) \/ SpuriousWakeup(w) PROVE WalkInv'
  <2>1. /\ UNCHANGED <<dependsOn, enqueued>> /\ frames'[Main] = frames[Main]
        /\ pc'[Main] = pc[Main] \/ (pc[Main] = "waiting" /\ pc'[Main] = "lockWait")
    <3>1. CASE \E k \in Jobs : ReleaseDependent(w, k)
      BY <1>1, <3>1 DEF ReleaseDependent, CallEnqueue, Goto, At
    <3>2. CASE Complete(w)
      BY <3>2 DEF Complete, At, graph
    <3>3. CASE \/ Loop(w) \/ LockWork(w) \/ PollAborted(w) \/ PollEmpty(w) \/ Sleep(w)
               \/ SpuriousWakeup(w) \/ FinishCallback(w) \/ PollTakes(w) \/ RecycleSlot(w)
      BY <3>3 DEF Loop, LockWork, PollAborted, PollEmpty, Sleep, SpuriousWakeup, FinishCallback,
                  PollTakes, RecycleSlot, Goto, At, graph
    <3>4. QED
      BY <1>6, <3>1, <3>2, <3>3 DEF WorkerStep
  <2>2. QED
    BY <1>3, <2>1
<1>7. CASE MainStep \/ SpuriousWait
  <2>1. /\ UNCHANGED <<dependsOn, enqueued, frames>>
        /\ pc[Main] \notin {"create", "enqTest", "enqClaim"} /\ pc'[Main] # "create"
    <3>1. CASE AbortNotify
      BY <3>1 DEF AbortNotify, GotoWakingAll, At, graph
    <3>2. CASE LockWait \/ WaitDone \/ WaitNotDone \/ WaitSleep \/ SpuriousWait \/ Abort \/ Join
      BY <3>2 DEF LockWait, WaitDone, WaitNotDone, WaitSleep, SpuriousWait, Abort, Join, Goto, At,
                  graph
    <3>3. QED
      BY <1>7, <3>1, <3>2 DEF MainStep
  <2>2. QED
    BY <1>3, <2>1
<1>8. ASSUME NEW p \in Jobs, NEW d \in Jobs, AddDependency(p, d) PROVE WalkInv'
  BY <1>8 DEF AddDependency, At, WalkInv
<1>9. CASE StartEnqueue
  <2>1. /\ pc'[Main] = "enqTest" /\ UNCHANGED <<dependsOn, enqueued>>
        /\ frames'[Main] = <<Frame(Root)>> \o << >>
        /\ \A j \in Jobs \ {Root} : Dependents(j) # {}
    BY <1>1, <1>9 DEF StartEnqueue, CallEnqueue, Goto, At, graph
  <2>2. ASSUME NEW l \in Jobs PROVE Ahead(l)'
    <3>1. Root \in Above(l)
      BY <2>1, RootAbove
    <3>2. << >> \in Seq(Frames)
      OBVIOUS
    <3>3. QED
      BY <2>1, <3>1, <3>2, CalledAhead DEF IndInv
  <2>3. QED
    BY <2>2 DEF WalkInv
<1>10. CASE UNCHANGED vars
  BY <1>3, <1>10 DEF vars
<1>11. QED
  BY <1>4, <1>5, <1>6, <1>7, <1>8, <1>9, <1>10 DEF Next, Terminated, Threads

----------------------------------------------------------------------------
(***************************************************************************)
(* Nobody waits for nobody.                                                *)
(***************************************************************************)

(* In a finite acyclic graph a set of jobs that each lead to another of    *)
(* the set is empty, too.                                                  *)
LEMMA AcyclicBothWays ==
  ASSUME AcyclicEdges, NEW N \in SUBSET Jobs,
         \A j \in N : \E d \in N : <<j, d>> \in Edges
  PROVE  N = {}
<1> SUFFICES ASSUME N # {} PROVE FALSE
  OBVIOUS
<1> DEFINE Leads(S) == S # {} /\ \A j \in S : \E d \in S : <<j, d>> \in Edges
           Sizes == {Cardinality(S) : S \in {S \in SUBSET Jobs : Leads(S)}}
           less == OpToRel(<, Nat)
<1>1. \A S \in SUBSET Jobs : IsFiniteSet(S) /\ Cardinality(S) \in Nat
  BY JobsAssumption, FS_Subset, FS_CardinalityType
<1>2. Sizes \subseteq Nat /\ Sizes # {}
  BY <1>1
<1>3. PICK n \in Sizes : \A m \in Sizes : <<m, n>> \notin less
  <2> HIDE DEF Sizes, less
  <2>1. IsWellFoundedOn(less, Nat)
    BY NatLessThanWellFounded DEF less
  <2>2. QED
    BY <1>2, <2>1, WFMin
<1>4. PICK M \in SUBSET Jobs : Leads(M) /\ n = Cardinality(M)
  BY <1>3
<1>5. ASSUME NEW j \in M PROVE \E p \in M : <<p, j>> \in Edges
  <2> SUFFICES ASSUME \A p \in M : <<p, j>> \notin Edges PROVE FALSE
    OBVIOUS
  <2> DEFINE R == M \ {j}
  <2>1. Leads(R)
    <3>1. PICK d \in M : <<j, d>> \in Edges
      BY <1>4
    <3>2. d \in R
      BY <3>1
    <3>3. ASSUME NEW k \in R PROVE \E e \in R : <<k, e>> \in Edges
      <4>1. PICK e \in M : <<k, e>> \in Edges
        BY <1>4
      <4>2. e \in R
        BY <4>1
      <4>3. QED
        BY <4>1, <4>2
    <3>4. QED
      BY <3>2, <3>3
  <2>2. R \in SUBSET Jobs /\ Cardinality(R) \in Nat /\ Cardinality(R) = Cardinality(M) - 1
    BY <1>1, FS_RemoveElement
  <2>3. Cardinality(R) \in Sizes
    BY <2>1, <2>2
  <2>4. Cardinality(R) < n /\ n \in Nat
    BY <1>1, <1>4, <2>2
  <2>5. <<Cardinality(R), n>> \in less
    BY <2>2, <2>4 DEF OpToRel
  <2>6. QED
    BY <1>3, <2>3, <2>5
<1>6. QED
  BY <1>4, <1>5 DEF AcyclicEdges

Waits == pc[Main] \in {"lockWait", "waitTest", "waitSleep", "waiting"}

(* While the main thread waits for a root that has not completed, some     *)
(* pool thread is awake: it looks at the queue, or it runs a job.          *)
SomebodyWorks ==
  Waits /\ ~completed[Root] =>
    \E w \in Workers : pc[w] \notin {"sleep", "asleep", "exited"}

ProgressInv == PollInv /\ ChildrenInv /\ BuiltInv /\ NotifyInv /\ MutexInv /\ StopInv
                 /\ HandledInv /\ ReleasedInv /\ WalkInv

LEMMA NotEverybodySleeps ==
  ASSUME IsFiniteSet(Workers), Workers # {}, AcyclicEdges, IndInv, ProgressInv
  PROVE  SomebodyWorks
<1> SUFFICES ASSUME Waits, ~completed[Root],
                    \A w \in Workers : pc[w] \in {"sleep", "asleep", "exited"}
             PROVE  FALSE
  BY DEF SomebodyWorks
<1> USE Threadwise DEF ProgressInv
<1>1. \A w \in Workers : pc[w] \in {"sleep", "asleep"}
  BY DEF Waits, StopInv, BuiltInv, Returned
<1>2. queue = << >>
  <2>1. Sleeping # {} /\ Awake = {} /\ Owing = {}
    BY <1>1 DEF Sleeping, Awake, Owing, Waits
  <2>2. queue \in Seq(Jobs) /\ Len(queue) \in Nat /\ Len(queue) <= 0
    BY <2>1, FS_EmptySet DEF NotifyInv, IndInv, TypeOK
  <2>3. QED
    BY <2>2
<1>3. \A t \in Threads : pc[t] \notin EnqueueLocations
  BY <1>1 DEF Waits, EnqueueLocations
<1>4. \A w \in Workers : current[w] \notin Jobs
  BY <1>1, JobsAssumption DEF IndInv, HeldJobInv, HoldsJob, EnqueueLocations
<1>5. \A j \in Jobs : enqueued[j] => completed[j]
  BY <1>2, <1>3, <1>4 DEF HandledInv, Queued, Pushing, PushLocations, EnqueueLocations
<1> DEFINE N == {j \in Jobs : ~enqueued[j]}
<1>6. ASSUME NEW j \in N PROVE \E d \in N : <<j, d>> \in Edges
  <2>1. dependsOn[j] # {}
    <3>1. dependsOn[j] = {} => Ahead(j)
      BY DEF WalkInv, Waits
    <3>2. frames[Main] = << >>
      BY <1>3 DEF IndInv, FramesInv
    <3>3. ~Ahead(j)
      BY <1>3, <3>2 DEF Ahead, Enqueuing, EnqueueLocations
    <3>4. QED
      BY <3>1, <3>3
  <2>2. pending[j] > 0
    BY <1>3, <2>1 DEF ReleasedInv, Enqueuing, EnqueueLocations
  <2>3. Unreleased(j) # {}
    BY <2>2, FS_EmptySet DEF IndInv, PendingInv
  <2>4. PICK d : d \in Unreleased(j)
    BY <2>3
  <2>5. d \in dependsOn[j] /\ d \in Jobs /\ phase[d] # "done"
    BY <1>4, <2>4 DEF Unreleased, IndInv, TypeOK
  <2>6. ~enqueued[d]
    BY <1>5, <2>5 DEF IndInv, CompletedInv
  <2>7. QED
    BY <2>5, <2>6 DEF BuiltInv
<1>7. N = {}
  BY <1>6, AcyclicBothWays
<1>8. QED
  BY <1>5, <1>7

LEMMA ProgressInvHolds ==
  ASSUME IsFiniteSet(Workers), AcyclicEdges
  PROVE  Spec => []ProgressInv
<1>1. Init => ProgressInv
  <2> SUFFICES ASSUME Init PROVE ProgressInv
    OBVIOUS
  <2>1. /\ pc[Main] = "create" /\ workMutex = Free /\ waitMutex = Free /\ aborting = FALSE
        /\ \A w \in Workers : pc[w] = "loop"
        /\ \A j \in Jobs : dependsOn[j] = {} /\ enqueued[j] = FALSE
        /\ \A t \in Threads : frames[t] = << >>
        /\ Main # Free
    BY ThreadsAssumption DEF Init, Threads
  <2>2. PollInv /\ MutexInv /\ StopInv
    BY <2>1 DEF PollInv, MutexInv, StopInv
  <2>3. ChildrenInv /\ BuiltInv /\ NotifyInv
    BY <2>1 DEF ChildrenInv, BuiltInv, NotifyInv, Sleeping, Returned
  <2>4. HandledInv /\ ReleasedInv /\ WalkInv
    BY <2>1 DEF HandledInv, ReleasedInv, WalkInv
  <2>5. QED
    BY <2>2, <2>3, <2>4 DEF ProgressInv
<1>2. IndInv /\ ProgressInv /\ [Next]_vars => ProgressInv'
  <2> SUFFICES ASSUME IndInv, ProgressInv, [Next]_vars PROVE ProgressInv'
    OBVIOUS
  <2> USE DEF ProgressInv
  <2>1. PollInv' /\ ChildrenInv' /\ BuiltInv' /\ NotifyInv'
    BY PollStep, ChildrenStep, BuiltStep, NotifyStep
  <2>2. MutexInv' /\ StopInv' /\ HandledInv'
    BY MutexStep, StopStep, HandledStep
  <2>3. ReleasedInv' /\ WalkInv'
    BY ReleasedStep, WalkStep
  <2>4. QED
    BY <2>1, <2>2, <2>3
<1>3. QED
  BY <1>1, <1>2, IndInvHolds, PTL DEF Spec

(* No deadlock, whatever the graph and the number of pool threads: never   *)
(* does the main thread wait for the root while every pool thread sleeps   *)
(* on m_WorkCondVar or has left.                                           *)
THEOREM SomebodyAlwaysWorks ==
  ASSUME IsFiniteSet(Workers), Workers # {}, AcyclicEdges
  PROVE  Spec => []SomebodyWorks
<1>1. IndInv /\ ProgressInv => SomebodyWorks
  BY NotEverybodySleeps
<1>2. QED
  BY <1>1, ProgressInvHolds, IndInvHolds, PTL

(* Nothing is left behind: when Wait has returned every job has run, not   *)
(* only the root that Builder waits for.                                   *)
AllDoneAtTheEnd == Returned => \A j \in Jobs : phase[j] = "done"

THEOREM AllJobsHaveRun ==
  ASSUME IsFiniteSet(Workers), AcyclicEdges
  PROVE  Spec => []AllDoneAtTheEnd
<1>1. IndInv /\ ProgressInv => AllDoneAtTheEnd
  <2> SUFFICES ASSUME IndInv, ProgressInv, Returned PROVE \A j \in Jobs : phase[j] = "done"
    BY DEF AllDoneAtTheEnd
  <2> DEFINE Left == {j \in Jobs : phase[j] # "done"}
  <2>1. phase[Root] = "done" /\ pc[Main] # "create"
    BY JobsAssumption DEF ProgressInv, BuiltInv, IndInv, CompletedInv, Returned
  <2>2. ASSUME NEW j \in Left PROVE \E p \in Left : <<p, j>> \in Edges
    <3>1. PICK p \in Jobs : j \in dependsOn[p]
      BY <2>1 DEF ProgressInv, BuiltInv, Dependents
    <3>2. phase[p] # "done"
      BY <3>1, EnqueuedBelow DEF IndInv, EnqueuedInv
    <3>3. QED
      BY <3>1, <3>2 DEF ProgressInv, BuiltInv
  <2>3. Left \in SUBSET Jobs
    OBVIOUS
  <2>4. Left = {}
    BY <2>2, <2>3 DEF AcyclicEdges
  <2>5. QED
    BY <2>4
<1>2. QED
  BY <1>1, ProgressInvHolds, IndInvHolds, PTL
----------------------------------------------------------------------------
(***************************************************************************)
(* When assert(false) of Enqueue can fail.                                 *)
(***************************************************************************)

(* m_Head never goes back. *)
OldHeadInv ==
  \A t \in Threads : pc[t] = "pushTry" => oldHead[t] <= popped + Len(queue)

LEMMA OldHeadStep ==
  ASSUME IndInv, OldHeadInv, [Next]_vars
  PROVE  OldHeadInv'
<1> USE Threadwise
<1>1. /\ queue \in Seq(Jobs) /\ Len(queue) \in Nat /\ popped \in Nat
      /\ oldHead \in [Threads -> Nat]
  BY DEF IndInv, TypeOK
<1>2. ASSUME UNCHANGED oldHead, popped + Len(queue) <= popped' + Len(queue'),
             Len(queue') \in Nat, popped' \in Nat,
             \A t \in Threads : pc'[t] = "pushTry" => pc[t] = "pushTry"
      PROVE  OldHeadInv'
  BY <1>1, <1>2 DEF OldHeadInv
<1>3. ASSUME UNCHANGED fifo, NEW t \in Threads, NEW from, NEW to, Goto(t, from, to),
             to # "pushTry"
      PROVE  OldHeadInv'
  BY <1>1, <1>2, <1>3 DEF Goto, At, fifo
<1>4. ASSUME UNCHANGED <<fifo, pc>> PROVE OldHeadInv'
  BY <1>1, <1>2, <1>4 DEF fifo
<1>5. ASSUME NEW t \in Threads, EnqueueStep(t) PROVE OldHeadInv'
  <2>1. CASE NotifyAndReturn(t)
    <3>1. UNCHANGED fifo /\ \A u \in Threads : pc'[u] = "pushTry" => pc[u] = "pushTry"
      BY <2>1 DEF NotifyAndReturn, GotoWakingOne, At
    <3>2. QED
      BY <1>1, <1>2, <3>1 DEF fifo
  <2>2. CASE \E c \in Jobs : VisitChild(t, c)
    BY <1>3, <1>4, <2>2 DEF VisitChild, CallEnqueue
  <2>3. CASE TestPending(t) \/ PushRetry(t)
    BY <1>3, <2>3 DEF TestPending, PushRetry
  <2>4. CASE ClaimEnqueue(t)
    BY <1>3, <2>4 DEF ClaimEnqueue
  <2>5. CASE PushRefused(t)
    BY <1>4, <2>5 DEF PushRefused
  <2>6. CASE PushLoad(t)
    <3>1. /\ UNCHANGED <<queue, popped>>
          /\ oldHead' = [oldHead EXCEPT ![t] = popped + Len(queue)]
          /\ \A u \in Threads : u # t => pc'[u] = pc[u]
      BY <2>6 DEF PushLoad, Goto, At
    <3>2. QED
      BY <1>1, <3>1 DEF OldHeadInv
  <2>7. CASE PushAppend(t)
    <3>1. /\ pc[t] = "pushTry" /\ popped' = popped /\ queue' = Append(queue, Top(t))
          /\ oldHead' = [oldHead EXCEPT ![t] = 0]
          /\ pc'[t] = "children" /\ \A u \in Threads : u # t => pc'[u] = pc[u]
      BY <2>7 DEF PushAppend, Goto, At
    <3>2. Top(t) \in Jobs
      BY <3>1, TopIsAJob DEF IndInv, EnqueueLocations
    <3>3. Len(queue') = Len(queue) + 1
      BY <1>1, <3>1, <3>2
    <3>4. QED
      BY <1>1, <3>1, <3>3 DEF OldHeadInv
  <2>8. QED
    BY <1>5, <2>1, <2>2, <2>3, <2>4, <2>5, <2>6, <2>7 DEF EnqueueStep
<1>6. ASSUME NEW w \in Workers, WorkerStep(w) \/ SpuriousWakeup(w) PROVE OldHeadInv'
  <2>1. CASE \/ Loop(w) \/ LockWork(w) \/ PollAborted(w) \/ PollEmpty(w) \/ Sleep(w)
             \/ SpuriousWakeup(w) \/ FinishCallback(w) \/ RecycleSlot(w)
    BY <1>3, <2>1 DEF Loop, LockWork, PollAborted, PollEmpty, Sleep, SpuriousWakeup,
                      FinishCallback, RecycleSlot
  <2>2. CASE PollTakes(w)
    <3>1. /\ queue # << >> /\ queue' = Tail(queue) /\ popped' = popped + 1
          /\ oldHead' = oldHead
          /\ \A u \in Threads : pc'[u] = "pushTry" => pc[u] = "pushTry"
      BY <2>2 DEF PollTakes, Goto, At
    <3>2. Len(queue') = Len(queue) - 1 /\ Len(queue') \in Nat
      BY <1>1, <3>1
    <3>3. QED
      BY <1>1, <1>2, <3>1, <3>2
  <2>3. CASE Complete(w)
    BY <1>1, <1>2, <2>3 DEF Complete, At, fifo
  <2>4. CASE \E k \in Jobs : ReleaseDependent(w, k)
    BY <1>3, <1>4, <2>4 DEF ReleaseDependent, CallEnqueue
  <2>5. QED
    BY <1>6, <2>1, <2>2, <2>3, <2>4 DEF WorkerStep
<1>7. CASE MainStep \/ SpuriousWait
  <2>1. CASE AbortNotify
    BY <1>1, <1>2, <2>1 DEF AbortNotify, GotoWakingAll, At, fifo
  <2>2. CASE LockWait \/ WaitDone \/ WaitNotDone \/ WaitSleep \/ SpuriousWait \/ Abort \/ Join
    BY <1>3, <2>2 DEF LockWait, WaitDone, WaitNotDone, WaitSleep, SpuriousWait, Abort, Join
  <2>3. QED
    BY <1>7, <2>1, <2>2 DEF MainStep
<1>8. ASSUME NEW p \in Jobs, NEW d \in Jobs, AddDependency(p, d) PROVE OldHeadInv'
  BY <1>4, <1>8 DEF AddDependency
<1>9. CASE StartEnqueue
  BY <1>3, <1>9 DEF StartEnqueue, CallEnqueue
<1>10. CASE UNCHANGED vars
  BY <1>4, <1>10 DEF vars, fifo
<1>11. QED
  BY <1>5, <1>6, <1>7, <1>8, <1>9, <1>10 DEF Next, Terminated

(* Whoever pushes a job finds room for it: the others in the queue are     *)
(* different jobs.                                                         *)
LEMMA RoomForOneMore ==
  ASSUME IndInv, NEW t \in Threads, pc[t] \in PushLocations
  PROVE  Len(queue) + 1 <= Cardinality(Jobs)
<1> DEFINE full == Append(queue, Top(t))
           I == 1 .. Len(queue) + 1
<1>1. Top(t) \in Jobs /\ queue \in Seq(Jobs) /\ Len(queue) \in Nat
  BY TopIsAJob DEF IndInv, TypeOK, PushLocations, EnqueueLocations
<1>2. /\ Len(full) = Len(queue) + 1 /\ full[Len(queue) + 1] = Top(t)
      /\ \A i \in 1 .. Len(queue) : full[i] = queue[i]
      /\ \A i \in I : full[i] \in Jobs
  BY <1>1
<1>3. /\ \A i, k \in 1 .. Len(queue) : queue[i] = queue[k] => i = k
      /\ \A i \in 1 .. Len(queue) : queue[i] # Top(t)
  BY DEF IndInv, EnqueuedInv, PushingInv
<1>4. \A i \in I : i = Len(queue) + 1 \/ i \in 1 .. Len(queue)
  BY <1>1
<1>5. \A i, k \in I : full[i] = full[k] => i = k
  BY <1>2, <1>3, <1>4
<1> DEFINE place == [i \in I |-> full[i]]
<1>6. place \in Injection(I, Jobs)
  <2>1. place \in [I -> Jobs]
    BY <1>2
  <2>2. \A i, k \in I : place[i] = place[k] => i = k
    BY <1>5
  <2>3. QED
    BY <2>1, <2>2 DEF Injection, IsInjective
<1>7. IsFiniteSet(I) /\ Cardinality(I) = Len(queue) + 1
  BY <1>1, FS_Interval
<1>8. QED
  BY <1>6, <1>7, JobsAssumption, FS_Injection

(* assert(false) of Enqueue (JobScheduler.cpp:150) fails only in one way:  *)
(* since this thread read m_Head others have pushed, and two jobs have     *)
(* been popped.  It never fails because the queue is full, as a scheduler  *)
(* has no more jobs than m_QueuedJobs has room for.                        *)
RefusedOnlyIfOvertaken ==
  asserted' # asserted =>
    \E t \in Threads : pc[t] = "pushTry" /\ popped >= oldHead[t] + 2

THEOREM AssertionMeansOvertaken ==
  ASSUME Cardinality(Jobs) <= MaxJobCount
  PROVE  Spec => [][RefusedOnlyIfOvertaken]_vars
<1>1. Init => OldHeadInv
  BY ThreadsAssumption DEF Init, OldHeadInv, Threads
<1>2. IndInv /\ OldHeadInv /\ [Next]_vars => OldHeadInv'
  BY OldHeadStep
<1>3. IndInv /\ OldHeadInv /\ [Next]_vars => [RefusedOnlyIfOvertaken]_vars
  <2> SUFFICES ASSUME IndInv, OldHeadInv, [Next]_vars, asserted' # asserted
               PROVE  \E t \in Threads : pc[t] = "pushTry" /\ popped >= oldHead[t] + 2
    BY DEF RefusedOnlyIfOvertaken
  <2>1. PICK t \in Threads : PushRefused(t)
    BY DEF Next, EnqueueStep, WorkerStep, MainStep, AddDependency, StartEnqueue, TestPending,
           ClaimEnqueue, PushLoad, PushAppend, PushRetry, VisitChild, NotifyAndReturn, Loop,
           LockWork, PollAborted, PollTakes, PollEmpty, Sleep, SpuriousWakeup, FinishCallback,
           ReleaseDependent, Complete, RecycleSlot, LockWait, WaitDone, WaitNotDone, WaitSleep,
           SpuriousWait, Abort, AbortNotify, Join, Terminated, vars
  <2>2. pc[t] = "pushTry" /\ ~PushInRange(t)
    BY <2>1 DEF PushRefused, At
  <2>3. /\ Len(queue) + 1 <= Cardinality(Jobs) /\ Cardinality(Jobs) \in Nat
        /\ Len(queue) \in Nat /\ popped \in Nat /\ oldHead[t] \in Nat
        /\ oldHead[t] <= popped + Len(queue)
    BY <2>2, RoomForOneMore, JobsAssumption, FS_CardinalityType
       DEF OldHeadInv, PushLocations, IndInv, TypeOK
  <2>4. popped >= oldHead[t] + 2
    BY <2>2, <2>3, MaxJobCountAssumption DEF PushInRange, PushDiff
  <2>5. QED
    BY <2>2, <2>4
<1>4. QED
  BY <1>1, <1>2, <1>3, IndInvHolds, PTL DEF Spec
============================================================================
