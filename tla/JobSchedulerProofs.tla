------------------------- MODULE JobSchedulerProofs ------------------------
(***************************************************************************)
(* What holds of JobScheduler for any number of threads and any graph of   *)
(* jobs that the main thread may build.                                    *)
(***************************************************************************)
EXTENDS JobScheduler, FiniteSetTheorems, SequenceTheorems, TLAPS

(* A job has finitely many unreleased dependencies; none if its counter is *)
(* zero or less.                                                           *)
LEMMA UnreleasedIsFinite ==
  ASSUME TypeOK, NEW k \in Jobs
  PROVE  /\ IsFiniteSet(Unreleased(k))
         /\ Cardinality(Unreleased(k)) \in Nat
         /\ Cardinality(Unreleased(k)) <= 0 => Unreleased(k) = {}
<1>1. Unreleased(k) \subseteq Jobs
  BY DEF TypeOK, Unreleased
<1>2. IsFiniteSet(Unreleased(k))
  BY <1>1, JobsAssumption, FS_Subset
<1>3. QED
  BY <1>2, FS_CardinalityType, FS_EmptySet

LEMMA ReadyHasNoUnreleased ==
  ASSUME TypeOK, PendingInv, NEW k \in Jobs, pending[k] <= 0
  PROVE  Unreleased(k) = {}
BY UnreleasedIsFinite DEF PendingInv

(* Inside Enqueue there is a job on top of the stack. *)
LEMMA TopIsAJob ==
  ASSUME TypeOK, FramesInv, NEW t \in Threads, pc[t] \in EnqueueLocations
  PROVE  /\ frames[t] \in Seq(Frames) /\ frames[t] # << >>
         /\ Top(t) \in Jobs /\ frames[t][1] \in Frames
         /\ Len(frames[t]) \in Nat \ {0}
<1>1. frames[t] \in Seq(Frames) /\ frames[t] # << >>
  BY DEF TypeOK, FramesInv
<1>2. Len(frames[t]) \in Nat \ {0} /\ frames[t][1] \in Frames
  BY <1>1
<1>3. QED
  BY <1>1, <1>2 DEF Top, Frames

----------------------------------------------------------------------------
(* Locations outside Enqueue and RunJob: moving between them touches no    *)
(* job.                                                                    *)
Quiet == {"loop", "lockWork", "poll", "sleep", "asleep", "exited", "lockWait",
          "waitTest", "waitSleep", "waiting", "abort", "abortNotify", "join",
          "destroyed"}

LEMMA QuietStep ==
  ASSUME IndInv, TypeOK',
         UNCHANGED <<dependsOn, pending, enqueued, completed, queue, frames,
                     current, release, phase>>,
         \A t \in Threads : pc'[t] = pc[t] \/ (pc[t] \in Quiet /\ pc'[t] \in Quiet)
  PROVE  IndInv'
<1> DEFINE Same(L) == \A t \in Threads : pc'[t] \in L <=> pc[t] \in L
<1>1. /\ Same(EnqueueLocations) /\ Same(PushLocations) /\ Same({"enqClaim"})
      /\ Same({"callback"}) /\ Same({"release"}) /\ Same({"recycle"}) /\ Same({"create"})
  BY DEF Quiet, EnqueueLocations, PushLocations
<1>2. FramesInv'
  BY <1>1 DEF IndInv, FramesInv
<1>3. \A w \in Workers : HoldsJob(w)' <=> HoldsJob(w)
  BY <1>1 DEF HoldsJob, Threads
<1>4. HeldJobInv'
  BY <1>1, <1>3 DEF IndInv, HeldJobInv, Threads
<1>5. ReleaseInv'
  BY <1>1 DEF IndInv, ReleaseInv, Threads
<1>6. EnqueuedInv'
  BY DEF IndInv, EnqueuedInv
<1>7. PushingInv'
  BY <1>1 DEF IndInv, PushingInv, Top
<1>8. PendingInv'
  BY DEF IndInv, PendingInv, Unreleased
<1>9. ReadyInv'
  BY <1>1 DEF IndInv, ReadyInv, Top
<1>10. CompletedInv'
  BY DEF IndInv, CompletedInv
<1>11. CreateInv'
  BY <1>1 DEF IndInv, CreateInv, Threads
<1>12. QED
  BY <1>2, <1>4, <1>5, <1>6, <1>7, <1>8, <1>9, <1>10, <1>11 DEF IndInv

(* The steps of a pool thread that only look for work. *)
LEMMA IdleStepInv ==
  ASSUME IndInv, NEW w \in Workers,
         \/ Loop(w) \/ LockWork(w) \/ PollAborted(w) \/ PollEmpty(w)
         \/ Sleep(w) \/ SpuriousWakeup(w)
  PROVE  IndInv'
<1>1. /\ UNCHANGED <<dependsOn, pending, enqueued, completed, queue, popped, frames,
                     oldHead, current, release, phase, freeSlots, aborting, waitMutex>>
      /\ \E l \in Quiet \cap WorkerLocations :
           pc[w] \in Quiet /\ pc' = [pc EXCEPT ![w] = l]
      /\ asserted' = asserted
  BY DEF Loop, LockWork, PollAborted, PollEmpty, Sleep, SpuriousWakeup, Goto, At, Quiet,
         WorkerLocations, graph, fifo, locks, work
<1>2. workMutex' \in Workers \cup {Free} /\ spurious' \in 0 .. MaxSpurious
  BY MaxSpuriousAssumption
     DEF IndInv, TypeOK, Loop, LockWork, PollAborted, PollEmpty, Sleep, SpuriousWakeup, locks
<1>3. TypeOK'
  BY <1>1, <1>2, ThreadsAssumption DEF IndInv, TypeOK, Threads
<1>4. QED
  BY <1>1, <1>3, QuietStep DEF IndInv, TypeOK, Threads

(* The steps of Wait and of the destructor. *)
LEMMA MainStepInv ==
  ASSUME IndInv, MainStep \/ SpuriousWait
  PROVE  IndInv'
<1>1. UNCHANGED <<dependsOn, pending, enqueued, completed, queue, popped, frames,
                  oldHead, current, release, phase, freeSlots, workMutex, asserted>>
  BY DEF MainStep, LockWait, WaitDone, WaitNotDone, WaitSleep, SpuriousWait, Abort,
         AbortNotify, Join, graph, fifo, locks, work
<1>2. /\ waitMutex' \in {Main, Free} /\ spurious' \in 0 .. MaxSpurious
      /\ aborting' \in BOOLEAN
  <2>1. CASE SpuriousWait
    BY <2>1, MaxSpuriousAssumption DEF IndInv, TypeOK, SpuriousWait, locks
  <2>2. CASE MainStep
    BY <2>2 DEF IndInv, TypeOK, MainStep, LockWait, WaitDone, WaitNotDone, WaitSleep,
       Abort, AbortNotify, Join, locks
  <2>3. QED
    BY <2>1, <2>2
<1>3. /\ pc' \in [Threads -> WorkerLocations \cup MainLocations]
      /\ \A w \in Workers : pc'[w] \in WorkerLocations
      /\ pc'[Main] \in MainLocations
      /\ \A t \in Threads : pc'[t] = pc[t] \/ (pc[t] \in Quiet /\ pc'[t] \in Quiet)
  <2>1. ASSUME NEW l \in Quiet \cap MainLocations, pc[Main] \in Quiet,
               pc' = [pc EXCEPT ![Main] = l]
        PROVE  <1>3!1 /\ <1>3!2 /\ <1>3!3 /\ <1>3!4
    BY <2>1, ThreadsAssumption DEF IndInv, TypeOK, Threads
  <2>2. CASE AbortNotify
    BY <2>2, ThreadsAssumption DEF IndInv, TypeOK, Threads, AbortNotify, GotoWakingAll, At, Quiet,
       WorkerLocations, MainLocations, EnqueueLocations
  <2>3. CASE LockWait \/ WaitDone \/ WaitNotDone \/ WaitSleep \/ SpuriousWait \/ Abort \/ Join
    <3>1. \E l \in Quiet \cap MainLocations :
            pc[Main] \in Quiet /\ pc' = [pc EXCEPT ![Main] = l]
      BY <2>3 DEF LockWait, WaitDone, WaitNotDone, WaitSleep, SpuriousWait, Abort, Join, Goto, At,
         Quiet, MainLocations
    <3>2. QED
      BY <2>1, <3>1
  <2>4. QED
    BY <2>2, <2>3 DEF MainStep
<1>4. TypeOK'
  BY <1>1, <1>2, <1>3 DEF IndInv, TypeOK
<1>5. QED
  BY <1>1, <1>3, <1>4, QuietStep

----------------------------------------------------------------------------
(* A step of thread t that only moves it inside Enqueue, into it from      *)
(* RunJob or the main thread, or out of it.                                *)
LEMMA EnqueueMove ==
  ASSUME IndInv, TypeOK', NEW t \in Threads,
         UNCHANGED <<dependsOn, pending, enqueued, completed, queue, current,
                     release, phase>>,
         \A u \in Threads : u # t =>
           /\ frames'[u] = frames[u]
           /\ pc'[u] = pc[u] \/ (pc[u] \in Quiet /\ pc'[u] \in Quiet),
         t \in Workers => /\ pc[t] \in {"release"} \cup EnqueueLocations
                         /\ pc'[t] \in {"release"} \cup EnqueueLocations,
         pc'[t] # "create",
         frames'[t] # << >> <=> pc'[t] \in EnqueueLocations,
         pc'[t] \in PushLocations => pc[t] \in PushLocations /\ frames'[t] = frames[t],
         pc'[t] = "enqClaim" => pending[Top(t)'] <= 0
  PROVE  IndInv'
<1> DEFINE Same(L) == \A u \in Threads : u # t => (pc'[u] \in L <=> pc[u] \in L)
<1>1. /\ Same(EnqueueLocations) /\ Same(PushLocations) /\ Same({"enqClaim"})
      /\ Same({"callback"}) /\ Same({"release"}) /\ Same({"recycle"}) /\ Same({"create"})
  BY DEF Quiet, EnqueueLocations, PushLocations
<1>2. FramesInv'
  BY <1>1 DEF IndInv, FramesInv
<1>3. \A w \in Workers : /\ HoldsJob(w)' <=> HoldsJob(w)
                         /\ pc'[w] = "callback" <=> pc[w] = "callback"
  BY <1>1 DEF HoldsJob, Threads, EnqueueLocations
<1>4. HeldJobInv'
  <2>1. \A w \in Workers : current[w] # NoJob <=> HoldsJob(w)'
    BY <1>3 DEF IndInv, HeldJobInv
  <2>2. \A w \in Workers : HoldsJob(w)' =>
          phase[current[w]] = IF pc'[w] = "callback" THEN "running" ELSE "done"
    BY <1>3 DEF IndInv, HeldJobInv
  <2>3. QED
    BY <2>1, <2>2 DEF IndInv, HeldJobInv
<1>5. ReleaseInv'
  BY <1>1 DEF IndInv, ReleaseInv, Threads
<1>6. EnqueuedInv'
  BY DEF IndInv, EnqueuedInv
<1>7. PushingInv'
  <2>1. \A u \in Threads : pc'[u] \in PushLocations =>
          pc[u] \in PushLocations /\ frames'[u] = frames[u]
    BY <1>1
  <2>2. QED
    BY <2>1 DEF IndInv, PushingInv, Top
<1>8. PendingInv'
  BY DEF IndInv, PendingInv, Unreleased
<1>9. ReadyInv'
  BY <1>1 DEF IndInv, ReadyInv, Top
<1>10. CompletedInv'
  BY DEF IndInv, CompletedInv
<1>11. CreateInv'
  BY <1>1 DEF IndInv, CreateInv, Threads
<1>12. QED
  BY <1>2, <1>4, <1>5, <1>6, <1>7, <1>8, <1>9, <1>10, <1>11 DEF IndInv

(* A pool thread inside Enqueue is inside RunJob, so the graph is built.   *)
LEMMA EnqueueLeavesCreate ==
  ASSUME IndInv, NEW t \in Threads,
         pc[t] \in {"callback", "release", "recycle"} \cup EnqueueLocations
  PROVE  pc[Main] # "create"
<1>1. CASE t = Main
  BY <1>1 DEF EnqueueLocations
<1>2. CASE t \in Workers
  <2>1. HoldsJob(t) /\ current[t] \in Jobs
    BY <1>2 DEF IndInv, TypeOK, HeldJobInv, HoldsJob
  <2>2. phase[current[t]] # "idle"
    BY <1>2, <2>1 DEF IndInv, HeldJobInv
  <2>3. QED
    BY <2>1, <2>2 DEF IndInv, EnqueuedInv, CreateInv
<1>3. QED
  BY <1>1, <1>2 DEF Threads

LEMMA FrameType ==
  ASSUME TypeOK, NEW j \in Jobs
  PROVE  Frame(j) \in Frames /\ Frame(j).job = j
BY DEF TypeOK, Frame, Frames

LEMMA StartEnqueueInv ==
  ASSUME IndInv, StartEnqueue
  PROVE  IndInv'
<1>1. /\ UNCHANGED <<dependsOn, pending, enqueued, completed, queue, popped, oldHead,
                     current, release, phase, freeSlots, aborting, workMutex, waitMutex,
                     spurious, asserted>>
      /\ pc' = [pc EXCEPT ![Main] = "enqTest"] /\ pc[Main] = "create"
      /\ frames' = [frames EXCEPT ![Main] = <<Frame(Root)>> \o << >>]
  BY DEF StartEnqueue, CallEnqueue, Goto, At, graph, fifo, locks, work
<1>2. /\ <<Frame(Root)>> \o << >> \in Seq(Frames)
      /\ <<Frame(Root)>> \o << >> # << >>
  BY FrameType, JobsAssumption DEF IndInv
<1>3. /\ frames' \in [Threads -> Seq(Frames)] /\ frames'[Main] # << >>
      /\ \A u \in Threads : u # Main => frames'[u] = frames[u]
  BY <1>1, <1>2 DEF IndInv, TypeOK, Threads
<1>4. /\ pc' \in [Threads -> WorkerLocations \cup MainLocations]
      /\ \A u \in Threads : u # Main => pc'[u] = pc[u]
      /\ pc'[Main] = "enqTest"
  BY <1>1 DEF IndInv, TypeOK, Threads, MainLocations, EnqueueLocations
<1>5. TypeOK'
  BY <1>1, <1>3, <1>4, ThreadsAssumption DEF IndInv, TypeOK, Threads, MainLocations, EnqueueLocations
<1>6. QED
  BY <1>1, <1>3, <1>4, <1>5, ThreadsAssumption, EnqueueMove
     DEF Threads, EnqueueLocations, PushLocations

(* The steps of Enqueue that change neither Enqueued nor the queue.        *)
LEMMA EnqueueLocalStepInv ==
  ASSUME IndInv, NEW t \in Threads,
         TestPending(t) \/ PushLoad(t) \/ PushRetry(t)
  PROVE  IndInv'
<1>1. /\ UNCHANGED <<dependsOn, pending, enqueued, completed, queue, popped, frames,
                     current, release, phase, freeSlots, aborting, workMutex, waitMutex,
                     spurious, asserted>>
      /\ pc[t] \in EnqueueLocations
      /\ \E l \in EnqueueLocations :
           /\ pc' = [pc EXCEPT ![t] = l]
           /\ l = "enqClaim" => pending[Top(t)] <= 0
           /\ l \in PushLocations => pc[t] \in PushLocations
  BY DEF TestPending, PushLoad, PushRetry, Goto, At, graph, fifo, locks, work,
         EnqueueLocations, PushLocations
<1>2. oldHead' \in [Threads -> Nat]
  <2>1. CASE PushLoad(t)
    BY <2>1 DEF IndInv, TypeOK, PushLoad
  <2>2. CASE TestPending(t) \/ PushRetry(t)
    BY <2>2 DEF IndInv, TypeOK, TestPending, PushRetry, fifo
  <2>3. QED
    BY <2>1, <2>2
<1>3. /\ pc' \in [Threads -> WorkerLocations \cup MainLocations]
      /\ \A u \in Threads : u # t => pc'[u] = pc[u]
      /\ pc'[t] \in EnqueueLocations
  BY <1>1 DEF IndInv, TypeOK, WorkerLocations
<1>4. TypeOK'
  BY <1>1, <1>2, <1>3 DEF IndInv, TypeOK, WorkerLocations, MainLocations
<1>5. /\ pc'[t] # "create" /\ Top(t)' = Top(t)
      /\ pc'[t] = "enqClaim" => pending[Top(t)] <= 0
      /\ pc'[t] \in PushLocations => pc[t] \in PushLocations
  BY <1>1 DEF IndInv, TypeOK, EnqueueLocations, Top
<1>6. QED
  BY <1>1, <1>3, <1>4, <1>5, EnqueueMove DEF IndInv, FramesInv

LEMMA VisitChildInv ==
  ASSUME IndInv, NEW t \in Threads, NEW c \in Jobs, VisitChild(t, c)
  PROVE  IndInv'
<1> DEFINE visited == [frames[t] EXCEPT ![1].children = @ \ {c}]
<1>1. /\ UNCHANGED <<dependsOn, pending, enqueued, completed, queue, popped, oldHead,
                     current, release, phase, freeSlots, aborting, workMutex, waitMutex,
                     spurious, asserted>>
      /\ pc[t] = "children"
      /\ \/ /\ frames' = [frames EXCEPT ![t] = visited]
            /\ pc' = pc
         \/ /\ frames' = [frames EXCEPT ![t] = <<Frame(c)>> \o visited]
            /\ pc' = [pc EXCEPT ![t] = "enqTest"]
  BY DEF VisitChild, CallEnqueue, Goto, At, graph, fifo, locks, work
<1>2. /\ frames[t] \in Seq(Frames) /\ frames[t][1] \in Frames
      /\ Len(frames[t]) \in Nat \ {0}
  BY <1>1, TopIsAJob DEF IndInv, EnqueueLocations
<1>3. visited \in Seq(Frames) /\ Len(visited) = Len(frames[t])
  <2>1. [frames[t][1] EXCEPT !.children = @ \ {c}] \in Frames
    BY <1>2 DEF Frames
  <2>2. visited = [frames[t] EXCEPT ![1] = [frames[t][1] EXCEPT !.children = @ \ {c}]]
    BY <1>2
  <2>3. QED
    BY <1>2, <2>1, <2>2
<1>4. visited # << >>
  BY <1>2, <1>3
<1>5. <<Frame(c)>> \o visited \in Seq(Frames) /\ <<Frame(c)>> \o visited # << >>
  BY <1>3, FrameType DEF IndInv
<1>6. /\ frames' \in [Threads -> Seq(Frames)] /\ frames'[t] # << >>
      /\ \A u \in Threads : u # t => frames'[u] = frames[u]
  BY <1>1, <1>3, <1>4, <1>5 DEF IndInv, TypeOK
<1>7. /\ pc' \in [Threads -> WorkerLocations \cup MainLocations]
      /\ \A u \in Threads : u # t => pc'[u] = pc[u]
      /\ pc'[t] \in {"enqTest", "children"}
      /\ \A w \in Workers : pc'[w] \in WorkerLocations
      /\ pc'[Main] \in MainLocations
  BY <1>1 DEF IndInv, TypeOK, WorkerLocations, MainLocations, EnqueueLocations, Threads
<1>8. TypeOK'
  BY <1>1, <1>6, <1>7 DEF IndInv, TypeOK
<1>9. QED
  BY <1>1, <1>6, <1>7, <1>8, EnqueueMove DEF EnqueueLocations, PushLocations

LEMMA NotifyAndReturnInv ==
  ASSUME IndInv, NEW t \in Threads, NotifyAndReturn(t)
  PROVE  IndInv'
<1> DEFINE to == IF Len(frames[t]) > 1 THEN "children"
                 ELSE IF t = Main THEN "lockWait" ELSE "release"
<1>1. /\ UNCHANGED <<dependsOn, pending, enqueued, completed, queue, popped, oldHead,
                     current, release, phase, freeSlots, aborting, workMutex, waitMutex,
                     spurious, asserted>>
      /\ pc[t] = "children"
      /\ frames' = [frames EXCEPT ![t] = Tail(@)]
      /\ \/ pc' = [pc EXCEPT ![t] = to]
         \/ \E w \in Workers : /\ pc[w] = "asleep"
                               /\ pc' = [pc EXCEPT ![t] = to, ![w] = "lockWork"]
  BY DEF NotifyAndReturn, GotoWakingOne, At, graph, fifo, locks, work
<1>2. /\ frames[t] \in Seq(Frames) /\ frames[t] # << >>
      /\ Len(frames[t]) \in Nat \ {0}
  BY <1>1, TopIsAJob DEF IndInv, EnqueueLocations
<1>3. Tail(frames[t]) \in Seq(Frames) /\ Len(Tail(frames[t])) = Len(frames[t]) - 1
  BY <1>2
<1>4. Tail(frames[t]) # << >> <=> Len(frames[t]) > 1
  <2>1. \A s \in Seq(Frames) : s # << >> <=> Len(s) # 0
    BY EmptySeq
  <2>2. Tail(frames[t]) # << >> <=> Len(Tail(frames[t])) # 0
    BY <1>3, <2>1
  <2>3. ASSUME NEW m, NEW n \in Nat \ {0}, m = n - 1
        PROVE  m # 0 <=> n > 1
    BY <2>3
  <2>4. Len(Tail(frames[t])) # 0 <=> Len(frames[t]) > 1
    BY <1>2, <1>3, <2>3, Zenon
  <2>5. QED
    BY <2>2, <2>4, Zenon
<1>5. /\ frames' \in [Threads -> Seq(Frames)] /\ frames'[t] = Tail(frames[t])
      /\ \A u \in Threads : u # t => frames'[u] = frames[u]
  BY <1>1, <1>3 DEF IndInv, TypeOK
<1>6. /\ pc' \in [Threads -> WorkerLocations \cup MainLocations]
      /\ \A w \in Workers : pc'[w] \in WorkerLocations
      /\ pc'[Main] \in MainLocations
      /\ \A u \in Threads : u # t =>
           pc'[u] = pc[u] \/ (pc[u] \in Quiet /\ pc'[u] \in Quiet)
      /\ pc'[t] = to
  <2>1. /\ t = Main => to \in MainLocations
        /\ t # Main => t \in Workers /\ to \in WorkerLocations
    BY DEF Threads, WorkerLocations, MainLocations, EnqueueLocations
  <2>2. CASE pc' = [pc EXCEPT ![t] = to]
    BY <2>1, <2>2, ThreadsAssumption DEF IndInv, TypeOK, Threads
  <2>3. ASSUME NEW w \in Workers, pc[w] = "asleep",
               pc' = [pc EXCEPT ![t] = to, ![w] = "lockWork"]
        PROVE  <1>6!1 /\ <1>6!2 /\ <1>6!3 /\ <1>6!4 /\ <1>6!5
    <3>1. w # t /\ w # Main /\ w \in Threads
      BY <1>1, <2>3, ThreadsAssumption DEF Threads
    <3>2. \A u \in Threads :
            pc'[u] = IF u = w THEN "lockWork" ELSE IF u = t THEN to ELSE pc[u]
      BY <2>3, <3>1 DEF IndInv, TypeOK
    <3>3. pc' \in [Threads -> WorkerLocations \cup MainLocations]
      BY <2>1, <2>3 DEF IndInv, TypeOK, WorkerLocations
    <3>4. pc'[t] = to /\ pc'[w] = "lockWork"
      BY <3>1, <3>2
    <3>5. \A u \in Workers : pc'[u] \in WorkerLocations
      BY <2>1, <3>1, <3>2, ThreadsAssumption DEF IndInv, TypeOK, Threads, WorkerLocations
    <3>6. pc'[Main] \in MainLocations
      BY <2>1, <3>1, <3>2 DEF IndInv, TypeOK, Threads
    <3>7. \A u \in Threads : u # t =>
            pc'[u] = pc[u] \/ (pc[u] \in Quiet /\ pc'[u] \in Quiet)
      BY <2>3, <3>2 DEF Quiet
    <3>8. QED
      BY <3>3, <3>4, <3>5, <3>6, <3>7
  <2>4. QED
    BY <1>1, <2>2, <2>3
<1>7. TypeOK'
  BY <1>1, <1>5, <1>6 DEF IndInv, TypeOK
<1>8. frames'[t] # << >> <=> pc'[t] \in EnqueueLocations
  BY <1>4, <1>5, <1>6 DEF EnqueueLocations
<1>9. QED
  BY <1>1, <1>5, <1>6, <1>7, <1>8, ThreadsAssumption, EnqueueMove
     DEF EnqueueLocations, PushLocations

----------------------------------------------------------------------------
(* The steps that change a job.                                            *)

LEMMA AddDependencyInv ==
  ASSUME IndInv, NEW p \in Jobs, NEW d \in Jobs, AddDependency(p, d)
  PROVE  IndInv'
<1>1. /\ UNCHANGED <<enqueued, completed, queue, popped, oldHead, freeSlots, aborting,
                     workMutex, waitMutex, pc, frames, current, release, phase, spurious,
                     asserted>>
      /\ dependsOn' = [dependsOn EXCEPT ![p] = @ \cup {d}]
      /\ pending' = [pending EXCEPT ![p] = @ + 1]
      /\ d \notin dependsOn[p] /\ pc[Main] = "create"
  BY DEF AddDependency, At, fifo, locks, work
<1>2. \A j \in Jobs : ~enqueued[j] /\ phase[j] = "idle"
  BY <1>1 DEF IndInv, CreateInv, EnqueuedInv
<1>3. \A t \in Threads : pc[t] \notin EnqueueLocations
  BY <1>1, EnqueueLeavesCreate
<1>4. TypeOK'
  BY <1>1 DEF IndInv, TypeOK
<1>5. FramesInv' /\ HeldJobInv' /\ EnqueuedInv' /\ CompletedInv' /\ CreateInv'
  BY <1>1 DEF IndInv, FramesInv, HeldJobInv, HoldsJob, EnqueuedInv, CompletedInv, CreateInv
<1>6. ReleaseInv'
  BY <1>1 DEF IndInv, TypeOK, ReleaseInv
<1>7. PushingInv'
  BY <1>1, <1>3 DEF PushingInv, PushLocations, EnqueueLocations
<1>8. ReadyInv'
  BY <1>1, <1>2, <1>3 DEF ReadyInv, EnqueueLocations
<1>9. PendingInv'
  <2>1. ASSUME NEW k \in Jobs, k # p
        PROVE  pending'[k] = Cardinality(Unreleased(k)')
    BY <1>1, <2>1 DEF IndInv, TypeOK, PendingInv, Unreleased
  <2>2. Unreleased(p)' = Unreleased(p) \cup {d} /\ d \notin Unreleased(p)
    <3>1. dependsOn'[p] = dependsOn[p] \cup {d} /\ phase[d] # "done"
      BY <1>1, <1>2 DEF IndInv, TypeOK
    <3>2. d \notin Unreleased(p)
      BY <1>1 DEF Unreleased
    <3>3. Unreleased(p)' = Unreleased(p) \cup {d}
      BY <1>1, <3>1 DEF Unreleased
    <3>4. QED
      BY <3>2, <3>3
  <2>3. Cardinality(Unreleased(p)') = Cardinality(Unreleased(p)) + 1
    <3>1. IsFiniteSet(Unreleased(p))
      BY UnreleasedIsFinite DEF IndInv
    <3>2. Cardinality(Unreleased(p) \cup {d}) = Cardinality(Unreleased(p)) + 1
      BY <2>2, <3>1, FS_AddElement
    <3>3. QED
      BY <2>2, <3>2
  <2>4. pending'[p] = Cardinality(Unreleased(p)')
    BY <1>1, <2>3 DEF IndInv, TypeOK, PendingInv
  <2>5. QED
    BY <2>1, <2>4 DEF PendingInv
<1>10. QED
  BY <1>4, <1>5, <1>6, <1>7, <1>8, <1>9 DEF IndInv

LEMMA ClaimEnqueueInv ==
  ASSUME IndInv, NEW t \in Threads, ClaimEnqueue(t)
  PROVE  IndInv'
<1>1. /\ UNCHANGED <<dependsOn, pending, completed, queue, popped, oldHead, freeSlots,
                     aborting, workMutex, waitMutex, frames, current, release, phase,
                     spurious, asserted>>
      /\ pc[t] = "enqClaim"
      /\ pc' = [pc EXCEPT ![t] = IF enqueued[Top(t)] THEN "children" ELSE "pushLoad"]
      /\ enqueued' = [enqueued EXCEPT ![Top(t)] = TRUE]
  BY DEF ClaimEnqueue, Goto, At, graph, fifo, locks, work
<1>2. /\ Top(t) \in Jobs /\ pending[Top(t)] <= 0 /\ pc[Main] # "create"
      /\ frames[t] # << >>
  BY <1>1, TopIsAJob, EnqueueLeavesCreate DEF IndInv, ReadyInv, EnqueueLocations
<1>3. /\ \A u \in Threads : u # t => pc'[u] = pc[u]
      /\ pc'[t] \in {"children", "pushLoad"}
      /\ pc'[t] = "pushLoad" <=> ~enqueued[Top(t)]
      /\ \A j \in Jobs : enqueued'[j] <=> enqueued[j] \/ j = Top(t)
      /\ enqueued' \in [Jobs -> BOOLEAN]
  BY <1>1, <1>2 DEF IndInv, TypeOK
<1>4. TypeOK'
  BY <1>1, <1>3 DEF IndInv, TypeOK, WorkerLocations, MainLocations, EnqueueLocations, Threads
<1>5. FramesInv'
  BY <1>1, <1>2, <1>3 DEF IndInv, FramesInv, EnqueueLocations
<1>6. HeldJobInv'
  <2>1. \A w \in Workers : /\ HoldsJob(w)' <=> HoldsJob(w)
                           /\ pc'[w] = "callback" <=> pc[w] = "callback"
    BY <1>1, <1>3 DEF HoldsJob, Threads, EnqueueLocations
  <2>2. QED
    BY <1>1, <2>1 DEF IndInv, HeldJobInv
<1>7. ReleaseInv'
  BY <1>1, <1>3 DEF IndInv, ReleaseInv, Threads, EnqueueLocations
<1>8. EnqueuedInv'
  BY <1>1, <1>3 DEF IndInv, TypeOK, EnqueuedInv
<1>9. PushingInv'
  <2>1. ASSUME NEW u \in Threads, pc'[u] \in PushLocations
        PROVE  /\ enqueued'[Top(u)] /\ phase[Top(u)] = "idle"
               /\ \A i \in 1 .. Len(queue) : queue[i] # Top(u)
    <3>1. CASE u = t
      BY <1>2, <1>3, <2>1, <3>1 DEF IndInv, EnqueuedInv, PushLocations
    <3>2. CASE u # t
      <4>1. pc[u] \in PushLocations
        BY <1>3, <2>1, <3>2
      <4>2. enqueued[Top(u)] /\ Top(u) \in Jobs
        BY <4>1, TopIsAJob DEF IndInv, PushingInv, PushLocations, EnqueueLocations
      <4>3. QED
        BY <1>3, <4>1, <4>2 DEF IndInv, PushingInv
    <3>3. QED
      BY <3>1, <3>2
  <2>2. ASSUME NEW u \in Threads, NEW v \in Threads, pc'[u] \in PushLocations,
               pc'[v] \in PushLocations, Top(u) = Top(v)
        PROVE  u = v
    <3>1. ASSUME NEW x \in Threads, x # t, pc'[x] \in PushLocations
          PROVE  pc[x] \in PushLocations /\ enqueued[Top(x)]
      BY <1>3, <3>1 DEF IndInv, PushingInv
    <3>2. pc'[t] \in PushLocations => ~enqueued[Top(t)]
      BY <1>3 DEF PushLocations
    <3>3. QED
      BY <2>2, <3>1, <3>2 DEF IndInv, PushingInv
  <2>3. QED
    BY <1>1, <2>1, <2>2 DEF PushingInv, Top
<1>10. PendingInv' /\ CompletedInv' /\ CreateInv'
  BY <1>1, <1>2, <1>3 DEF IndInv, PendingInv, Unreleased, CompletedInv, CreateInv, Threads
<1>11. ReadyInv'
  BY <1>1, <1>2, <1>3 DEF IndInv, ReadyInv, Top
<1>12. QED
  BY <1>4, <1>5, <1>6, <1>7, <1>8, <1>9, <1>10, <1>11 DEF IndInv

LEMMA PushAppendInv ==
  ASSUME IndInv, NEW t \in Threads, PushAppend(t)
  PROVE  IndInv'
<1>1. /\ UNCHANGED <<dependsOn, pending, enqueued, completed, popped, freeSlots,
                     aborting, workMutex, waitMutex, frames, current, release, phase,
                     spurious, asserted>>
      /\ pc[t] = "pushTry" /\ pc' = [pc EXCEPT ![t] = "children"]
      /\ queue' = Append(queue, Top(t))
      /\ oldHead' = [oldHead EXCEPT ![t] = 0]
  BY DEF PushAppend, Goto, At, graph, locks, work
<1>2. /\ Top(t) \in Jobs /\ enqueued[Top(t)] /\ phase[Top(t)] = "idle"
      /\ \A i \in 1 .. Len(queue) : queue[i] # Top(t)
      /\ frames[t] # << >>
  BY <1>1, TopIsAJob DEF IndInv, PushingInv, PushLocations, EnqueueLocations
<1>3. /\ queue \in Seq(Jobs) /\ Len(queue) \in Nat
      /\ queue' \in Seq(Jobs) /\ Len(queue') = Len(queue) + 1
      /\ \A i \in 1 .. Len(queue) : queue'[i] = queue[i]
      /\ queue'[Len(queue) + 1] = Top(t)
  BY <1>1, <1>2, AppendProperties DEF IndInv, TypeOK
<1>4. /\ \A u \in Threads : u # t => pc'[u] = pc[u]
      /\ pc'[t] = "children"
  BY <1>1 DEF IndInv, TypeOK
<1>5. TypeOK'
  BY <1>1, <1>3, <1>4 DEF IndInv, TypeOK, WorkerLocations, MainLocations, EnqueueLocations, Threads
<1>6. FramesInv'
  BY <1>1, <1>2, <1>4 DEF IndInv, FramesInv, EnqueueLocations
<1>7. HeldJobInv'
  <2>1. \A w \in Workers : /\ HoldsJob(w)' <=> HoldsJob(w)
                           /\ pc'[w] = "callback" <=> pc[w] = "callback"
    BY <1>1, <1>4 DEF HoldsJob, Threads, EnqueueLocations
  <2>2. QED
    BY <1>1, <2>1 DEF IndInv, HeldJobInv
<1>8. ReleaseInv'
  BY <1>1, <1>4 DEF IndInv, ReleaseInv, Threads, EnqueueLocations
<1>9. EnqueuedInv'
  <2>1. \A i \in 1 .. Len(queue') : i \in 1 .. Len(queue) \/ i = Len(queue) + 1
    BY <1>3
  <2>2. \A i \in 1 .. Len(queue') : enqueued[queue'[i]] /\ phase[queue'[i]] = "idle"
    BY <1>2, <1>3, <2>1 DEF IndInv, EnqueuedInv
  <2>3. \A i, k \in 1 .. Len(queue') : queue'[i] = queue'[k] => i = k
    BY <1>2, <1>3, <2>1 DEF IndInv, EnqueuedInv
  <2>4. QED
    BY <1>1, <2>2, <2>3 DEF IndInv, EnqueuedInv
<1>10. PushingInv'
  <2>1. ASSUME NEW u \in Threads, pc'[u] \in PushLocations
        PROVE  /\ pc[u] \in PushLocations /\ u # t /\ Top(u) # Top(t)
    BY <1>1, <1>4, <2>1 DEF IndInv, PushingInv, PushLocations
  <2>2. ASSUME NEW u \in Threads, pc'[u] \in PushLocations,
               NEW i \in 1 .. Len(queue')
        PROVE  queue'[i] # Top(u)
    <3>1. i \in 1 .. Len(queue) \/ i = Len(queue) + 1
      BY <1>3
    <3>2. QED
      BY <1>3, <2>1, <2>2, <3>1 DEF IndInv, PushingInv
  <2>3. QED
    BY <1>1, <2>1, <2>2 DEF IndInv, PushingInv, Top
<1>11. PendingInv' /\ CompletedInv' /\ CreateInv' /\ ReadyInv'
  BY <1>1, <1>4 DEF IndInv, PendingInv, Unreleased, CompletedInv, CreateInv, ReadyInv, Top, Threads
<1>12. QED
  BY <1>5, <1>6, <1>7, <1>8, <1>9, <1>10, <1>11 DEF IndInv

LEMMA PollTakesInv ==
  ASSUME IndInv, NEW w \in Workers, PollTakes(w)
  PROVE  IndInv'
<1> DEFINE h == Head(queue)
<1>1. /\ UNCHANGED <<dependsOn, pending, enqueued, completed, oldHead, freeSlots,
                     aborting, waitMutex, frames, release, spurious, asserted>>
      /\ pc[w] = "poll" /\ pc' = [pc EXCEPT ![w] = "callback"]
      /\ current' = [current EXCEPT ![w] = h]
      /\ phase' = [phase EXCEPT ![h] = "running"]
      /\ queue # << >> /\ queue' = Tail(queue) /\ popped' = popped + 1
      /\ workMutex' = Free
  BY DEF PollTakes, Goto, At, graph
<1>2. /\ queue \in Seq(Jobs) /\ Len(queue) \in Nat \ {0}
      /\ h = queue[1] /\ h \in Jobs /\ 1 \in 1 .. Len(queue)
      /\ queue' \in Seq(Jobs) /\ Len(queue') = Len(queue) - 1
      /\ \A i \in 1 .. Len(queue') : queue'[i] = queue[i + 1] /\ i + 1 \in 1 .. Len(queue)
  BY <1>1 DEF IndInv, TypeOK
<1>3. /\ enqueued[h] /\ phase[h] = "idle"
      /\ \A t \in Threads : pc[t] \in PushLocations => Top(t) # h
  BY <1>2 DEF IndInv, EnqueuedInv, PushingInv
<1>4. \A i \in 1 .. Len(queue') : queue'[i] # h
  <2>1. \A i \in 1 .. Len(queue) : queue[i] = queue[1] => i = 1
    BY <1>2 DEF IndInv, EnqueuedInv
  <2>2. QED
    BY <1>2, <2>1
<1>5. /\ \A u \in Threads : u # w => pc'[u] = pc[u]
      /\ \A u \in Workers : u # w => current'[u] = current[u]
      /\ \A j \in Jobs : j # h => phase'[j] = phase[j]
      /\ pc'[w] = "callback" /\ current'[w] = h /\ phase'[h] = "running"
      /\ h # NoJob
  BY <1>1, <1>2, JobsAssumption DEF IndInv, TypeOK, Threads
<1>6. \A u \in Workers : current[u] # h
  BY <1>3, <1>5 DEF IndInv, HeldJobInv
<1>7. current[w] = NoJob /\ release[w] = {}
  BY <1>1 DEF IndInv, HeldJobInv, ReleaseInv, HoldsJob, EnqueueLocations
<1>8. TypeOK'
  BY <1>1, <1>2, <1>5 DEF IndInv, TypeOK, WorkerLocations, MainLocations, EnqueueLocations, Threads
<1>9. FramesInv'
  BY <1>1, <1>5 DEF IndInv, FramesInv, EnqueueLocations, Threads
<1>10. HeldJobInv'
  <2>1. ASSUME NEW u \in Workers
        PROVE  /\ current'[u] # NoJob <=> HoldsJob(u)'
               /\ HoldsJob(u)' => phase'[current'[u]] =
                                    IF pc'[u] = "callback" THEN "running" ELSE "done"
    <3>1. CASE u = w
      BY <1>5, <3>1 DEF HoldsJob
    <3>2. CASE u # w
      <4>1. HoldsJob(u)' <=> HoldsJob(u)
        BY <1>5, <3>2 DEF HoldsJob, Threads
      <4>2. current[u] # NoJob => current[u] \in Jobs /\ current[u] # h
        BY <1>6 DEF IndInv, TypeOK
      <4>3. QED
        BY <1>5, <3>2, <4>1, <4>2 DEF IndInv, HeldJobInv, Threads
    <3>3. QED
      BY <3>1, <3>2
  <2>2. \A u, v \in Workers : current'[u] # NoJob /\ current'[v] = current'[u] => v = u
    BY <1>5, <1>6 DEF IndInv, HeldJobInv
  <2>3. QED
    BY <2>1, <2>2 DEF HeldJobInv
<1>11. ReleaseInv'
  BY <1>1, <1>5, <1>7 DEF IndInv, ReleaseInv, Threads
<1>12. EnqueuedInv'
  <2>1. \A j \in Jobs : ~enqueued[j] => phase'[j] = "idle"
    BY <1>3, <1>5 DEF IndInv, EnqueuedInv
  <2>2. \A i \in 1 .. Len(queue') : enqueued[queue'[i]] /\ phase'[queue'[i]] = "idle"
    <3>1. ASSUME NEW i \in 1 .. Len(queue')
          PROVE  /\ queue'[i] = queue[i + 1] /\ queue'[i] \in Jobs /\ queue'[i] # h
                 /\ enqueued[queue[i + 1]] /\ phase[queue[i + 1]] = "idle"
      <4>1. queue'[i] = queue[i + 1] /\ i + 1 \in 1 .. Len(queue)
        BY <1>2
      <4>2. enqueued[queue[i + 1]] /\ phase[queue[i + 1]] = "idle"
        BY <4>1 DEF IndInv, EnqueuedInv
      <4>3. queue'[i] \in Jobs /\ queue'[i] # h
        BY <1>2, <1>4
      <4>4. QED
        BY <4>1, <4>2, <4>3
    <3>2. QED
      BY <1>5, <3>1
  <2>3. \A i, k \in 1 .. Len(queue') : queue'[i] = queue'[k] => i = k
    <3>1. ASSUME NEW i \in 1 .. Len(queue'), NEW k \in 1 .. Len(queue'), queue'[i] = queue'[k]
          PROVE  i = k
      <4>1. /\ queue'[i] = queue[i + 1] /\ i + 1 \in 1 .. Len(queue)
            /\ queue'[k] = queue[k + 1] /\ k + 1 \in 1 .. Len(queue)
        BY <1>2
      <4>2. i + 1 = k + 1
        BY <3>1, <4>1 DEF IndInv, EnqueuedInv
      <4>3. QED
        BY <4>2
    <3>2. QED
      BY <3>1
  <2>4. QED
    BY <1>1, <2>1, <2>2, <2>3 DEF EnqueuedInv
<1>13. PushingInv'
  <2>1. ASSUME NEW u \in Threads, pc'[u] \in PushLocations
        PROVE  pc[u] \in PushLocations /\ Top(u) \in Jobs /\ Top(u) # h
    <3>1. pc[u] \in PushLocations
      BY <1>5, <2>1 DEF PushLocations
    <3>2. QED
      BY <1>3, <3>1, TopIsAJob DEF IndInv, PushLocations, EnqueueLocations
  <2>2. ASSUME NEW u \in Threads, pc'[u] \in PushLocations
        PROVE  /\ enqueued[Top(u)] /\ phase'[Top(u)] = "idle"
               /\ \A i \in 1 .. Len(queue') : queue'[i] # Top(u)
    BY <1>2, <1>5, <2>1, <2>2 DEF IndInv, PushingInv
  <2>3. QED
    BY <1>1, <2>1, <2>2 DEF IndInv, PushingInv, Top
<1>14. PendingInv'
  <2>1. ASSUME NEW k \in Jobs
        PROVE  Unreleased(k)' = Unreleased(k)
    <3>1. \A d \in Jobs : phase'[d] # "done" <=> phase[d] # "done"
      BY <1>3, <1>5
    <3>2. \A d \in Jobs : (\E u \in Workers : current'[u] = d /\ k \in release[u])
                          <=> (\E u \in Workers : current[u] = d /\ k \in release[u])
      BY <1>5, <1>7
    <3>3. dependsOn[k] \subseteq Jobs
      BY DEF IndInv, TypeOK
    <3>4. QED
      BY <1>1, <3>1, <3>2, <3>3 DEF Unreleased
  <2>2. QED
    BY <1>1, <2>1 DEF IndInv, PendingInv
<1>15. ReadyInv' /\ CreateInv'
  BY <1>1, <1>5 DEF IndInv, ReadyInv, CreateInv, Top, Threads
<1>16. CompletedInv'
  BY <1>1, <1>3, <1>5 DEF IndInv, CompletedInv
<1>17. QED
  BY <1>8, <1>9, <1>10, <1>11, <1>12, <1>13, <1>14, <1>15, <1>16 DEF IndInv

LEMMA FinishCallbackInv ==
  ASSUME IndInv, NEW w \in Workers, FinishCallback(w)
  PROVE  IndInv'
<1> DEFINE j == current[w]
<1>1. /\ UNCHANGED <<dependsOn, pending, enqueued, completed, queue, popped, oldHead,
                     freeSlots, aborting, workMutex, waitMutex, frames, current, spurious,
                     asserted>>
      /\ pc[w] = "callback" /\ pc' = [pc EXCEPT ![w] = "release"]
      /\ phase' = [phase EXCEPT ![j] = "done"]
      /\ release' = [release EXCEPT ![w] = Dependents(j)]
  BY DEF FinishCallback, Goto, At, graph, fifo, locks
<1>2. HoldsJob(w) /\ j \in Jobs /\ j # NoJob /\ phase[j] = "running" /\ enqueued[j]
  BY <1>1 DEF IndInv, TypeOK, HeldJobInv, HoldsJob, EnqueuedInv
<1>3. /\ \A u \in Threads : u # w => pc'[u] = pc[u]
      /\ \A u \in Workers : u # w => release'[u] = release[u] /\ current[u] # j
      /\ \A k \in Jobs : k # j => phase'[k] = phase[k]
      /\ pc'[w] = "release" /\ phase'[j] = "done" /\ release'[w] = Dependents(j)
  BY <1>1, <1>2 DEF IndInv, TypeOK, HeldJobInv, Threads
<1>4. TypeOK'
  BY <1>1, <1>2, <1>3
     DEF IndInv, TypeOK, WorkerLocations, MainLocations, EnqueueLocations, Threads, Dependents
<1>5. FramesInv'
  BY <1>1, <1>3 DEF IndInv, FramesInv, EnqueueLocations, Threads
<1>6. HeldJobInv'
  <2>1. \A u \in Workers : HoldsJob(u)' <=> HoldsJob(u)
    BY <1>1, <1>3 DEF HoldsJob, Threads
  <2>2. ASSUME NEW u \in Workers, HoldsJob(u)'
        PROVE  phase'[current[u]] = IF pc'[u] = "callback" THEN "running" ELSE "done"
    <3>1. CASE u = w
      BY <1>3, <3>1
    <3>2. CASE u # w
      <4>1. HoldsJob(u) /\ current[u] \in Jobs /\ current[u] # j
        BY <1>3, <2>1, <2>2, <3>2 DEF IndInv, TypeOK, HeldJobInv
      <4>2. QED
        BY <1>3, <3>2, <4>1 DEF IndInv, HeldJobInv, Threads
    <3>3. QED
      BY <3>1, <3>2
  <2>3. QED
    BY <1>1, <2>1, <2>2 DEF IndInv, HeldJobInv
<1>7. ReleaseInv'
  BY <1>1, <1>3 DEF IndInv, ReleaseInv, Dependents, Threads
<1>8. EnqueuedInv'
  <2>1. \A i \in 1 .. Len(queue) : queue[i] \in Jobs
    BY DEF IndInv, TypeOK
  <2>2. \A i \in 1 .. Len(queue) : enqueued[queue[i]] /\ phase'[queue[i]] = "idle"
    BY <1>2, <1>3, <2>1 DEF IndInv, EnqueuedInv
  <2>3. QED
    BY <1>1, <1>2, <1>3, <2>2 DEF IndInv, EnqueuedInv
<1>9. PushingInv'
  <2>1. ASSUME NEW u \in Threads, pc'[u] \in PushLocations
        PROVE  pc[u] \in PushLocations /\ Top(u) \in Jobs /\ phase'[Top(u)] = "idle"
    <3>1. pc[u] \in PushLocations
      BY <1>3, <2>1 DEF PushLocations
    <3>2. Top(u) \in Jobs /\ phase[Top(u)] = "idle"
      BY <3>1, TopIsAJob DEF IndInv, PushingInv, PushLocations, EnqueueLocations
    <3>3. QED
      BY <1>2, <1>3, <3>1, <3>2
  <2>2. QED
    BY <1>1, <2>1 DEF IndInv, PushingInv, Top
<1>10. PendingInv'
  <2>1. ASSUME NEW k \in Jobs
        PROVE  Unreleased(k)' = Unreleased(k)
    <3>1. dependsOn[k] \subseteq Jobs /\ dependsOn' = dependsOn /\ current' = current
      BY <1>1 DEF IndInv, TypeOK
    <3>2. ASSUME NEW d \in dependsOn[k]
          PROVE  (\/ phase'[d] # "done"
                  \/ \E u \in Workers : current[u] = d /\ k \in release'[u])
                 <=> (\/ phase[d] # "done"
                      \/ \E u \in Workers : current[u] = d /\ k \in release[u])
      <4>1. CASE d = j
        BY <1>2, <1>3, <4>1 DEF Dependents
      <4>2. CASE d # j
        BY <1>3, <3>1, <4>2
      <4>3. QED
        BY <4>1, <4>2
    <3>3. QED
      BY <3>1, <3>2 DEF Unreleased
  <2>2. QED
    BY <1>1, <2>1 DEF IndInv, PendingInv
<1>11. ReadyInv' /\ CreateInv'
  BY <1>1, <1>3 DEF IndInv, ReadyInv, CreateInv, Top, Threads
<1>12. CompletedInv'
  BY <1>1, <1>3 DEF IndInv, CompletedInv
<1>13. QED
  BY <1>4, <1>5, <1>6, <1>7, <1>8, <1>9, <1>10, <1>11, <1>12 DEF IndInv

LEMMA ReleaseDependentInv ==
  ASSUME IndInv, NEW w \in Workers, NEW k \in Jobs, ReleaseDependent(w, k)
  PROVE  IndInv'
<1> DEFINE j == current[w]
<1>1. /\ UNCHANGED <<dependsOn, enqueued, completed, queue, popped, oldHead, freeSlots,
                     aborting, workMutex, waitMutex, current, phase, spurious, asserted>>
      /\ pc[w] = "release" /\ k \in release[w]
      /\ pending' = [pending EXCEPT ![k] = @ - 1]
      /\ release' = [release EXCEPT ![w] = @ \ {k}]
      /\ \/ /\ pc' = [pc EXCEPT ![w] = "enqTest"]
            /\ frames' = [frames EXCEPT ![w] = <<Frame(k)>> \o << >>]
         \/ pc' = pc /\ frames' = frames
  BY DEF ReleaseDependent, CallEnqueue, Goto, At, fifo, locks
<1>2. /\ HoldsJob(w) /\ j \in Jobs /\ j # NoJob /\ phase[j] = "done"
      /\ j \in dependsOn[k] /\ \A u \in Workers : current[u] = j => u = w
      /\ pc[Main] # "create"
  BY <1>1, EnqueueLeavesCreate DEF IndInv, TypeOK, HeldJobInv, HoldsJob, ReleaseInv, Threads
<1>3. <<Frame(k)>> \o << >> \in Seq(Frames) /\ <<Frame(k)>> \o << >> # << >>
  BY FrameType DEF IndInv
<1>4. /\ \A u \in Threads : u # w => pc'[u] = pc[u] /\ frames'[u] = frames[u]
      /\ pc'[w] \in {"release", "enqTest"}
      /\ frames' \in [Threads -> Seq(Frames)]
      /\ frames'[w] # << >> <=> pc'[w] = "enqTest"
      /\ \A u \in Workers : u # w => release'[u] = release[u]
      /\ release'[w] = release[w] \ {k}
  <2>1. frames[w] = << >> /\ w \in Threads
    BY <1>1 DEF IndInv, FramesInv, EnqueueLocations, Threads
  <2>2. /\ pc \in [Threads -> WorkerLocations \cup MainLocations]
        /\ frames \in [Threads -> Seq(Frames)]
        /\ release \in [Workers -> SUBSET Jobs]
    BY DEF IndInv, TypeOK
  <2>3. CASE pc' = [pc EXCEPT ![w] = "enqTest"]
             /\ frames' = [frames EXCEPT ![w] = <<Frame(k)>> \o << >>]
    BY <1>1, <1>3, <2>1, <2>2, <2>3
  <2>4. CASE pc' = pc /\ frames' = frames
    BY <1>1, <2>1, <2>2, <2>4
  <2>5. QED
    BY <1>1, <2>3, <2>4
<1>5. TypeOK'
  <2>1. pending' \in [Jobs -> Int] /\ release' \in [Workers -> SUBSET Jobs]
    BY <1>1 DEF IndInv, TypeOK
  <2>2. /\ pc' \in [Threads -> WorkerLocations \cup MainLocations]
        /\ \A u \in Workers : pc'[u] \in WorkerLocations
        /\ pc'[Main] = pc[Main]
    <3>1. w # Main /\ Main \in Threads /\ Workers \subseteq Threads
      BY ThreadsAssumption DEF Threads
    <3>2. pc'[w] \in WorkerLocations
      BY <1>4 DEF WorkerLocations, EnqueueLocations
    <3>3. /\ pc \in [Threads -> WorkerLocations \cup MainLocations]
          /\ \A u \in Workers : pc[u] \in WorkerLocations
      BY DEF IndInv, TypeOK
    <3>4. \E l : pc' = [pc EXCEPT ![w] = l] \/ pc' = pc
      BY <1>1
    <3>5. QED
      BY <1>4, <3>1, <3>2, <3>3, <3>4
  <2>3. QED
    BY <1>1, <1>4, <2>1, <2>2 DEF IndInv, TypeOK
<1>6. FramesInv'
  BY <1>4 DEF IndInv, FramesInv, EnqueueLocations, Threads
<1>7. HeldJobInv'
  <2>1. \A u \in Workers : /\ HoldsJob(u)' <=> HoldsJob(u)
                           /\ pc'[u] = "callback" <=> pc[u] = "callback"
    BY <1>1, <1>4 DEF HoldsJob, Threads, EnqueueLocations
  <2>2. QED
    BY <1>1, <2>1 DEF IndInv, HeldJobInv
<1>8. ReleaseInv'
  BY <1>1, <1>4 DEF IndInv, ReleaseInv, Threads, EnqueueLocations
<1>9. EnqueuedInv' /\ CompletedInv' /\ CreateInv'
  BY <1>1, <1>2, <1>4 DEF IndInv, EnqueuedInv, CompletedInv, CreateInv, Threads
<1>10. PushingInv'
  <2>1. \A u \in Threads : pc'[u] \in PushLocations =>
          pc[u] \in PushLocations /\ frames'[u] = frames[u]
    BY <1>4 DEF PushLocations
  <2>2. QED
    BY <1>1, <2>1 DEF IndInv, PushingInv, Top
<1>11. PendingInv'
  <2>1. Unreleased(k)' = Unreleased(k) \ {j} /\ j \in Unreleased(k)
    BY <1>1, <1>2, <1>4 DEF Unreleased
  <2>2. IsFiniteSet(Unreleased(k)) /\ Cardinality(Unreleased(k)) \in Nat
    BY UnreleasedIsFinite DEF IndInv
  <2>3. Cardinality(Unreleased(k) \ {j}) = Cardinality(Unreleased(k)) - 1
    BY <2>1, <2>2, FS_RemoveElement
  <2>4. pending'[k] = Cardinality(Unreleased(k)')
    BY <1>1, <2>1, <2>3 DEF IndInv, TypeOK, PendingInv
  <2>5. ASSUME NEW i \in Jobs, i # k
        PROVE  pending'[i] = Cardinality(Unreleased(i)')
    <3>1. \A u \in Workers : i \in release'[u] <=> i \in release[u]
      BY <1>4, <2>5
    <3>2. Unreleased(i)' = Unreleased(i)
      BY <1>1, <3>1 DEF Unreleased
    <3>3. QED
      BY <1>1, <2>5, <3>2 DEF IndInv, TypeOK, PendingInv
  <2>6. QED
    BY <2>4, <2>5 DEF PendingInv
<1>12. ReadyInv'
  <2>1. \A i \in Jobs : pending'[i] <= pending[i] /\ pending'[i] \in Int /\ pending[i] \in Int
    BY <1>1 DEF IndInv, TypeOK
  <2>2. \A i \in Jobs : enqueued'[i] => pending'[i] <= 0
    BY <1>1, <2>1 DEF IndInv, ReadyInv
  <2>3. ASSUME NEW u \in Threads, pc'[u] = "enqClaim"
        PROVE  pending'[Top(u)'] <= 0
    <3>1. u # w /\ pc[u] = "enqClaim" /\ Top(u)' = Top(u)
      BY <1>4, <2>3 DEF Top
    <3>2. Top(u) \in Jobs /\ pending[Top(u)] <= 0
      BY <3>1, TopIsAJob DEF IndInv, ReadyInv, EnqueueLocations
    <3>3. QED
      BY <2>1, <3>1, <3>2
  <2>4. QED
    BY <2>2, <2>3 DEF ReadyInv
<1>13. QED
  BY <1>5, <1>6, <1>7, <1>8, <1>9, <1>10, <1>11, <1>12 DEF IndInv

LEMMA CompleteInv ==
  ASSUME IndInv, NEW w \in Workers, Complete(w)
  PROVE  IndInv'
<1>1. /\ UNCHANGED <<dependsOn, pending, enqueued, queue, popped, oldHead, freeSlots,
                     aborting, workMutex, waitMutex, frames, current, release, phase,
                     spurious, asserted>>
      /\ pc[w] = "release" /\ release[w] = {}
      /\ completed' = [completed EXCEPT ![current[w]] = TRUE]
      /\ pc' = [pc EXCEPT ![w] = "recycle",
                          ![Main] = IF @ = "waiting" THEN "lockWait" ELSE @]
  BY DEF Complete, At, graph, fifo, locks, work
<1>2. /\ current[w] \in Jobs /\ phase[current[w]] = "done" /\ w # Main
  BY <1>1, ThreadsAssumption DEF IndInv, TypeOK, HeldJobInv, HoldsJob
<1>3. \A u \in Threads :
        pc'[u] = IF u = w THEN "recycle"
                 ELSE IF u = Main /\ pc[u] = "waiting" THEN "lockWait" ELSE pc[u]
  BY <1>1, <1>2 DEF IndInv, TypeOK, Threads
<1>4. TypeOK'
  <2>1. /\ pc' \in [Threads -> WorkerLocations \cup MainLocations]
        /\ \A u \in Workers : pc'[u] \in WorkerLocations
        /\ pc'[Main] \in MainLocations
    BY <1>1, <1>2, <1>3, ThreadsAssumption
       DEF IndInv, TypeOK, WorkerLocations, MainLocations, Threads
  <2>2. QED
    BY <1>1, <2>1 DEF IndInv, TypeOK
<1> DEFINE Same(L) == \A u \in Threads : pc'[u] \in L <=> pc[u] \in L
<1>5. ASSUME NEW L,
             "release" \notin L, "recycle" \notin L, "waiting" \notin L, "lockWait" \notin L
      PROVE  Same(L)
  BY <1>1, <1>3, <1>5
<1>51. /\ Same(EnqueueLocations) /\ Same(PushLocations) /\ Same({"enqClaim"})
       /\ Same({"callback"}) /\ Same({"create"})
  BY <1>5 DEF EnqueueLocations, PushLocations
<1>6. FramesInv'
  BY <1>1, <1>51 DEF IndInv, FramesInv
<1>7. HeldJobInv'
  <2>1. ASSUME NEW u \in Workers
        PROVE  HoldsJob(u)' <=> HoldsJob(u)
    <3>1. u \in Threads /\ u # Main
      BY ThreadsAssumption DEF Threads
    <3>2. pc'[u] = IF u = w THEN "recycle" ELSE pc[u]
      BY <1>3, <3>1
    <3>3. QED
      BY <1>1, <3>2 DEF HoldsJob
  <2>2. QED
    BY <1>1, <1>51, <2>1 DEF IndInv, HeldJobInv, Threads
<1>8. ReleaseInv'
  <2>1. ASSUME NEW u \in Workers, release[u] # {}
        PROVE  pc'[u] = pc[u]
    BY <1>1, <1>3, <2>1, ThreadsAssumption DEF Threads
  <2>2. QED
    BY <1>1, <2>1 DEF IndInv, ReleaseInv
<1>9. EnqueuedInv' /\ PendingInv'
  BY <1>1 DEF IndInv, EnqueuedInv, PendingInv, Unreleased
<1>91. CreateInv'
  BY <1>1, <1>51 DEF IndInv, CreateInv, Threads
<1>10. PushingInv'
  <2>1. \A u \in Threads : pc'[u] \in PushLocations => pc[u] \in PushLocations
    BY <1>51
  <2>2. QED
    BY <1>1, <2>1, Zenon DEF IndInv, PushingInv, Top
<1>101. ReadyInv'
  BY <1>1, <1>51 DEF IndInv, ReadyInv, Top
<1>11. CompletedInv'
  BY <1>1, <1>2 DEF IndInv, TypeOK, CompletedInv
<1>12. QED
  BY <1>4, <1>6, <1>7, <1>8, <1>9, <1>91, <1>10, <1>101, <1>11 DEF IndInv

LEMMA RecycleSlotInv ==
  ASSUME IndInv, NEW w \in Workers, RecycleSlot(w)
  PROVE  IndInv'
<1>1. /\ UNCHANGED <<dependsOn, pending, enqueued, completed, queue, popped, oldHead,
                     aborting, workMutex, waitMutex, frames, release, phase, spurious,
                     asserted>>
      /\ pc[w] = "recycle" /\ pc' = [pc EXCEPT ![w] = "loop"]
      /\ freeSlots' = freeSlots \cup {current[w]}
      /\ current' = [current EXCEPT ![w] = NoJob]
  BY DEF RecycleSlot, Goto, At, graph, fifo, locks
<1>2. current[w] \in Jobs /\ release[w] = {}
  <2>1. HoldsJob(w)
    BY <1>1 DEF HoldsJob
  <2>2. current[w] \in Jobs
    BY <2>1 DEF IndInv, TypeOK, HeldJobInv
  <2>3. release[w] = {}
    BY <1>1 DEF IndInv, ReleaseInv, EnqueueLocations
  <2>4. QED
    BY <2>2, <2>3
<1>3. /\ \A u \in Threads : u # w => pc'[u] = pc[u]
      /\ \A u \in Workers : u # w => current'[u] = current[u]
      /\ pc'[w] = "loop" /\ current'[w] = NoJob
  BY <1>1 DEF IndInv, TypeOK, Threads
<1>4. TypeOK'
  <2>1. current' \in [Workers -> Jobs \cup {NoJob}] /\ freeSlots' \subseteq Jobs
    BY <1>1, <1>2 DEF IndInv, TypeOK
  <2>2. /\ pc' \in [Threads -> WorkerLocations \cup MainLocations]
        /\ \A u \in Workers : pc'[u] \in WorkerLocations
        /\ pc'[Main] = pc[Main]
    BY <1>1, <1>3, ThreadsAssumption DEF IndInv, TypeOK, WorkerLocations, Threads
  <2>3. QED
    BY <1>1, <2>1, <2>2 DEF IndInv, TypeOK
<1> DEFINE Same(L) == \A u \in Threads : pc'[u] \in L <=> pc[u] \in L
<1>5. /\ Same(EnqueueLocations) /\ Same(PushLocations) /\ Same({"enqClaim"})
      /\ Same({"callback"}) /\ Same({"release"}) /\ Same({"create"})
  BY <1>1, <1>3 DEF EnqueueLocations, PushLocations
<1>6. FramesInv'
  BY <1>1, <1>5 DEF IndInv, FramesInv
<1>7. HeldJobInv'
  <2>1. ASSUME NEW u \in Workers
        PROVE  /\ current'[u] # NoJob <=> HoldsJob(u)'
               /\ HoldsJob(u)' => phase[current'[u]] =
                                    IF pc'[u] = "callback" THEN "running" ELSE "done"
    <3>1. CASE u = w
      BY <1>3, <3>1 DEF HoldsJob, EnqueueLocations
    <3>2. CASE u # w
      BY <1>3, <3>2 DEF IndInv, HeldJobInv, HoldsJob, Threads
    <3>3. QED
      BY <3>1, <3>2
  <2>2. \A u, v \in Workers : current'[u] # NoJob /\ current'[v] = current'[u] => v = u
    BY <1>3 DEF IndInv, HeldJobInv
  <2>3. QED
    BY <1>1, <2>1, <2>2 DEF HeldJobInv
<1>8. ReleaseInv'
  BY <1>1, <1>2, <1>3, <1>5 DEF IndInv, ReleaseInv, Threads
<1>9. EnqueuedInv' /\ CompletedInv' /\ CreateInv'
  BY <1>1, <1>5 DEF IndInv, EnqueuedInv, CompletedInv, CreateInv, Threads
<1>10. PushingInv' /\ ReadyInv'
  BY <1>1, <1>5 DEF IndInv, PushingInv, ReadyInv, Top
<1>11. PendingInv'
  <2>1. ASSUME NEW k \in Jobs
        PROVE  Unreleased(k)' = Unreleased(k)
    <3>1. \A d \in Jobs : (\E u \in Workers : current'[u] = d /\ k \in release[u])
                          <=> (\E u \in Workers : current[u] = d /\ k \in release[u])
      BY <1>2, <1>3
    <3>2. dependsOn[k] \subseteq Jobs
      BY DEF IndInv, TypeOK
    <3>3. QED
      BY <1>1, <3>1, <3>2 DEF Unreleased
  <2>2. QED
    BY <1>1, <2>1 DEF IndInv, PendingInv
<1>12. QED
  BY <1>4, <1>6, <1>7, <1>8, <1>9, <1>10, <1>11 DEF IndInv

----------------------------------------------------------------------------
THEOREM IndInvHolds == Spec => []IndInv
<1>1. Init => IndInv
  <2>1. SUFFICES ASSUME Init PROVE IndInv
    OBVIOUS
  <2>2. TypeOK
    <3>1. /\ pc \in [Threads -> WorkerLocations \cup MainLocations]
          /\ \A w \in Workers : pc[w] \in WorkerLocations
          /\ pc[Main] \in MainLocations
      BY <2>1, ThreadsAssumption DEF Init, WorkerLocations, MainLocations, Threads
    <3>2. queue \in Seq(Jobs) /\ frames \in [Threads -> Seq(Frames)]
      BY <2>1 DEF Init
    <3>3. /\ dependsOn \in [Jobs -> SUBSET Jobs] /\ pending \in [Jobs -> Int]
          /\ enqueued \in [Jobs -> BOOLEAN] /\ completed \in [Jobs -> BOOLEAN]
          /\ phase \in [Jobs -> {"idle", "running", "done"}]
      BY <2>1 DEF Init
    <3>4. /\ oldHead \in [Threads -> Nat] /\ current \in [Workers -> Jobs \cup {NoJob}]
          /\ release \in [Workers -> SUBSET Jobs] /\ freeSlots \subseteq Jobs
      BY <2>1 DEF Init
    <3>5. /\ popped \in Nat /\ workMutex \in Workers \cup {Free}
          /\ waitMutex \in {Main, Free} /\ spurious \in 0 .. MaxSpurious
      BY <2>1, MaxSpuriousAssumption DEF Init
    <3>6. aborting \in BOOLEAN /\ asserted \in BOOLEAN
      BY <2>1, Zenon DEF Init
    <3>7. QED
      BY <3>1, <3>2, <3>3, <3>4, <3>5, <3>6 DEF TypeOK
  <2>3. \A t \in Threads : pc[t] \notin EnqueueLocations /\ frames[t] = << >>
    BY <2>1 DEF Init, EnqueueLocations
  <2>4. \A w \in Workers : pc[w] = "loop" /\ current[w] = NoJob /\ release[w] = {}
    BY <2>1, ThreadsAssumption DEF Init, Threads
  <2>5. FramesInv /\ HeldJobInv /\ ReleaseInv
    BY <2>3, <2>4 DEF FramesInv, HeldJobInv, HoldsJob, ReleaseInv, EnqueueLocations
  <2>6. EnqueuedInv /\ CompletedInv /\ CreateInv
    BY <2>1 DEF Init, EnqueuedInv, CompletedInv, CreateInv
  <2>7. PushingInv /\ ReadyInv
    BY <2>1, <2>3 DEF Init, PushingInv, ReadyInv, PushLocations, EnqueueLocations
  <2>8. PendingInv
    <3>1. \A k \in Jobs : Unreleased(k) = {} /\ pending[k] = 0
      BY <2>1 DEF Init, Unreleased
    <3>2. QED
      BY <3>1, FS_EmptySet DEF PendingInv
  <2>9. QED
    BY <2>2, <2>5, <2>6, <2>7, <2>8 DEF IndInv
<1>2. IndInv /\ [Next]_vars => IndInv'
  <2>1. SUFFICES ASSUME IndInv, [Next]_vars PROVE IndInv'
    OBVIOUS
  <2>2. CASE UNCHANGED vars
    <3>1. UNCHANGED <<dependsOn, pending, enqueued, completed, queue, frames, current,
                      release, phase, pc>>
      BY <2>2 DEF vars
    <3>2. TypeOK'
      BY <2>1, <2>2 DEF vars, IndInv, TypeOK
    <3>3. QED
      BY <2>1, <3>1, <3>2, QuietStep
  <2>3. ASSUME NEW t \in Threads, EnqueueStep(t)
        PROVE  IndInv'
    <3>1. CASE PushRefused(t)
      <4>1. UNCHANGED <<dependsOn, pending, enqueued, completed, queue, frames, current,
                        release, phase, pc>>
        BY <3>1 DEF PushRefused, graph, fifo, work
      <4>2. TypeOK'
        BY <2>1, <3>1 DEF PushRefused, graph, fifo, work, locks, IndInv, TypeOK
      <4>3. QED
        BY <2>1, <4>1, <4>2, QuietStep
    <3>2. QED
      BY <2>1, <2>3, <3>1, EnqueueLocalStepInv, ClaimEnqueueInv, PushAppendInv,
         VisitChildInv, NotifyAndReturnInv DEF EnqueueStep
  <2>4. ASSUME NEW w \in Workers, WorkerStep(w) \/ SpuriousWakeup(w)
        PROVE  IndInv'
    BY <2>1, <2>4, IdleStepInv, PollTakesInv, FinishCallbackInv, ReleaseDependentInv,
       CompleteInv, RecycleSlotInv DEF WorkerStep
  <2>5. QED
    BY <2>1, <2>2, <2>3, <2>4, AddDependencyInv, StartEnqueueInv, MainStepInv
       DEF Next, Terminated
<1>3. QED
  BY <1>1, <1>2, PTL DEF Spec

(* Every variable of the scheduler keeps its type. *)
THEOREM TypeCorrect == Spec => []TypeOK
BY IndInvHolds, PTL DEF IndInv

(* A callback that has started finds the callbacks of all its dependencies *)
(* returned, whatever the graph, the number of threads and their order.    *)
THEOREM JobsRunInOrder == Spec => []DependencyOrder
<1>1. IndInv => DependencyOrder
  <2>1. SUFFICES ASSUME IndInv, NEW j \in Jobs, phase[j] # "idle", NEW d \in dependsOn[j]
                 PROVE  phase[d] = "done"
    BY DEF DependencyOrder
  <2>2. Unreleased(j) = {}
    BY <2>1, ReadyHasNoUnreleased DEF IndInv, EnqueuedInv, ReadyInv
  <2>3. QED
    BY <2>1, <2>2 DEF Unreleased
<1>2. QED
  BY <1>1, IndInvHolds, PTL

----------------------------------------------------------------------------
(* The main thread has returned from Wait. *)
Returned == pc[Main] \in {"abort", "abortNotify", "join", "destroyed"}

LEMMA StartsAJob ==
  ASSUME IndInv, NEW w \in Workers, PollTakes(w)
  PROVE  \E j \in Jobs : Abstract!Start(j)
<1>1. Head(queue) \in Jobs /\ 1 \in 1 .. Len(queue) /\ Head(queue) = queue[1]
  BY DEF IndInv, TypeOK, PollTakes
<1>2. phase[Head(queue)] = "idle" /\ enqueued[Head(queue)]
  BY <1>1 DEF IndInv, EnqueuedInv
<1>3. Unreleased(Head(queue)) = {}
  BY <1>1, <1>2, ReadyHasNoUnreleased DEF IndInv, ReadyInv
<1>4. Returned' <=> Returned
  BY ThreadsAssumption DEF PollTakes, Goto, Returned, IndInv, TypeOK, Threads
<1>5. Abstract!Start(Head(queue))
  BY <1>2, <1>3, <1>4 DEF Abstract!Start, PollTakes, graph, Unreleased, Returned
<1>6. QED
  BY <1>1, <1>5

LEMMA FinishesAJob ==
  ASSUME IndInv, NEW w \in Workers, FinishCallback(w)
  PROVE  \E j \in Jobs : Abstract!Finish(j)
<1>1. HoldsJob(w) /\ pc[w] = "callback"
  BY DEF FinishCallback, Goto, At, HoldsJob
<1>2. current[w] \in Jobs /\ phase[current[w]] = "running"
  BY <1>1 DEF IndInv, TypeOK, HeldJobInv
<1>3. Returned' <=> Returned
  BY ThreadsAssumption DEF FinishCallback, Goto, Returned, IndInv, TypeOK, Threads
<1>4. Abstract!Finish(current[w])
  BY <1>2, <1>3 DEF Abstract!Finish, FinishCallback, graph, Returned
<1>5. QED
  BY <1>2, <1>4

LEMMA DependsBeforeAnythingRuns ==
  ASSUME IndInv, NEW p \in Jobs, NEW d \in Jobs, AddDependency(p, d)
  PROVE  Abstract!Depend(p, d)
<1>1. \A j \in Jobs : phase[j] = "idle"
  BY DEF IndInv, CreateInv, EnqueuedInv, AddDependency, At
<1>2. QED
  BY <1>1 DEF Abstract!Depend, AddDependency, work

LEMMA ReturnsWhenTheRootHasRun ==
  ASSUME IndInv, WaitDone
  PROVE  Abstract!Return
<1>1. phase[Root] = "done"
  BY JobsAssumption DEF IndInv, CompletedInv, WaitDone
<1>2. ~Returned /\ Returned'
  BY DEF WaitDone, Goto, At, Returned, IndInv, TypeOK, Threads
<1>3. QED
  BY <1>1, <1>2 DEF Abstract!Return, WaitDone, graph, work, Returned

LEMMA EnqueueIsInvisible ==
  ASSUME IndInv, NEW t \in Threads, EnqueueStep(t)
  PROVE  UNCHANGED Abstract!graphVars
<1>1. dependsOn' = dependsOn /\ phase' = phase
  BY DEF EnqueueStep, TestPending, ClaimEnqueue, PushLoad, PushAppend, PushRetry, PushRefused,
         VisitChild, NotifyAndReturn, graph, work
<1>2. Returned' <=> Returned
  <2>1. CASE TestPending(t) \/ ClaimEnqueue(t) \/ PushLoad(t) \/ PushAppend(t) \/ PushRetry(t)
    BY <2>1 DEF TestPending, ClaimEnqueue, PushLoad, PushAppend, PushRetry, Goto, At,
                Returned, IndInv, TypeOK, Threads
  <2>2. CASE PushRefused(t)
    BY <2>2 DEF PushRefused, Returned
  <2>3. ASSUME NEW c \in Jobs, VisitChild(t, c)
        PROVE  Returned' <=> Returned
    <3>1. pc' = pc \/ (pc[t] = "children" /\ pc' = [pc EXCEPT ![t] = "enqTest"])
      BY <2>3 DEF VisitChild, CallEnqueue, Goto, At
    <3>2. QED
      BY <3>1 DEF Returned, IndInv, TypeOK, Threads
  <2>4. CASE NotifyAndReturn(t)
    <3>1. pc[t] = "children"
      BY <2>4 DEF NotifyAndReturn, GotoWakingOne, At
    <3>2. PICK l \in {"children", "lockWait", "release"} :
            \/ pc' = [pc EXCEPT ![t] = l]
            \/ \E w \in Workers : pc[w] = "asleep" /\ pc' = [pc EXCEPT ![t] = l, ![w] = "lockWork"]
      BY <2>4 DEF NotifyAndReturn, GotoWakingOne
    <3>3. QED
      BY <3>1, <3>2, ThreadsAssumption DEF Returned, IndInv, TypeOK, Threads
  <2>5. QED
    BY <2>1, <2>2, <2>3, <2>4 DEF EnqueueStep
<1>3. QED
  BY <1>1, <1>2 DEF Abstract!graphVars, Returned

LEMMA LookingForWorkIsInvisible ==
  ASSUME IndInv, NEW w \in Workers,
         \/ Loop(w) \/ LockWork(w) \/ PollAborted(w) \/ PollEmpty(w) \/ Sleep(w)
         \/ SpuriousWakeup(w) \/ Complete(w) \/ RecycleSlot(w)
         \/ \E k \in Jobs : ReleaseDependent(w, k)
  PROVE  UNCHANGED Abstract!graphVars
<1>1. dependsOn' = dependsOn /\ phase' = phase
  BY DEF Loop, LockWork, PollAborted, PollEmpty, Sleep, SpuriousWakeup, Complete, RecycleSlot,
         ReleaseDependent, graph, work
<1>2. w # Main /\ w \in Threads /\ Main \in Threads
  BY ThreadsAssumption DEF Threads
<1>3. Returned' <=> Returned
  <2>1. CASE Complete(w)
    BY <1>2, <2>1 DEF Complete, Returned, IndInv, TypeOK
  <2>2. ASSUME NEW k \in Jobs, ReleaseDependent(w, k)
        PROVE  Returned' <=> Returned
    <3>1. pc' = pc \/ pc' = [pc EXCEPT ![w] = "enqTest"]
      BY <2>2 DEF ReleaseDependent, CallEnqueue, Goto
    <3>2. QED
      BY <1>2, <3>1 DEF Returned, IndInv, TypeOK
  <2>3. CASE \/ Loop(w) \/ LockWork(w) \/ PollAborted(w) \/ PollEmpty(w) \/ Sleep(w)
             \/ SpuriousWakeup(w) \/ RecycleSlot(w)
    <3>1. \E l : pc' = [pc EXCEPT ![w] = l]
      BY <2>3 DEF Loop, LockWork, PollAborted, PollEmpty, Sleep, SpuriousWakeup, RecycleSlot, Goto
    <3>2. QED
      BY <1>2, <3>1 DEF Returned, IndInv, TypeOK
  <2>4. QED
    BY <2>1, <2>2, <2>3
<1>4. QED
  BY <1>1, <1>3 DEF Abstract!graphVars, Returned

LEMMA WaitingIsInvisible ==
  ASSUME IndInv,
         \/ StartEnqueue \/ LockWait \/ WaitNotDone \/ WaitSleep \/ SpuriousWait
         \/ Abort \/ AbortNotify \/ Join
  PROVE  UNCHANGED Abstract!graphVars
<1>1. dependsOn' = dependsOn /\ phase' = phase
  BY DEF StartEnqueue, LockWait, WaitNotDone, WaitSleep, SpuriousWait, Abort, AbortNotify, Join,
         graph, work
<1>2. Returned' <=> Returned
  <2>1. pc \in [Threads -> WorkerLocations \cup MainLocations] /\ Main \in Threads
    BY DEF IndInv, TypeOK, Threads
  <2>2. CASE AbortNotify
    BY <2>1, <2>2 DEF AbortNotify, GotoWakingAll, At, Returned
  <2>3. CASE StartEnqueue \/ LockWait \/ WaitNotDone \/ WaitSleep \/ SpuriousWait \/ Abort \/ Join
    BY <2>1, <2>3 DEF StartEnqueue, LockWait, WaitNotDone, WaitSleep, SpuriousWait, Abort, Join,
       CallEnqueue, Goto, At, Returned
  <2>4. QED
    BY <2>2, <2>3
<1>3. QED
  BY <1>1, <1>2 DEF Abstract!graphVars, Returned

(* The scheduler implements the task graph: each job runs once, after what *)
(* it depends on, and Wait returns only when the root has run.             *)
THEOREM ImplementsGraph == Spec => ImplementsTaskGraph
<1>1. Init => Abstract!GraphInit
  BY DEF Init, Abstract!GraphInit, Threads
<1>2. IndInv /\ [Next]_vars => [Abstract!GraphNext]_Abstract!graphVars
  <2>1. SUFFICES ASSUME IndInv, [Next]_vars
                 PROVE  [Abstract!GraphNext]_Abstract!graphVars
    OBVIOUS
  <2>2. CASE UNCHANGED vars
    BY <2>2 DEF vars, Abstract!graphVars
  <2>3. CASE Terminated
    BY <2>3 DEF Terminated, vars, Abstract!graphVars
  <2>4. ASSUME NEW p \in Jobs, NEW d \in Jobs, AddDependency(p, d)
        PROVE  Abstract!GraphNext
    BY <2>1, <2>4, DependsBeforeAnythingRuns DEF Abstract!GraphNext
  <2>5. ASSUME NEW w \in Workers, WorkerStep(w) \/ SpuriousWakeup(w)
        PROVE  [Abstract!GraphNext]_Abstract!graphVars
    <3>1. CASE PollTakes(w)
      BY <2>1, <3>1, StartsAJob DEF Abstract!GraphNext
    <3>2. CASE FinishCallback(w)
      BY <2>1, <3>2, FinishesAJob DEF Abstract!GraphNext
    <3>3. QED
      BY <2>1, <2>5, <3>1, <3>2, LookingForWorkIsInvisible DEF WorkerStep
  <2>6. CASE WaitDone
    BY <2>1, <2>6, ReturnsWhenTheRootHasRun DEF Abstract!GraphNext
  <2>7. CASE \/ StartEnqueue \/ LockWait \/ WaitNotDone \/ WaitSleep \/ SpuriousWait
             \/ Abort \/ AbortNotify \/ Join
    BY <2>1, <2>7, WaitingIsInvisible
  <2>8. QED
    BY <2>1, <2>2, <2>3, <2>4, <2>5, <2>6, <2>7, EnqueueIsInvisible DEF Next, MainStep
<1>3. QED
  BY <1>1, <1>2, IndInvHolds, PTL DEF Spec, ImplementsTaskGraph, Abstract!GraphSpec
----------------------------------------------------------------------------
(* No notification is lost.                                                *)

Sleeping == {w \in Workers : pc[w] \in {"sleep", "asleep"}}
Awake == {w \in Workers : pc[w] \in {"lockWork", "poll"}}

(* The threads that have a notification to give for the job they enqueued. *)
Owing == {t \in Threads : pc[t] = "children" /\ pending[Top(t)] <= 0}

(* While a thread sleeps, each job in the queue has a thread of its own    *)
(* that will look at the queue, or that will wake one.                     *)
NotifyInv ==
  Sleeping # {} => Len(queue) <= Cardinality(Awake) + Cardinality(Owing)

(* Whoever looks at the queue holds the mutex until it takes a job or      *)
(* sleeps.                                                                 *)
PollInv == \A w \in Workers : pc[w] \in {"poll", "sleep"} => workMutex = w

(* An Enqueue goes on to what its job depends on. *)
ChildrenInv ==
  \A t \in Threads : \A i \in 1 .. Len(frames[t]) :
    frames[t][i].children \subseteq dependsOn[frames[t][i].job]

(* The graph is built from Edges, every job under another but for the      *)
(* root, and the scheduler is destroyed when the root has been waited for. *)
BuiltInv ==
  /\ \A p \in Jobs : \A d \in dependsOn[p] : <<p, d>> \in Edges
  /\ pc[Main] # "create" => \A j \in Jobs \ {Root} : Dependents(j) # {}
  /\ aborting => Returned
  /\ Returned => completed[Root]

(* No set of jobs has an edge into each of them from within. *)
AcyclicEdges ==
  \A S \in SUBSET Jobs : (\A j \in S : \E p \in S : <<p, j>> \in Edges) => S = {}

LEMMA BuiltStep ==
  ASSUME IndInv, BuiltInv, [Next]_vars
  PROVE  BuiltInv'
<1>1. /\ pc \in [Threads -> WorkerLocations \cup MainLocations] /\ Main \in Threads
      /\ Workers \subseteq Threads /\ Main \notin Workers /\ Root \in Jobs
      /\ completed \in [Jobs -> BOOLEAN] /\ dependsOn \in [Jobs -> SUBSET Jobs]
  BY ThreadsAssumption, JobsAssumption DEF IndInv, TypeOK, Threads
<1>2. ASSUME NEW p \in Jobs, NEW d \in Jobs, AddDependency(p, d) PROVE BuiltInv'
  BY <1>1, <1>2 DEF AddDependency, At, BuiltInv, Returned
<1>3. CASE StartEnqueue
  <2>1. /\ pc'[Main] = "enqTest" /\ pc[Main] = "create"
        /\ UNCHANGED << dependsOn, aborting, completed >>
        /\ \A j \in Jobs \ {Root} : Dependents(j) # {}
    BY <1>1, <1>3 DEF StartEnqueue, CallEnqueue, Goto, At, graph
  <2>2. QED
    BY <2>1 DEF BuiltInv, Returned, Dependents
<1>4. ASSUME UNCHANGED << dependsOn, aborting >>, completed[Root] => completed'[Root],
             \/ pc'[Main] = pc[Main]
             \/ /\ pc[Main] # "create" /\ ~ Returned
                /\ pc'[Main] # "create" /\ ~ Returned'
      PROVE  BuiltInv'
  BY <1>4 DEF BuiltInv, Returned, Dependents
<1>5. ASSUME NEW t \in Threads, EnqueueStep(t) PROVE BuiltInv'
  <2>1. UNCHANGED << dependsOn, aborting, completed >>
    BY <1>5 DEF EnqueueStep, TestPending, ClaimEnqueue, PushLoad, PushAppend, PushRetry,
                PushRefused, VisitChild, NotifyAndReturn, graph
  <2>2. \/ pc'[Main] = pc[Main]
        \/ pc[Main] \in EnqueueLocations /\ pc'[Main] \in EnqueueLocations \cup {"lockWait"}
    <3>1. CASE NotifyAndReturn(t)
      BY <1>1, <3>1 DEF NotifyAndReturn, GotoWakingOne, At, EnqueueLocations
    <3>2. CASE ~ NotifyAndReturn(t)
      BY <1>1, <1>5, <3>2
         DEF EnqueueStep, TestPending, ClaimEnqueue, PushLoad, PushAppend, PushRetry, PushRefused,
             VisitChild, CallEnqueue, Goto, At, EnqueueLocations
    <3>3. QED
      BY <3>1, <3>2
  <2>3. QED
    BY <1>4, <2>1, <2>2 DEF EnqueueLocations, Returned
<1>6. ASSUME NEW w \in Workers, WorkerStep(w) \/ SpuriousWakeup(w) PROVE BuiltInv'
  <2>1. UNCHANGED << dependsOn, aborting >> /\ (completed[Root] => completed'[Root])
    BY <1>1, <1>6 DEF WorkerStep, SpuriousWakeup, Loop, LockWork, PollAborted, PollTakes,
                      PollEmpty, Sleep, FinishCallback, ReleaseDependent, Complete,
                      RecycleSlot, graph
  <2>2. \/ pc'[Main] = pc[Main]
        \/ pc[Main] = "waiting" /\ pc'[Main] = "lockWait"
    <3>1. CASE Complete(w)
      BY <1>1, <1>6, <3>1 DEF Complete, At
    <3>2. CASE \E k \in Jobs : ReleaseDependent(w, k)
      BY <1>1, <1>6, <3>2 DEF ReleaseDependent, CallEnqueue, Goto
    <3>3. CASE \/ Loop(w) \/ LockWork(w) \/ PollAborted(w) \/ PollTakes(w) \/ PollEmpty(w)
               \/ Sleep(w) \/ FinishCallback(w) \/ RecycleSlot(w) \/ SpuriousWakeup(w)
      BY <1>1, <1>6, <3>3 DEF Loop, LockWork, PollAborted, PollTakes, PollEmpty, Sleep,
                        FinishCallback, RecycleSlot, SpuriousWakeup, Goto
    <3>4. QED
      BY <1>6, <3>1, <3>2, <3>3 DEF WorkerStep
  <2>3. QED
    BY <1>4, <2>1, <2>2 DEF Returned
<1>7. CASE MainStep \/ SpuriousWait
  <2>1. UNCHANGED << dependsOn, completed >>
    BY <1>7 DEF MainStep, SpuriousWait, LockWait, WaitDone, WaitNotDone, WaitSleep, Abort,
                AbortNotify, Join, graph
  <2>2. /\ pc[Main] # "create" /\ pc'[Main] # "create"
        /\ Returned => Returned'
        /\ Returned' => Returned \/ completed[Root]
        /\ aborting' => aborting \/ Returned'
    BY <1>1, <1>7 DEF MainStep, SpuriousWait, LockWait, WaitDone, WaitNotDone, WaitSleep, Abort,
                      AbortNotify, Join, Goto, GotoWakingAll, At, Returned
  <2>3. QED
    BY <2>1, <2>2 DEF BuiltInv, Dependents
<1>8. CASE UNCHANGED vars
  BY <1>8 DEF vars, BuiltInv, Returned, Dependents
<1>9. QED
  BY <1>2, <1>3, <1>5, <1>6, <1>7, <1>8 DEF Next, Terminated

(* When the root has run, so has everything, and nothing is queued. *)
LEMMA NothingQueuedAtTheEnd ==
  ASSUME IndInv, BuiltInv, AcyclicEdges, aborting
  PROVE  queue = << >>
<1> DEFINE Left == {j \in Jobs : phase[j] # "done"}
<1>1. phase[Root] = "done" /\ pc[Main] # "create"
  BY JobsAssumption DEF BuiltInv, IndInv, CompletedInv, Returned
<1>2. \A j \in Jobs : phase[j] = "done" => \A d \in dependsOn[j] : phase[d] = "done"
  <2> SUFFICES ASSUME NEW j \in Jobs, phase[j] = "done", NEW d \in dependsOn[j]
               PROVE  phase[d] = "done"
    OBVIOUS
  <2>1. Unreleased(j) = {}
    BY ReadyHasNoUnreleased DEF IndInv, EnqueuedInv, ReadyInv
  <2>2. QED
    BY <2>1 DEF Unreleased
<1>3. \A j \in Left : \E p \in Left : <<p, j>> \in Edges
  <2> TAKE j \in Left
  <2>1. Dependents(j) # {}
    BY <1>1 DEF BuiltInv
  <2>2. PICK p \in Jobs : j \in dependsOn[p]
    BY <2>1 DEF Dependents
  <2>3. p \in Left /\ <<p, j>> \in Edges
    BY <1>2, <2>2 DEF BuiltInv
  <2>4. QED
    BY <2>3
<1>4. Left = {}
  <2>1. Left \in SUBSET Jobs
    OBVIOUS
  <2>2. QED
    BY <1>3, <2>1 DEF AcyclicEdges
<1>5. queue \in Seq(Jobs) /\ \A i \in 1 .. Len(queue) : phase[queue[i]] = "idle"
  BY DEF IndInv, TypeOK, EnqueuedInv
<1>6. \A i \in 1 .. Len(queue) : FALSE
  BY <1>4, <1>5
<1>7. QED
  BY <1>5, <1>6
LEMMA PollStep ==
  ASSUME IndInv, PollInv, [Next]_vars
  PROVE  PollInv'
<1>1. /\ pc \in [Threads -> WorkerLocations \cup MainLocations] /\ Main \in Threads
      /\ Workers \subseteq Threads /\ Main \notin Workers /\ Free \notin Workers
  BY ThreadsAssumption DEF IndInv, TypeOK, Threads
<1>2. ASSUME workMutex' = workMutex,
             \A w \in Workers : pc'[w] \in {"poll", "sleep"} => pc[w] \in {"poll", "sleep"}
      PROVE  PollInv'
  BY <1>2 DEF PollInv
<1>3. ASSUME NEW t \in Threads, EnqueueStep(t) PROVE PollInv'
  <2>1. CASE NotifyAndReturn(t)
    BY <1>1, <1>2, <2>1 DEF NotifyAndReturn, GotoWakingOne, At, locks
  <2>2. CASE TestPending(t) \/ ClaimEnqueue(t) \/ PushLoad(t) \/ PushAppend(t)
             \/ PushRetry(t) \/ PushRefused(t) \/ \E c \in Jobs : VisitChild(t, c)
    BY <1>1, <1>2, <2>2 DEF TestPending, ClaimEnqueue, PushLoad, PushAppend, PushRetry,
                            PushRefused, VisitChild, CallEnqueue, Goto, At, locks
  <2>3. QED
    BY <1>3, <2>1, <2>2 DEF EnqueueStep
<1>4. ASSUME NEW w \in Workers, LockWork(w) PROVE PollInv'
  <2>1. \A u \in Workers : u # w => pc'[u] = pc[u]
    BY <1>1, <1>4 DEF LockWork, Goto
  <2>2. workMutex = Free /\ workMutex' = w
    BY <1>4 DEF LockWork
  <2>3. QED
    BY <1>1, <2>1, <2>2 DEF PollInv
<1>5. ASSUME NEW w \in Workers, PollAborted(w) \/ PollTakes(w) \/ Sleep(w) PROVE PollInv'
  <2>1. /\ pc[w] \in {"poll", "sleep"} /\ pc'[w] \notin {"poll", "sleep"}
        /\ \A u \in Workers : u # w => pc'[u] = pc[u]
    BY <1>1, <1>5 DEF PollAborted, PollTakes, Sleep, Goto, At
  <2>2. QED
    BY <2>1 DEF PollInv
<1>6. ASSUME NEW w \in Workers,
             \/ Loop(w) \/ PollEmpty(w) \/ FinishCallback(w) \/ RecycleSlot(w)
             \/ SpuriousWakeup(w) \/ Complete(w) \/ \E k \in Jobs : ReleaseDependent(w, k)
      PROVE  PollInv'
  <2>1. CASE Complete(w)
    BY <1>1, <1>2, <2>1 DEF Complete, At, locks
  <2>2. CASE \E k \in Jobs : ReleaseDependent(w, k)
    BY <1>1, <1>2, <2>2 DEF ReleaseDependent, CallEnqueue, Goto, locks
  <2>3. CASE Loop(w) \/ PollEmpty(w) \/ FinishCallback(w) \/ RecycleSlot(w) \/ SpuriousWakeup(w)
    BY <1>1, <1>2, <2>3 DEF Loop, PollEmpty, FinishCallback, RecycleSlot, SpuriousWakeup, Goto,
                            At, locks
  <2>4. QED
    BY <1>6, <2>1, <2>2, <2>3
<1>7. CASE MainStep \/ SpuriousWait \/ StartEnqueue \/ \E p, d \in Jobs : AddDependency(p, d)
  BY <1>1, <1>2, <1>7 DEF MainStep, SpuriousWait, LockWait, WaitDone, WaitNotDone, WaitSleep,
                          Abort, AbortNotify, Join, StartEnqueue, AddDependency, CallEnqueue,
                          Goto, GotoWakingAll, At, locks
<1>8. CASE UNCHANGED vars
  BY <1>2, <1>8 DEF vars, locks
<1>9. QED
  BY <1>3, <1>4, <1>5, <1>6, <1>7, <1>8 DEF Next, WorkerStep, Terminated

LEMMA ChildrenStep ==
  ASSUME IndInv, ChildrenInv, [Next]_vars
  PROVE  ChildrenInv'
<1> DEFINE Fits(f) == f.children \subseteq dependsOn[f.job]
           AllFit(s) == \A i \in 1 .. Len(s) : Fits(s[i])
<1>1. /\ frames \in [Threads -> Seq(Frames)] /\ dependsOn \in [Jobs -> SUBSET Jobs]
      /\ Main \in Threads /\ Workers \subseteq Threads /\ Root \in Jobs
      /\ \A t \in Threads : AllFit(frames[t])
  BY JobsAssumption DEF IndInv, TypeOK, Threads, ChildrenInv
<1>2. \A j \in Jobs : Frame(j) \in Frames /\ Fits(Frame(j))
  BY <1>1 DEF Frame, Frames
<1>3. \A s \in Seq(Frames) : AllFit(s) /\ s # << >> => AllFit(Tail(s))
  OBVIOUS
<1>4. ASSUME NEW j \in Jobs, NEW s \in Seq(Frames), AllFit(s) PROVE AllFit(<<Frame(j)>> \o s)
  <2> DEFINE h == <<Frame(j)>>
  <2>1. h \in Seq(Frames) /\ Len(h) = 1 /\ h[1] = Frame(j)
    BY <1>2
  <2>2. \A i \in 1 .. Len(h \o s) : (h \o s)[i] = IF i <= 1 THEN h[i] ELSE s[i - 1]
    BY <2>1, ConcatProperties
  <2>3. Len(h \o s) = 1 + Len(s) /\ Len(s) \in Nat
    BY <2>1, ConcatProperties
  <2>4. QED
    BY <1>2, <1>4, <2>1, <2>2, <2>3
<1>5. ASSUME dependsOn' = dependsOn, NEW t \in Threads,
             \A u \in Threads : u # t => frames'[u] = frames[u],
             AllFit(frames'[t])
      PROVE  ChildrenInv'
  BY <1>1, <1>5 DEF ChildrenInv
<1>6. ASSUME UNCHANGED << dependsOn, frames >> PROVE ChildrenInv'
  BY <1>6 DEF ChildrenInv
<1>7. ASSUME NEW p \in Jobs, NEW d \in Jobs, AddDependency(p, d) PROVE ChildrenInv'
  BY <1>1, <1>7 DEF AddDependency, ChildrenInv
<1>8. CASE StartEnqueue
  <2>1. frames' = [frames EXCEPT ![Main] = <<Frame(Root)>> \o << >>] /\ dependsOn' = dependsOn
    BY <1>8 DEF StartEnqueue, CallEnqueue, graph
  <2>2. AllFit(<<Frame(Root)>> \o << >>)
    <3>1. << >> \in Seq(Frames) /\ AllFit(<< >>)
      OBVIOUS
    <3>2. QED
      BY <1>1, <1>4, <3>1
  <2>3. QED
    BY <1>1, <1>5, <2>1, <2>2
<1>9. ASSUME NEW t \in Threads, NEW c \in Jobs, VisitChild(t, c) PROVE ChildrenInv'
  <2> DEFINE visited == [frames[t] EXCEPT ![1].children = @ \ {c}]
  <2>1. /\ frames[t] \in Seq(Frames) /\ frames[t] # << >> /\ frames[t][1] \in Frames
        /\ Len(frames[t]) \in Nat \ {0}
    BY <1>9, TopIsAJob DEF VisitChild, At, IndInv, EnqueueLocations
  <2>2. /\ visited \in Seq(Frames) /\ Len(visited) = Len(frames[t])
        /\ visited[1] = [frames[t][1] EXCEPT !.children = @ \ {c}]
        /\ \A i \in 2 .. Len(frames[t]) : visited[i] = frames[t][i]
    BY <2>1 DEF Frames
  <2>3. visited[1].job = frames[t][1].job /\ visited[1].children \subseteq frames[t][1].children
    BY <2>1, <2>2 DEF Frames
  <2>4. AllFit(visited)
    BY <1>1, <2>1, <2>2, <2>3
  <2>5. /\ dependsOn' = dependsOn
        /\ \/ frames' = [frames EXCEPT ![t] = visited]
           \/ frames' = [frames EXCEPT ![t] = <<Frame(c)>> \o visited]
    BY <1>9 DEF VisitChild, CallEnqueue, graph
  <2>6. AllFit(<<Frame(c)>> \o visited)
    BY <1>4, <2>2, <2>4
  <2>7. QED
    BY <1>1, <1>5, <2>4, <2>5, <2>6
<1>10. ASSUME NEW t \in Threads, NotifyAndReturn(t) PROVE ChildrenInv'
  <2>1. /\ frames[t] # << >> /\ dependsOn' = dependsOn
        /\ frames' = [frames EXCEPT ![t] = Tail(@)]
    BY <1>10 DEF NotifyAndReturn, graph
  <2>2. AllFit(Tail(frames[t]))
    BY <1>1, <1>3, <2>1
  <2>3. QED
    BY <1>1, <1>5, <2>1, <2>2
<1>11. ASSUME NEW w \in Workers, NEW k \in Jobs, ReleaseDependent(w, k) PROVE ChildrenInv'
  <2>1. /\ dependsOn' = dependsOn
        /\ \/ frames' = frames
           \/ frames' = [frames EXCEPT ![w] = <<Frame(k)>> \o << >>]
    BY <1>11 DEF ReleaseDependent, CallEnqueue
  <2>2. AllFit(<<Frame(k)>> \o << >>)
    <3>1. << >> \in Seq(Frames) /\ AllFit(<< >>)
      OBVIOUS
    <3>2. QED
      BY <1>4, <3>1
  <2>3. QED
    BY <1>1, <1>5, <1>6, <2>1, <2>2
<1>12. ASSUME NEW t \in Threads,
              \/ TestPending(t) \/ ClaimEnqueue(t) \/ PushLoad(t) \/ PushAppend(t)
              \/ PushRetry(t) \/ PushRefused(t)
       PROVE  ChildrenInv'
  BY <1>6, <1>12 DEF TestPending, ClaimEnqueue, PushLoad, PushAppend, PushRetry, PushRefused, graph
<1>13. ASSUME NEW w \in Workers,
              \/ Loop(w) \/ LockWork(w) \/ PollAborted(w) \/ PollTakes(w) \/ PollEmpty(w)
              \/ Sleep(w) \/ FinishCallback(w) \/ Complete(w) \/ RecycleSlot(w)
              \/ SpuriousWakeup(w)
       PROVE  ChildrenInv'
  BY <1>6, <1>13 DEF Loop, LockWork, PollAborted, PollTakes, PollEmpty, Sleep, FinishCallback,
                     Complete, RecycleSlot, SpuriousWakeup, graph
<1>14. CASE MainStep \/ SpuriousWait
  BY <1>6, <1>14 DEF MainStep, SpuriousWait, LockWait, WaitDone, WaitNotDone, WaitSleep, Abort,
                     AbortNotify, Join, graph
<1>15. CASE UNCHANGED vars
  BY <1>6, <1>15 DEF vars
<1>16. QED
  BY <1>7, <1>8, <1>9, <1>10, <1>11, <1>12, <1>13, <1>14, <1>15
     DEF Next, EnqueueStep, WorkerStep, Terminated

LEMMA CrowdsAreFinite ==
  ASSUME IsFiniteSet(Workers)
  PROVE  /\ IsFiniteSet(Awake) /\ Cardinality(Awake) \in Nat
         /\ IsFiniteSet(Owing) /\ Cardinality(Owing) \in Nat
         /\ IsFiniteSet(Awake') /\ Cardinality(Awake') \in Nat
         /\ IsFiniteSet(Owing') /\ Cardinality(Owing') \in Nat
<1>1. IsFiniteSet(Threads)
  BY FS_AddElement DEF Threads
<1>2. Awake \subseteq Workers /\ Owing \subseteq Threads
  BY DEF Awake, Owing
<1>3. Awake' \subseteq Workers /\ Owing' \subseteq Threads
  BY DEF Awake, Owing
<1>4. QED
  BY <1>1, <1>2, <1>3, FS_Subset, FS_CardinalityType

(* A step after which no more are asleep, and none less awake or owing. *)
LEMMA NoneLost ==
  ASSUME IsFiniteSet(Workers), NotifyInv, Len(queue) \in Nat, queue' = queue,
         Sleeping' # {} => Sleeping # {},
         Awake \subseteq Awake', Owing \subseteq Owing'
  PROVE  NotifyInv'
<1>1. Cardinality(Awake) <= Cardinality(Awake') /\ Cardinality(Owing) <= Cardinality(Owing')
  BY CrowdsAreFinite, FS_Subset
<1>2. QED
  BY <1>1, CrowdsAreFinite DEF NotifyInv
LEMMA NotifyStep ==
  ASSUME IsFiniteSet(Workers), AcyclicEdges, IndInv, PollInv, ChildrenInv, BuiltInv, NotifyInv,
         [Next]_vars
  PROVE  NotifyInv'
<1>1. /\ pc \in [Threads -> WorkerLocations \cup MainLocations] /\ Main \in Threads
      /\ Workers \subseteq Threads /\ Main \notin Workers /\ Free \notin Workers
      /\ pending \in [Jobs -> Int] /\ queue \in Seq(Jobs) /\ Len(queue) \in Nat
      /\ frames \in [Threads -> Seq(Frames)]
  BY ThreadsAssumption DEF IndInv, TypeOK, Threads
<1>2. ASSUME queue' = queue, Sleeping' # {} => Sleeping # {},
             Awake \subseteq Awake', Owing \subseteq Owing'
      PROVE  NotifyInv'
  BY <1>1, <1>2, NoneLost
<1>3. ASSUME queue' = << >> PROVE NotifyInv'
  BY <1>3, CrowdsAreFinite DEF NotifyInv
<1>4. pc[Main] = "create" => queue = << >>
  <2>1. \A i \in 1 .. Len(queue) : queue[i] \in Jobs /\ enqueued[queue[i]]
    BY <1>1 DEF IndInv, EnqueuedInv
  <2>2. pc[Main] = "create" => \A i \in 1 .. Len(queue) : FALSE
    BY <2>1 DEF IndInv, CreateInv
  <2>3. QED
    BY <1>1, <2>2
<1>5. ASSUME NEW p \in Jobs, NEW d \in Jobs, AddDependency(p, d) PROVE NotifyInv'
  BY <1>3, <1>4, <1>5 DEF AddDependency, At, fifo
<1>6. CASE StartEnqueue
  BY <1>3, <1>4, <1>6 DEF StartEnqueue, CallEnqueue, Goto, At, fifo
<1>7. ASSUME NEW t \in Threads, TestPending(t) \/ ClaimEnqueue(t) \/ PushLoad(t) \/ PushRetry(t)
      PROVE  NotifyInv'
  <2>1. /\ pc[t] \in {"enqTest", "enqClaim", "pushLoad", "pushTry"}
        /\ pc'[t] \in EnqueueLocations
        /\ \A u \in Threads : u # t => pc'[u] = pc[u]
        /\ UNCHANGED << queue, pending, frames >>
    BY <1>1, <1>7 DEF TestPending, ClaimEnqueue, PushLoad, PushRetry, Goto, At, EnqueueLocations,
                      graph, fifo
  <2>2. Awake \subseteq Awake' /\ Owing \subseteq Owing' /\ Sleeping' \subseteq Sleeping
    BY <1>1, <2>1 DEF Awake, Owing, Sleeping, EnqueueLocations, Top
  <2>3. QED
    BY <1>2, <2>1, <2>2
<1>8. ASSUME NEW t \in Threads, PushRefused(t) PROVE NotifyInv'
  BY <1>2, <1>8 DEF PushRefused, fifo, graph, Awake, Owing, Sleeping, Top
<1>9. ASSUME NEW t \in Threads, PushAppend(t) PROVE NotifyInv'
  <2>1. /\ pc[t] = "pushTry" /\ pc'[t] = "children"
        /\ \A u \in Threads : u # t => pc'[u] = pc[u]
        /\ queue' = Append(queue, Top(t)) /\ UNCHANGED << pending, frames >>
    BY <1>1, <1>9 DEF PushAppend, Goto, At, graph
  <2>2. Top(t) \in Jobs /\ pending[Top(t)] <= 0
    BY <2>1, TopIsAJob DEF IndInv, PushingInv, ReadyInv, PushLocations, EnqueueLocations
  <2>3. Len(queue') = Len(queue) + 1
    BY <1>1, <2>1, <2>2
  <2>4. Awake' = Awake /\ Owing' = Owing \cup {t} /\ t \notin Owing /\ Sleeping' = Sleeping
    BY <1>1, <2>1, <2>2 DEF Awake, Owing, Sleeping, Top
  <2>5. Cardinality(Owing') = Cardinality(Owing) + 1
    BY <2>4, CrowdsAreFinite, FS_AddElement
  <2>6. QED
    BY <1>1, <2>3, <2>4, <2>5, CrowdsAreFinite DEF NotifyInv
<1>10. ASSUME NEW t \in Threads, NEW c \in Jobs, VisitChild(t, c) PROVE NotifyInv'
  <2>1. /\ pc[t] = "children" /\ c \in frames[t][1].children
        /\ UNCHANGED << queue, pending >>
        /\ \A u \in Threads : u # t => pc'[u] = pc[u] /\ frames'[u] = frames[u]
    BY <1>1, <1>10 DEF VisitChild, CallEnqueue, Goto, At, graph, fifo
  <2>2. CASE enqueued[c]
    <3>1. pc' = pc /\ frames'[t][1].job = frames[t][1].job
      <4>1. frames[t] \in Seq(Frames) /\ frames[t] # << >> /\ frames[t][1] \in Frames
        BY <2>1, TopIsAJob DEF IndInv, EnqueueLocations
      <4>2. /\ pc' = pc
            /\ frames'[t] = [frames[t] EXCEPT ![1].children = @ \ {c}]
        BY <1>1, <1>10, <2>2 DEF VisitChild
      <4>3. 1 \in 1 .. Len(frames[t])
        BY <4>1
      <4>4. QED
        BY <4>1, <4>2, <4>3 DEF Frames
    <3>2. Awake' = Awake /\ Owing' = Owing /\ Sleeping' = Sleeping
      BY <2>1, <3>1 DEF Awake, Owing, Sleeping, Top
    <3>3. QED
      BY <1>2, <2>1, <3>2
  <2>3. CASE ~ enqueued[c]
    <3>1. pc'[t] = "enqTest"
      BY <1>1, <1>10, <2>3 DEF VisitChild, CallEnqueue, Goto
    <3>2. t \notin Owing
      <4>1. Top(t) \in Jobs /\ c \in dependsOn[Top(t)]
        BY <2>1, TopIsAJob DEF IndInv, EnqueueLocations, ChildrenInv, Top
      <4>2. Unreleased(Top(t)) = {} => phase[c] = "done"
        BY <4>1 DEF Unreleased
      <4>3. phase[c] # "done"
        BY <2>3 DEF IndInv, EnqueuedInv
      <4>4. QED
        BY <4>1, <4>2, <4>3, ReadyHasNoUnreleased DEF IndInv, Owing
    <3>3. Awake' = Awake /\ Owing' = Owing /\ Sleeping' = Sleeping
      BY <1>1, <2>1, <3>1, <3>2 DEF Awake, Owing, Sleeping, Top
    <3>4. QED
      BY <1>2, <2>1, <3>3
  <2>4. QED
    BY <2>2, <2>3
<1>11. ASSUME NEW t \in Threads, NotifyAndReturn(t) PROVE NotifyInv'
  <2> DEFINE to == IF Len(frames[t]) > 1 THEN "children"
                   ELSE IF t = Main THEN "lockWait" ELSE "release"
  <2>1. /\ pc[t] = "children" /\ workMutex = Free /\ UNCHANGED << queue, pending >>
        /\ \A u \in Threads : u # t => frames'[u] = frames[u]
    BY <1>1, <1>11 DEF NotifyAndReturn, GotoWakingOne, At, graph, fifo
  <2>2. t \notin Awake /\ t \notin Sleeping
    BY <1>1, <2>1 DEF Awake, Sleeping
  <2>3. CASE Sleeping = {}
    <3>1. ~ \E w \in Workers : pc[w] = "asleep"
      BY <2>3 DEF Sleeping
    <3>2. pc' = [pc EXCEPT ![t] = to]
      BY <1>11, <3>1 DEF NotifyAndReturn, GotoWakingOne
    <3>3. Sleeping' = {}
      BY <1>1, <2>3, <3>2 DEF Sleeping
    <3>4. QED
      BY <3>3 DEF NotifyInv
  <2>4. CASE Sleeping # {}
    <3>1. \E w \in Workers : pc[w] = "asleep"
      BY <1>1, <2>1, <2>4 DEF Sleeping, PollInv
    <3>2. PICK w \in Workers : /\ pc[w] = "asleep"
                               /\ pc' = [pc EXCEPT ![t] = to, ![w] = "lockWork"]
      BY <1>11, <3>1 DEF NotifyAndReturn, GotoWakingOne
    <3>3. w # t /\ w \notin Awake /\ w \notin Owing
      BY <2>1, <3>2 DEF Awake, Owing
    <3>4. /\ pc'[w] = "lockWork" /\ pc'[t] = to
          /\ \A u \in Threads : u # t /\ u # w => pc'[u] = pc[u]
      BY <1>1, <3>2, <3>3
    <3>5. Awake' = Awake \cup {w}
      BY <1>1, <2>2, <3>3, <3>4 DEF Awake
    <3>6. Owing \ {t} \subseteq Owing'
      BY <2>1, <3>3, <3>4 DEF Owing, Top
    <3>7. Cardinality(Awake') = Cardinality(Awake) + 1
      BY <3>3, <3>5, CrowdsAreFinite, FS_AddElement
    <3>8. Cardinality(Owing) <= Cardinality(Owing') + 1
      <4>1. /\ IsFiniteSet(Owing \ {t})
            /\ Cardinality(Owing \ {t}) \in {Cardinality(Owing), Cardinality(Owing) - 1}
        BY CrowdsAreFinite, FS_RemoveElement
      <4>2. Cardinality(Owing \ {t}) <= Cardinality(Owing')
        BY <3>6, CrowdsAreFinite, FS_Subset
      <4>3. QED
        BY <4>1, <4>2, CrowdsAreFinite
    <3>9. QED
      BY <1>1, <2>1, <2>4, <3>7, <3>8, CrowdsAreFinite DEF NotifyInv
  <2>5. QED
    BY <2>3, <2>4
<1>12. ASSUME NEW w \in Workers,
              \/ Loop(w) \/ LockWork(w) \/ Sleep(w) \/ SpuriousWakeup(w)
              \/ FinishCallback(w) \/ RecycleSlot(w)
       PROVE  NotifyInv'
  <2>1. /\ UNCHANGED << queue, pending, frames >>
        /\ \A u \in Threads : u # w => pc'[u] = pc[u]
        /\ <<pc[w], pc'[w]>> \in {<<"loop", "exited">>, <<"loop", "lockWork">>,
             <<"lockWork", "poll">>, <<"sleep", "asleep">>, <<"asleep", "lockWork">>,
             <<"callback", "release">>, <<"recycle", "loop">>}
    BY <1>1, <1>12 DEF Loop, LockWork, Sleep, SpuriousWakeup, FinishCallback, RecycleSlot, Goto,
                       At, graph, fifo
  <2>2. Awake \subseteq Awake' /\ Owing \subseteq Owing' /\ Sleeping' \subseteq Sleeping
    BY <1>1, <2>1 DEF Awake, Owing, Sleeping, Top
  <2>3. QED
    BY <1>2, <2>1, <2>2
<1>13. ASSUME NEW w \in Workers, Complete(w) PROVE NotifyInv'
  <2>1. /\ UNCHANGED << queue, pending, frames >>
        /\ pc[w] = "release" /\ pc'[w] = "recycle"
        /\ \A u \in Workers : u # w => pc'[u] = pc[u]
        /\ pc'[Main] = pc[Main] \/ pc[Main] = "waiting"
    BY <1>1, <1>13 DEF Complete, At, graph, fifo
  <2>2. Awake \subseteq Awake' /\ Owing \subseteq Owing' /\ Sleeping' \subseteq Sleeping
    BY <1>1, <2>1 DEF Awake, Owing, Sleeping, Top, Threads
  <2>3. QED
    BY <1>2, <2>1, <2>2
<1>14. ASSUME NEW w \in Workers, NEW k \in Jobs, ReleaseDependent(w, k) PROVE NotifyInv'
  <2>1. /\ queue' = queue /\ pending' = [pending EXCEPT ![k] = @ - 1]
        /\ pc[w] = "release" /\ pc'[w] \in {"release", "enqTest"}
        /\ \A u \in Threads : u # w => pc'[u] = pc[u] /\ frames'[u] = frames[u]
    BY <1>1, <1>14 DEF ReleaseDependent, CallEnqueue, Goto, At, fifo
  <2>2. \A t \in Owing : t \in Threads /\ t # w /\ Top(t) \in Jobs
    BY <2>1, TopIsAJob DEF IndInv, Owing, EnqueueLocations
  <2>3. \A j \in Jobs : pending[j] <= 0 => pending'[j] <= 0
    BY <1>1, <2>1
  <2>4. Awake \subseteq Awake' /\ Sleeping' \subseteq Sleeping
    BY <1>1, <2>1 DEF Awake, Sleeping
  <2>5. Owing \subseteq Owing'
    BY <2>1, <2>2, <2>3 DEF Owing, Top
  <2>6. QED
    BY <1>2, <2>1, <2>4, <2>5
<1>15. ASSUME NEW w \in Workers, PollAborted(w) PROVE NotifyInv'
  BY <1>3, <1>15, NothingQueuedAtTheEnd DEF PollAborted, fifo
<1>16. ASSUME NEW w \in Workers, PollEmpty(w) PROVE NotifyInv'
  BY <1>3, <1>16 DEF PollEmpty, fifo
<1>17. ASSUME NEW w \in Workers, PollTakes(w) PROVE NotifyInv'
  <2>1. /\ pc[w] = "poll" /\ pc'[w] = "callback"
        /\ \A u \in Threads : u # w => pc'[u] = pc[u]
        /\ queue # << >> /\ queue' = Tail(queue) /\ UNCHANGED << pending, frames >>
    BY <1>1, <1>17 DEF PollTakes, Goto, At, graph
  <2>2. Len(queue') = Len(queue) - 1
    BY <1>1, <2>1
  <2>3. w \in Awake /\ Awake' = Awake \ {w} /\ Owing' = Owing /\ Sleeping' = Sleeping
    BY <1>1, <2>1 DEF Awake, Owing, Sleeping, Top
  <2>4. Cardinality(Awake') = Cardinality(Awake) - 1
    BY <2>3, CrowdsAreFinite, FS_RemoveElement
  <2>5. QED
    BY <1>1, <2>2, <2>3, <2>4, CrowdsAreFinite DEF NotifyInv
<1>18. CASE MainStep \/ SpuriousWait
  <2>1. /\ UNCHANGED << queue, pending, frames >>
        /\ pc[Main] # "children" /\ pc'[Main] \notin {"sleep", "asleep"}
        /\ \A u \in Workers :
             pc'[u] = pc[u] \/ (pc[u] = "asleep" /\ pc'[u] = "lockWork")
    BY <1>1, <1>18 DEF MainStep, SpuriousWait, LockWait, WaitDone, WaitNotDone, WaitSleep, Abort,
                       AbortNotify, Join, Goto, GotoWakingAll, At, graph, fifo
  <2>2. Awake \subseteq Awake' /\ Owing \subseteq Owing' /\ Sleeping' \subseteq Sleeping
    BY <1>1, <2>1 DEF Awake, Owing, Sleeping, Top, Threads
  <2>3. QED
    BY <1>2, <2>1, <2>2
<1>19. CASE UNCHANGED vars
  BY <1>2, <1>19 DEF vars, graph, fifo, Awake, Owing, Sleeping, Top
<1>20. QED
  BY <1>5, <1>6, <1>7, <1>8, <1>9, <1>10, <1>11, <1>12, <1>13, <1>14, <1>15, <1>16, <1>17,
     <1>18, <1>19 DEF Next, EnqueueStep, WorkerStep, Terminated

(* No notification is lost, whatever the graph and the number of threads:  *)
(* when nobody is inside Enqueue, a pool thread sleeps only if others are  *)
(* about to look at each job in the queue (JobScheduler.cpp, WaitForJob).  *)
THEOREM NoNotificationIsLost ==
  ASSUME IsFiniteSet(Workers), AcyclicEdges
  PROVE  Spec => []WorkConserving
<1>1. Init => PollInv /\ ChildrenInv /\ BuiltInv /\ NotifyInv
  <2> SUFFICES ASSUME Init PROVE PollInv /\ ChildrenInv /\ BuiltInv /\ NotifyInv
    OBVIOUS
  <2>1. /\ pc[Main] = "create" /\ queue = << >> /\ aborting = FALSE
        /\ \A w \in Workers : pc[w] = "loop"
        /\ \A j \in Jobs : dependsOn[j] = {}
        /\ \A t \in Threads : frames[t] = << >>
    BY ThreadsAssumption DEF Init, Threads
  <2>2. QED
    BY <2>1 DEF PollInv, ChildrenInv, BuiltInv, NotifyInv, Sleeping, Returned
<1>2. IndInv /\ PollInv /\ ChildrenInv /\ BuiltInv /\ NotifyInv /\ [Next]_vars
        => PollInv' /\ ChildrenInv' /\ BuiltInv' /\ NotifyInv'
  BY PollStep, ChildrenStep, BuiltStep, NotifyStep
<1>3. IndInv /\ NotifyInv => WorkConserving
  <2> SUFFICES ASSUME IndInv, NotifyInv, \A t \in Threads : frames[t] = << >>, Sleeping # {}
               PROVE  Len(queue) <= Cardinality(Awake)
    BY DEF WorkConserving, Sleeping, Awake
  <2>1. Owing = {}
    BY DEF IndInv, FramesInv, Owing, EnqueueLocations
  <2>2. QED
    BY <2>1, CrowdsAreFinite, FS_EmptySet DEF NotifyInv, IndInv, TypeOK
<1>4. QED
  BY <1>1, <1>2, <1>3, IndInvHolds, PTL DEF Spec
============================================================================
