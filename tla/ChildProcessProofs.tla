------------------------ MODULE ChildProcessProofs ------------------------
(***************************************************************************)
(* What holds of ChildProcess for any number of threads and directories    *)
(* and any size of pipe and output.                                        *)
(***************************************************************************)
EXTENDS ChildProcess, TLAPS

(* Where a thread is tells what has become of its child. *)
ChildInv ==
  \A t \in Threads :
    /\ pc[t] \in {"idle", "pipe", "save", "enter", "spawn"} => child[t].state = "none"
    /\ pc[t] \in {"read", "wait"} => IsRunning(t)
    /\ pc[t] = "code" => child[t].state = "reaped"
    /\ child[t].state = "reaped" => pc[t] = "code"

(* The program holds a write end from pipe() to the end of Open; a child   *)
(* holds its own as long as it runs, and no write end after that.          *)
WritersInv ==
  \A t \in Threads :
    /\ Self \in writers[t] <=> pc[t] \in {"save", "enter", "spawn", "leave", "close"}
    /\ child[t].state = "running" => t \in writers[t]
    /\ \A u \in Threads : u \in writers[t] => child[u].state = "running"

(* No chunk is lost or made up, and one that waits reads none. *)
CountInv ==
  \A t \in Threads :
    /\ child[t].state = "none" => pipe[t] = 0 /\ received[t] = 0
    /\ IsRunning(t) => received[t] + pipe[t] + child[t].left = call[t].output
    /\ child[t].state = "zombie" => child[t].left = 0
    /\ pc[t] = "read" => call[t].mode = "read"
    /\ call[t].mode = "wait" => received[t] = 0

(* Without overlap one thread at a time has the working directory, and     *)
(* puts it back.                                                           *)
DirectoryInv ==
  ~overlapped =>
    /\ \A t, u \in Threads : pc[t] \in Displacing /\ pc[u] \in Displacing => t = u
    /\ (\A t \in Threads : pc[t] \notin Displacing) => cwd = Home
    /\ \A t \in Threads :
         /\ pc[t] \in Displacing => saved[t] = Home
         /\ pc[t] = "enter" => cwd = Home
         /\ pc[t] = "spawn" => cwd = call[t].dir
         /\ child[t].state = "running" => child[t].dir = call[t].dir

IndInv ==
  /\ TypeOK /\ ChildInv /\ WritersInv /\ CountInv /\ DirectoryInv
  /\ OutputIsComplete /\ UnreadOutputBlocks /\ ExitCodeIsAlwaysZero

----------------------------------------------------------------------------
(* The initial state. *)
LEMMA InitIndInv == Init => IndInv
<1> SUFFICES ASSUME Init
             PROVE  IndInv
  OBVIOUS
<1>1. TypeOK
  <2>1. 0 \in 0 .. MaxOutput /\ 0 \in 0 .. PipeSize
    BY SizesAssumption
  <2>2. NoCall \in [mode : Modes, dir : Directories, output : 0 .. MaxOutput]
    BY <2>1 DEF NoCall, Modes, Directories
  <2>3. NoChild \in [state : {"none", "running", "zombie", "reaped"}, dir : Directories,
                     left : 0 .. MaxOutput, status : Statuses]
    BY <2>1 DEF NoChild, Directories, Statuses
  <2>4. QED
    BY <2>1, <2>2, <2>3 DEF Init, TypeOK, Directories, Statuses, Locations
<1>2. ChildInv /\ WritersInv /\ CountInv
  BY DEF Init, ChildInv, WritersInv, CountInv, IsRunning, NoCall, NoChild
<1>3. DirectoryInv
  BY DEF Init, DirectoryInv, Displacing, NoCall, NoChild
<1>4. OutputIsComplete /\ UnreadOutputBlocks /\ ExitCodeIsAlwaysZero
  BY DEF Init, OutputIsComplete, UnreadOutputBlocks, ExitCodeIsAlwaysZero, At
<1>5. QED
  BY <1>1, <1>2, <1>3, <1>4 DEF IndInv

LEMMA BeginStep ==
  ASSUME IndInv, NEW t \in Threads, Begin(t)
  PROVE  IndInv'
<1>1. TypeOK'
  BY SelfAssumption, SizesAssumption DEF IndInv, TypeOK, ChildInv, CountInv,
     IsRunning, Begin, At, locals, Goto, Directories, Modes, Statuses,
     Holders, Locations
<1>2. ChildInv'
  BY <1>1 DEF IndInv, TypeOK, ChildInv, IsRunning, Begin, At, locals, Goto
<1>3. WritersInv'
  BY <1>1, SelfAssumption DEF IndInv, TypeOK, WritersInv, ChildInv, IsRunning,
     Begin, At, locals, Goto
<1>4. CountInv'
  BY <1>1 DEF IndInv, TypeOK, CountInv, ChildInv, IsRunning, Modes, Begin, At,
     locals, Goto
<1>5. DirectoryInv'
  BY <1>1 DEF IndInv, TypeOK, DirectoryInv, ChildInv, IsRunning, Displacing,
     Begin, At, locals, Goto
<1>6. OutputIsComplete'
  BY <1>1 DEF IndInv, TypeOK, OutputIsComplete, ChildInv, CountInv,
     WritersInv, IsRunning, Begin, At, locals, Goto
<1>7. UnreadOutputBlocks' /\ ExitCodeIsAlwaysZero'
  BY <1>1 DEF IndInv, TypeOK, UnreadOutputBlocks, ExitCodeIsAlwaysZero,
     ChildInv, CountInv, IsRunning, Begin, At, locals, Goto
<1>8. QED
  BY <1>1, <1>2, <1>3, <1>4, <1>5, <1>6, <1>7 DEF IndInv

LEMMA CreatePipeStep ==
  ASSUME IndInv, NEW t \in Threads, CreatePipe(t)
  PROVE  IndInv'
<1>1. TypeOK'
  BY SelfAssumption, SizesAssumption DEF IndInv, TypeOK, ChildInv, CountInv,
     IsRunning, CreatePipe, At, locals, Goto, Directories, Modes, Statuses,
     Holders, Locations
<1>2. ChildInv'
  BY <1>1 DEF IndInv, TypeOK, ChildInv, IsRunning, CreatePipe, At, locals,
     Goto
<1>3. WritersInv'
  BY <1>1, SelfAssumption DEF IndInv, TypeOK, WritersInv, ChildInv, IsRunning,
     CreatePipe, At, locals, Goto
<1>4. CountInv'
  BY <1>1 DEF IndInv, TypeOK, CountInv, ChildInv, IsRunning, Modes,
     CreatePipe, At, locals, Goto
<1>5. DirectoryInv'
  BY <1>1 DEF IndInv, TypeOK, DirectoryInv, ChildInv, IsRunning, Displacing,
     CreatePipe, At, locals, Goto
<1>6. OutputIsComplete'
  BY <1>1 DEF IndInv, TypeOK, OutputIsComplete, ChildInv, CountInv,
     WritersInv, IsRunning, CreatePipe, At, locals, Goto
<1>7. UnreadOutputBlocks' /\ ExitCodeIsAlwaysZero'
  BY <1>1 DEF IndInv, TypeOK, UnreadOutputBlocks, ExitCodeIsAlwaysZero,
     ChildInv, CountInv, IsRunning, CreatePipe, At, locals, Goto
<1>8. QED
  BY <1>1, <1>2, <1>3, <1>4, <1>5, <1>6, <1>7 DEF IndInv

LEMMA PipeFailsStep ==
  ASSUME IndInv, NEW t \in Threads, PipeFails(t)
  PROVE  IndInv'
<1>1. TypeOK'
  BY SelfAssumption, SizesAssumption DEF IndInv, TypeOK, ChildInv, CountInv,
     IsRunning, PipeFails, At, locals, Goto, Return, NoCall, NoChild,
     Directories, Modes, Statuses, Holders, Locations
<1>2. ChildInv'
  BY <1>1 DEF IndInv, TypeOK, ChildInv, IsRunning, PipeFails, At, locals,
     Goto, Return, NoCall, NoChild
<1>3. WritersInv'
  BY <1>1, SelfAssumption DEF IndInv, TypeOK, WritersInv, ChildInv, IsRunning,
     PipeFails, At, locals, Goto, Return, NoCall, NoChild
<1>4. CountInv'
  BY <1>1 DEF IndInv, TypeOK, CountInv, ChildInv, IsRunning, Modes, PipeFails,
     At, locals, Goto, Return, NoCall, NoChild
<1>5. DirectoryInv'
  BY <1>1 DEF IndInv, TypeOK, DirectoryInv, ChildInv, IsRunning, Displacing,
     PipeFails, At, locals, Goto, Return, NoCall, NoChild
<1>6. OutputIsComplete'
  BY <1>1 DEF IndInv, TypeOK, OutputIsComplete, ChildInv, CountInv,
     WritersInv, IsRunning, PipeFails, At, locals, Goto, Return, NoCall,
     NoChild
<1>7. UnreadOutputBlocks' /\ ExitCodeIsAlwaysZero'
  BY <1>1 DEF IndInv, TypeOK, UnreadOutputBlocks, ExitCodeIsAlwaysZero,
     ChildInv, CountInv, IsRunning, PipeFails, At, locals, Goto, Return,
     NoCall, NoChild
<1>8. QED
  BY <1>1, <1>2, <1>3, <1>4, <1>5, <1>6, <1>7 DEF IndInv

LEMMA GetWorkingDirectoryStep ==
  ASSUME IndInv, NEW t \in Threads, GetWorkingDirectory(t)
  PROVE  IndInv'
<1>1. TypeOK'
  BY SelfAssumption, SizesAssumption DEF IndInv, TypeOK, ChildInv, CountInv,
     IsRunning, GetWorkingDirectory, At, locals, Goto, Directories, Modes,
     Statuses, Holders, Locations
<1>2. ChildInv'
  BY <1>1 DEF IndInv, TypeOK, ChildInv, IsRunning, GetWorkingDirectory, At,
     locals, Goto
<1>3. WritersInv'
  BY <1>1, SelfAssumption DEF IndInv, TypeOK, WritersInv, ChildInv, IsRunning,
     GetWorkingDirectory, At, locals, Goto
<1>4. CountInv'
  BY <1>1 DEF IndInv, TypeOK, CountInv, ChildInv, IsRunning, Modes,
     GetWorkingDirectory, At, locals, Goto
<1>5. DirectoryInv'
  BY <1>1 DEF IndInv, TypeOK, DirectoryInv, ChildInv, IsRunning, Displacing,
     GetWorkingDirectory, At, locals, Goto
<1>6. OutputIsComplete'
  BY <1>1 DEF IndInv, TypeOK, OutputIsComplete, ChildInv, CountInv,
     WritersInv, IsRunning, GetWorkingDirectory, At, locals, Goto
<1>7. UnreadOutputBlocks' /\ ExitCodeIsAlwaysZero'
  BY <1>1 DEF IndInv, TypeOK, UnreadOutputBlocks, ExitCodeIsAlwaysZero,
     ChildInv, CountInv, IsRunning, GetWorkingDirectory, At, locals, Goto
<1>8. QED
  BY <1>1, <1>2, <1>3, <1>4, <1>5, <1>6, <1>7 DEF IndInv

LEMMA EnterDirectoryStep ==
  ASSUME IndInv, NEW t \in Threads, EnterDirectory(t)
  PROVE  IndInv'
<1>1. TypeOK'
  BY SelfAssumption, SizesAssumption DEF IndInv, TypeOK, ChildInv, CountInv,
     IsRunning, EnterDirectory, At, locals, SetWorkingDirectory, Goto,
     Directories, Modes, Statuses, Holders, Locations
<1>2. ChildInv'
  BY <1>1 DEF IndInv, TypeOK, ChildInv, IsRunning, EnterDirectory, At, locals,
     SetWorkingDirectory, Goto
<1>3. WritersInv'
  BY <1>1, SelfAssumption DEF IndInv, TypeOK, WritersInv, ChildInv, IsRunning,
     EnterDirectory, At, locals, SetWorkingDirectory, Goto
<1>4. CountInv'
  BY <1>1 DEF IndInv, TypeOK, CountInv, ChildInv, IsRunning, Modes,
     EnterDirectory, At, locals, SetWorkingDirectory, Goto
<1>5. DirectoryInv'
  BY <1>1 DEF IndInv, TypeOK, DirectoryInv, ChildInv, IsRunning, Displacing,
     EnterDirectory, At, locals, SetWorkingDirectory, Goto
<1>6. OutputIsComplete'
  BY <1>1 DEF IndInv, TypeOK, OutputIsComplete, ChildInv, CountInv,
     WritersInv, IsRunning, EnterDirectory, At, locals, SetWorkingDirectory,
     Goto
<1>7. UnreadOutputBlocks' /\ ExitCodeIsAlwaysZero'
  BY <1>1 DEF IndInv, TypeOK, UnreadOutputBlocks, ExitCodeIsAlwaysZero,
     ChildInv, CountInv, IsRunning, EnterDirectory, At, locals,
     SetWorkingDirectory, Goto
<1>8. QED
  BY <1>1, <1>2, <1>3, <1>4, <1>5, <1>6, <1>7 DEF IndInv

LEMMA SpawnStep ==
  ASSUME IndInv, NEW t \in Threads, Spawn(t)
  PROVE  IndInv'
<1>1. TypeOK'
  BY SelfAssumption, SizesAssumption DEF IndInv, TypeOK, ChildInv, CountInv,
     IsRunning, Spawn, At, locals, Goto, Inherit, Directories, Modes,
     Statuses, Holders, Locations
<1>2. ChildInv'
  BY <1>1 DEF IndInv, TypeOK, ChildInv, IsRunning, Spawn, At, locals, Goto,
     Inherit
<1>3. WritersInv'
  BY <1>1, SelfAssumption DEF IndInv, TypeOK, WritersInv, ChildInv, IsRunning,
     Spawn, At, locals, Goto, Inherit
<1>4. CountInv'
  BY <1>1 DEF IndInv, TypeOK, CountInv, ChildInv, IsRunning, Modes, Spawn, At,
     locals, Goto, Inherit
<1>5. DirectoryInv'
  BY <1>1 DEF IndInv, TypeOK, DirectoryInv, ChildInv, IsRunning, Displacing,
     Spawn, At, locals, Goto, Inherit
<1>6. OutputIsComplete'
  BY <1>1 DEF IndInv, TypeOK, OutputIsComplete, ChildInv, CountInv,
     WritersInv, IsRunning, Spawn, At, locals, Goto, Inherit
<1>7. UnreadOutputBlocks' /\ ExitCodeIsAlwaysZero'
  BY <1>1 DEF IndInv, TypeOK, UnreadOutputBlocks, ExitCodeIsAlwaysZero,
     ChildInv, CountInv, IsRunning, Spawn, At, locals, Goto, Inherit
<1>8. QED
  BY <1>1, <1>2, <1>3, <1>4, <1>5, <1>6, <1>7 DEF IndInv

LEMMA SpawnFailsStep ==
  ASSUME IndInv, NEW t \in Threads, SpawnFails(t)
  PROVE  IndInv'
<1>1. TypeOK'
  BY SelfAssumption, SizesAssumption DEF IndInv, TypeOK, ChildInv, CountInv,
     IsRunning, SpawnFails, At, locals, Goto, Directories, Modes, Statuses,
     Holders, Locations
<1>2. ChildInv'
  BY <1>1 DEF IndInv, TypeOK, ChildInv, IsRunning, SpawnFails, At, locals,
     Goto
<1>3. WritersInv'
  BY <1>1, SelfAssumption DEF IndInv, TypeOK, WritersInv, ChildInv, IsRunning,
     SpawnFails, At, locals, Goto
<1>4. CountInv'
  BY <1>1 DEF IndInv, TypeOK, CountInv, ChildInv, IsRunning, Modes,
     SpawnFails, At, locals, Goto
<1>5. DirectoryInv'
  BY <1>1 DEF IndInv, TypeOK, DirectoryInv, ChildInv, IsRunning, Displacing,
     SpawnFails, At, locals, Goto
<1>6. OutputIsComplete'
  BY <1>1 DEF IndInv, TypeOK, OutputIsComplete, ChildInv, CountInv,
     WritersInv, IsRunning, SpawnFails, At, locals, Goto
<1>7. UnreadOutputBlocks' /\ ExitCodeIsAlwaysZero'
  BY <1>1 DEF IndInv, TypeOK, UnreadOutputBlocks, ExitCodeIsAlwaysZero,
     ChildInv, CountInv, IsRunning, SpawnFails, At, locals, Goto
<1>8. QED
  BY <1>1, <1>2, <1>3, <1>4, <1>5, <1>6, <1>7 DEF IndInv

LEMMA LeaveDirectoryStep ==
  ASSUME IndInv, NEW t \in Threads, LeaveDirectory(t)
  PROVE  IndInv'
<1>1. TypeOK'
  BY SelfAssumption, SizesAssumption DEF IndInv, TypeOK, ChildInv, CountInv,
     IsRunning, LeaveDirectory, At, locals, SetWorkingDirectory, Goto,
     Directories, Modes, Statuses, Holders, Locations
<1>2. ChildInv'
  BY <1>1 DEF IndInv, TypeOK, ChildInv, IsRunning, LeaveDirectory, At, locals,
     SetWorkingDirectory, Goto
<1>3. WritersInv'
  BY <1>1, SelfAssumption DEF IndInv, TypeOK, WritersInv, ChildInv, IsRunning,
     LeaveDirectory, At, locals, SetWorkingDirectory, Goto
<1>4. CountInv'
  BY <1>1 DEF IndInv, TypeOK, CountInv, ChildInv, IsRunning, Modes,
     LeaveDirectory, At, locals, SetWorkingDirectory, Goto
<1>5. DirectoryInv'
  BY <1>1 DEF IndInv, TypeOK, DirectoryInv, ChildInv, IsRunning, Displacing,
     LeaveDirectory, At, locals, SetWorkingDirectory, Goto
<1>6. OutputIsComplete'
  BY <1>1 DEF IndInv, TypeOK, OutputIsComplete, ChildInv, CountInv,
     WritersInv, IsRunning, LeaveDirectory, At, locals, SetWorkingDirectory,
     Goto
<1>7. UnreadOutputBlocks' /\ ExitCodeIsAlwaysZero'
  BY <1>1 DEF IndInv, TypeOK, UnreadOutputBlocks, ExitCodeIsAlwaysZero,
     ChildInv, CountInv, IsRunning, LeaveDirectory, At, locals,
     SetWorkingDirectory, Goto
<1>8. QED
  BY <1>1, <1>2, <1>3, <1>4, <1>5, <1>6, <1>7 DEF IndInv

LEMMA CloseWriteEndStep ==
  ASSUME IndInv, NEW t \in Threads, CloseWriteEnd(t)
  PROVE  IndInv'
<1>a. call[t].mode \in {"read", "wait"} /\ IsRunning(t) /\ pc[t] = "close"
  BY DEF IndInv, TypeOK, ChildInv, Modes, IsRunning, CloseWriteEnd, At
<1>b. /\ pc' = [pc EXCEPT ![t] = call[t].mode]
      /\ writers' = [writers EXCEPT ![t] = @ \ {Self}]
      /\ UNCHANGED <<cwd, locals, child, pipe, overlapped>>
  BY DEF CloseWriteEnd, Goto
<1>1. TypeOK'
  BY SelfAssumption, SizesAssumption DEF IndInv, TypeOK, ChildInv, CountInv,
     IsRunning, CloseWriteEnd, At, locals, Goto, Directories, Modes, Statuses,
     Holders, Locations
<1>2. ChildInv'
  BY <1>1, <1>a, <1>b DEF IndInv, TypeOK, ChildInv, IsRunning, CloseWriteEnd, At, locals,
     Goto
<1>3. WritersInv'
  BY <1>1, <1>a, <1>b, SelfAssumption DEF IndInv, TypeOK, WritersInv, ChildInv, IsRunning,
     CloseWriteEnd, At, locals, Goto
<1>4. CountInv'
  BY <1>1, <1>a, <1>b DEF IndInv, TypeOK, CountInv, ChildInv, IsRunning, Modes,
     CloseWriteEnd, At, locals, Goto
<1>5. DirectoryInv'
  BY <1>1, <1>a, <1>b DEF IndInv, TypeOK, DirectoryInv, ChildInv, IsRunning, Displacing,
     CloseWriteEnd, At, locals, Goto
<1>6. OutputIsComplete'
  BY <1>1, <1>a, <1>b DEF IndInv, TypeOK, OutputIsComplete, ChildInv, CountInv,
     WritersInv, IsRunning, CloseWriteEnd, At, locals, Goto
<1>7. UnreadOutputBlocks' /\ ExitCodeIsAlwaysZero'
  BY <1>1, <1>a, <1>b DEF IndInv, TypeOK, UnreadOutputBlocks, ExitCodeIsAlwaysZero,
     ChildInv, CountInv, IsRunning, CloseWriteEnd, At, locals, Goto
<1>8. QED
  BY <1>1, <1>2, <1>3, <1>4, <1>5, <1>6, <1>7 DEF IndInv

LEMMA OpenFailsStep ==
  ASSUME IndInv, NEW t \in Threads, OpenFails(t)
  PROVE  IndInv'
<1>1. TypeOK'
  BY SelfAssumption, SizesAssumption DEF IndInv, TypeOK, ChildInv, CountInv,
     IsRunning, OpenFails, At, locals, Goto, Return, NoCall, NoChild,
     Directories, Modes, Statuses, Holders, Locations
<1>2. ChildInv'
  BY <1>1 DEF IndInv, TypeOK, ChildInv, IsRunning, OpenFails, At, locals,
     Goto, Return, NoCall, NoChild
<1>3. WritersInv'
  BY <1>1, SelfAssumption DEF IndInv, TypeOK, WritersInv, ChildInv, IsRunning,
     OpenFails, At, locals, Goto, Return, NoCall, NoChild
<1>4. CountInv'
  BY <1>1 DEF IndInv, TypeOK, CountInv, ChildInv, IsRunning, Modes, OpenFails,
     At, locals, Goto, Return, NoCall, NoChild
<1>5. DirectoryInv'
  BY <1>1 DEF IndInv, TypeOK, DirectoryInv, ChildInv, IsRunning, Displacing,
     OpenFails, At, locals, Goto, Return, NoCall, NoChild
<1>6. OutputIsComplete'
  BY <1>1 DEF IndInv, TypeOK, OutputIsComplete, ChildInv, CountInv,
     WritersInv, IsRunning, OpenFails, At, locals, Goto, Return, NoCall,
     NoChild
<1>7. UnreadOutputBlocks' /\ ExitCodeIsAlwaysZero'
  BY <1>1 DEF IndInv, TypeOK, UnreadOutputBlocks, ExitCodeIsAlwaysZero,
     ChildInv, CountInv, IsRunning, OpenFails, At, locals, Goto, Return,
     NoCall, NoChild
<1>8. QED
  BY <1>1, <1>2, <1>3, <1>4, <1>5, <1>6, <1>7 DEF IndInv

LEMMA ReadChunkStep ==
  ASSUME IndInv, NEW t \in Threads, ReadChunk(t)
  PROVE  IndInv'
<1>a. /\ pipe[t] \in Nat \ {0} /\ received[t] \in Nat /\ IsRunning(t)
      /\ child[t].left \in Nat /\ call[t].output \in Nat /\ call[t].mode = "read"
  BY DEF IndInv, TypeOK, ChildInv, CountInv, IsRunning, ReadChunk, At
<1>b. /\ pipe' = [pipe EXCEPT ![t] = pipe[t] - 1]
      /\ received' = [received EXCEPT ![t] = received[t] + 1]
      /\ UNCHANGED <<pc, call, child>>
  BY DEF ReadChunk
<1>1. TypeOK'
  BY SelfAssumption, SizesAssumption DEF IndInv, TypeOK, ChildInv, CountInv,
     IsRunning, ReadChunk, At, locals, AtEnd, Directories, Modes, Statuses,
     Holders, Locations
<1>2. ChildInv'
  BY <1>1 DEF IndInv, TypeOK, ChildInv, IsRunning, ReadChunk, At, locals,
     AtEnd
<1>3. WritersInv'
  BY <1>1, SelfAssumption DEF IndInv, TypeOK, WritersInv, ChildInv, IsRunning,
     ReadChunk, At, locals, AtEnd
<1>4. CountInv'
  <2> SUFFICES ASSUME NEW u \in Threads
               PROVE  CountInv!(u)'
    BY DEF CountInv
  <2>1. CASE u = t
    BY <1>a, <1>b, <2>1 DEF IndInv, TypeOK, CountInv, IsRunning
  <2>2. CASE u # t
    BY <1>b, <2>2 DEF IndInv, TypeOK, CountInv, IsRunning
  <2>3. QED
    BY <2>1, <2>2
<1>5. DirectoryInv'
  BY <1>1 DEF IndInv, TypeOK, DirectoryInv, ChildInv, IsRunning, Displacing,
     ReadChunk, At, locals, AtEnd
<1>6. OutputIsComplete'
  BY <1>1 DEF IndInv, TypeOK, OutputIsComplete, ChildInv, CountInv,
     WritersInv, IsRunning, ReadChunk, At, locals, AtEnd
<1>7. UnreadOutputBlocks' /\ ExitCodeIsAlwaysZero'
  BY <1>1 DEF IndInv, TypeOK, UnreadOutputBlocks, ExitCodeIsAlwaysZero,
     ChildInv, CountInv, IsRunning, ReadChunk, At, locals, AtEnd
<1>8. QED
  BY <1>1, <1>2, <1>3, <1>4, <1>5, <1>6, <1>7 DEF IndInv

LEMMA ReadEndsStep ==
  ASSUME IndInv, NEW t \in Threads, ReadEnds(t)
  PROVE  IndInv'
<1>1. TypeOK'
  BY SelfAssumption, SizesAssumption DEF IndInv, TypeOK, ChildInv, CountInv,
     IsRunning, ReadEnds, At, locals, Goto, AtEnd, EndOfFile, Directories,
     Modes, Statuses, Holders, Locations
<1>2. ChildInv'
  BY <1>1 DEF IndInv, TypeOK, ChildInv, IsRunning, ReadEnds, At, locals, Goto,
     AtEnd, EndOfFile
<1>3. WritersInv'
  BY <1>1, SelfAssumption DEF IndInv, TypeOK, WritersInv, ChildInv, IsRunning,
     ReadEnds, At, locals, Goto, AtEnd, EndOfFile
<1>4. CountInv'
  BY <1>1 DEF IndInv, TypeOK, CountInv, ChildInv, IsRunning, Modes, ReadEnds,
     At, locals, Goto, AtEnd, EndOfFile
<1>5. DirectoryInv'
  BY <1>1 DEF IndInv, TypeOK, DirectoryInv, ChildInv, IsRunning, Displacing,
     ReadEnds, At, locals, Goto, AtEnd, EndOfFile
<1>6. OutputIsComplete'
  BY <1>1 DEF IndInv, TypeOK, OutputIsComplete, ChildInv, CountInv,
     WritersInv, IsRunning, ReadEnds, At, locals, Goto, AtEnd, EndOfFile
<1>7. UnreadOutputBlocks' /\ ExitCodeIsAlwaysZero'
  BY <1>1 DEF IndInv, TypeOK, UnreadOutputBlocks, ExitCodeIsAlwaysZero,
     ChildInv, CountInv, IsRunning, ReadEnds, At, locals, Goto, AtEnd,
     EndOfFile
<1>8. QED
  BY <1>1, <1>2, <1>3, <1>4, <1>5, <1>6, <1>7 DEF IndInv

LEMMA WaitStep ==
  ASSUME IndInv, NEW t \in Threads, Wait(t)
  PROVE  IndInv'
<1>1. TypeOK'
  BY SelfAssumption, SizesAssumption DEF IndInv, TypeOK, ChildInv, CountInv,
     IsRunning, Wait, At, locals, Goto, NoChild, Directories, Modes, Statuses,
     Holders, Locations
<1>2. ChildInv'
  BY <1>1 DEF IndInv, TypeOK, ChildInv, IsRunning, Wait, At, locals, Goto,
     NoChild
<1>3. WritersInv'
  BY <1>1, SelfAssumption DEF IndInv, TypeOK, WritersInv, ChildInv, IsRunning,
     Wait, At, locals, Goto, NoChild
<1>4. CountInv'
  BY <1>1 DEF IndInv, TypeOK, CountInv, ChildInv, IsRunning, Modes, Wait, At,
     locals, Goto, NoChild
<1>5. DirectoryInv'
  BY <1>1 DEF IndInv, TypeOK, DirectoryInv, ChildInv, IsRunning, Displacing,
     Wait, At, locals, Goto, NoChild
<1>6. OutputIsComplete'
  BY <1>1 DEF IndInv, TypeOK, OutputIsComplete, ChildInv, CountInv,
     WritersInv, IsRunning, Wait, At, locals, Goto, NoChild
<1>7. UnreadOutputBlocks' /\ ExitCodeIsAlwaysZero'
  BY <1>1 DEF IndInv, TypeOK, UnreadOutputBlocks, ExitCodeIsAlwaysZero,
     ChildInv, CountInv, IsRunning, Wait, At, locals, Goto, NoChild
<1>8. QED
  BY <1>1, <1>2, <1>3, <1>4, <1>5, <1>6, <1>7 DEF IndInv

LEMMA GetExitCodeStep ==
  ASSUME IndInv, NEW t \in Threads, GetExitCode(t)
  PROVE  IndInv'
<1>1. TypeOK'
  BY SelfAssumption, SizesAssumption DEF IndInv, TypeOK, ChildInv, CountInv,
     IsRunning, GetExitCode, At, locals, Goto, Return, NoCall, NoChild,
     Directories, Modes, Statuses, Holders, Locations
<1>2. ChildInv'
  BY <1>1 DEF IndInv, TypeOK, ChildInv, IsRunning, GetExitCode, At, locals,
     Goto, Return, NoCall, NoChild
<1>3. WritersInv'
  BY <1>1, SelfAssumption DEF IndInv, TypeOK, WritersInv, ChildInv, IsRunning,
     GetExitCode, At, locals, Goto, Return, NoCall, NoChild
<1>4. CountInv'
  BY <1>1 DEF IndInv, TypeOK, CountInv, ChildInv, IsRunning, Modes,
     GetExitCode, At, locals, Goto, Return, NoCall, NoChild
<1>5. DirectoryInv'
  BY <1>1 DEF IndInv, TypeOK, DirectoryInv, ChildInv, IsRunning, Displacing,
     GetExitCode, At, locals, Goto, Return, NoCall, NoChild
<1>6. OutputIsComplete'
  BY <1>1 DEF IndInv, TypeOK, OutputIsComplete, ChildInv, CountInv,
     WritersInv, IsRunning, GetExitCode, At, locals, Goto, Return, NoCall,
     NoChild
<1>7. UnreadOutputBlocks' /\ ExitCodeIsAlwaysZero'
  BY <1>1 DEF IndInv, TypeOK, UnreadOutputBlocks, ExitCodeIsAlwaysZero,
     ChildInv, CountInv, IsRunning, GetExitCode, At, locals, Goto, Return,
     NoCall, NoChild
<1>8. QED
  BY <1>1, <1>2, <1>3, <1>4, <1>5, <1>6, <1>7 DEF IndInv

LEMMA ChildWritesStep ==
  ASSUME IndInv, NEW t \in Threads, ChildWrites(t)
  PROVE  IndInv'
<1>a. /\ child[t].left \in 1 .. MaxOutput /\ pipe[t] \in 0 .. PipeSize - 1
      /\ received[t] \in Nat /\ child[t].state = "running"
  BY SizesAssumption DEF IndInv, TypeOK, ChildWrites
<1>b. /\ child' = [child EXCEPT ![t] = [child[t] EXCEPT !.left = child[t].left - 1]]
      /\ pipe' = [pipe EXCEPT ![t] = pipe[t] + 1]
      /\ UNCHANGED <<cwd, pc, locals, writers, overlapped>>
  BY DEF ChildWrites
<1>c. child[t].left - 1 \in 0 .. MaxOutput /\ pipe[t] + 1 \in 0 .. PipeSize
  BY <1>a, SizesAssumption
<1>1. TypeOK'
  <2>1. [child[t] EXCEPT !.left = child[t].left - 1] \in
          [state : {"none", "running", "zombie", "reaped"}, dir : Directories,
           left : 0 .. MaxOutput, status : Statuses]
    BY <1>c DEF IndInv, TypeOK
  <2>2. QED
    BY <1>b, <1>c, <2>1 DEF IndInv, TypeOK, locals
<1>2. ChildInv'
  BY <1>1 DEF IndInv, TypeOK, ChildInv, IsRunning, ChildWrites, At, locals
<1>3. WritersInv'
  BY <1>1, SelfAssumption DEF IndInv, TypeOK, WritersInv, ChildInv, IsRunning,
     ChildWrites, At, locals
<1>4. CountInv'
  <2> SUFFICES ASSUME NEW u \in Threads
               PROVE  CountInv!(u)'
    BY DEF CountInv
  <2>0. UNCHANGED <<pc, call, received>>
    BY <1>b DEF locals
  <2>1. CASE u = t
    <3>1. child[t] \in [state : {"none", "running", "zombie", "reaped"}, dir : Directories,
                        left : 0 .. MaxOutput, status : Statuses]
      BY DEF IndInv, TypeOK
    <3>2. /\ child'[t].state = "running" /\ child'[t].left = child[t].left - 1
          /\ pipe'[t] = pipe[t] + 1
      BY <1>a, <1>b, <3>1 DEF IndInv, TypeOK
    <3>3. received[t] + pipe[t] + child[t].left = call[t].output
      BY <1>a DEF IndInv, CountInv, IsRunning
    <3>4. QED
      BY <1>a, <2>0, <2>1, <3>2, <3>3 DEF IndInv, CountInv, IsRunning
  <2>2. CASE u # t
    BY <1>b, <2>0, <2>2 DEF IndInv, TypeOK, CountInv, IsRunning
  <2>3. QED
    BY <2>1, <2>2
<1>5. DirectoryInv'
  BY <1>1 DEF IndInv, TypeOK, DirectoryInv, ChildInv, IsRunning, Displacing,
     ChildWrites, At, locals
<1>6. OutputIsComplete'
  BY <1>1 DEF IndInv, TypeOK, OutputIsComplete, ChildInv, CountInv,
     WritersInv, IsRunning, ChildWrites, At, locals
<1>7. UnreadOutputBlocks' /\ ExitCodeIsAlwaysZero'
  BY <1>1 DEF IndInv, TypeOK, UnreadOutputBlocks, ExitCodeIsAlwaysZero,
     ChildInv, CountInv, IsRunning, ChildWrites, At, locals
<1>8. QED
  BY <1>1, <1>2, <1>3, <1>4, <1>5, <1>6, <1>7 DEF IndInv

LEMMA ChildExitsStep ==
  ASSUME IndInv, NEW t \in Threads, ChildExits(t)
  PROVE  IndInv'
<1>1. TypeOK'
  <2>1. 0 \in 0 .. MaxOutput /\ Home \in Directories
    BY SizesAssumption DEF Directories
  <2>2. QED
    BY <2>1 DEF IndInv, TypeOK, ChildExits, locals
<1>2. ChildInv'
  BY <1>1 DEF IndInv, TypeOK, ChildInv, IsRunning, ChildExits, At, locals,
     NoChild
<1>3. WritersInv'
  BY <1>1, SelfAssumption DEF IndInv, TypeOK, WritersInv, ChildInv, IsRunning,
     ChildExits, At, locals, NoChild
<1>4. CountInv'
  BY <1>1 DEF IndInv, TypeOK, CountInv, ChildInv, IsRunning, Modes,
     ChildExits, At, locals, NoChild
<1>5. DirectoryInv'
  BY <1>1 DEF IndInv, TypeOK, DirectoryInv, ChildInv, IsRunning, Displacing,
     ChildExits, At, locals, NoChild
<1>6. OutputIsComplete'
  BY <1>1 DEF IndInv, TypeOK, OutputIsComplete, ChildInv, CountInv,
     WritersInv, IsRunning, ChildExits, At, locals, NoChild
<1>7. UnreadOutputBlocks' /\ ExitCodeIsAlwaysZero'
  BY <1>1 DEF IndInv, TypeOK, UnreadOutputBlocks, ExitCodeIsAlwaysZero,
     ChildInv, CountInv, IsRunning, ChildExits, At, locals, NoChild
<1>8. QED
  BY <1>1, <1>2, <1>3, <1>4, <1>5, <1>6, <1>7 DEF IndInv

----------------------------------------------------------------------------
LEMMA StutterIndInv == ASSUME IndInv, UNCHANGED vars PROVE IndInv'
<1>1. TypeOK' /\ ChildInv' /\ WritersInv' /\ CountInv' /\ DirectoryInv'
  BY DEF IndInv, TypeOK, ChildInv, WritersInv, CountInv, DirectoryInv, IsRunning, vars, locals
<1>2. OutputIsComplete' /\ UnreadOutputBlocks' /\ ExitCodeIsAlwaysZero'
  BY DEF IndInv, OutputIsComplete, UnreadOutputBlocks, ExitCodeIsAlwaysZero, At, vars, locals
<1>3. QED
  BY <1>1, <1>2 DEF IndInv

LEMMA NextIndInv == ASSUME IndInv, [Next]_vars PROVE IndInv'
<1>1. CASE UNCHANGED vars
  BY <1>1, StutterIndInv
<1>2. ASSUME NEW t \in Threads,
             Begin(t) \/ PipeFails(t) \/ SpawnFails(t) \/ ThreadStep(t) \/ ChildStep(t)
      PROVE  IndInv'
  BY <1>2, BeginStep, PipeFailsStep, SpawnFailsStep, CreatePipeStep,
     GetWorkingDirectoryStep, EnterDirectoryStep, SpawnStep, LeaveDirectoryStep,
     CloseWriteEndStep, OpenFailsStep, ReadChunkStep, ReadEndsStep, WaitStep,
     GetExitCodeStep, ChildWritesStep, ChildExitsStep
  DEF ThreadStep, ChildStep
<1>3. QED
  BY <1>1, <1>2 DEF Next

LEMMA SpecIndInv == Spec => []IndInv
<1>1. Init => IndInv
  BY InitIndInv
<1>2. IndInv /\ [Next]_vars => IndInv'
  BY NextIndInv
<1>3. QED
  BY <1>1, <1>2, PTL DEF Spec

----------------------------------------------------------------------------
(* Every variable keeps its type: no pipe runs over, and no more is read   *)
(* from it than was written.                                               *)
THEOREM TypeCorrect == Spec => []TypeOK
<1>1. IndInv => TypeOK
  BY DEF IndInv
<1>2. QED
  BY <1>1, SpecIndInv, PTL

(* ReadToEnd returns all that the child wrote and not before it exited,    *)
(* whichever children of other threads inherited the pipe.                 *)
THEOREM ReadsAll == Spec => []OutputIsComplete
<1>1. IndInv => OutputIsComplete
  BY DEF IndInv
<1>2. QED
  BY <1>1, SpecIndInv, PTL

(* A call that is over has left no write end open and no child behind.     *)
THEOREM LeavesNothing == Spec => []NothingLeftBehind
<1>1. IndInv => NothingLeftBehind
  BY DEF IndInv, ChildInv, WritersInv, NothingLeftBehind, At
<1>2. QED
  BY <1>1, SpecIndInv, PTL

(* Open keeps the working directory as long as no two threads are in it.   *)
THEOREM KeepsDirectory == Spec => []DirectoryKeptUnlessOverlapped
<1>1. IndInv => DirectoryKeptUnlessOverlapped
  BY DEF IndInv, DirectoryInv, DirectoryKeptUnlessOverlapped
<1>2. QED
  BY <1>1, SpecIndInv, PTL

(* No caller that waits before it asks sees an exit code other than 0.     *)
THEOREM ExitCodeIsLost == Spec => []ExitCodeIsAlwaysZero
<1>1. IndInv => ExitCodeIsAlwaysZero
  BY DEF IndInv
<1>2. QED
  BY <1>1, SpecIndInv, PTL

(* A caller that does not read gets past Wait only if the output fits the  *)
(* pipe.                                                                   *)
THEOREM WaitNeedsRoom == Spec => []UnreadOutputBlocks
<1>1. IndInv => UnreadOutputBlocks
  BY DEF IndInv
<1>2. QED
  BY <1>1, SpecIndInv, PTL

----------------------------------------------------------------------------
(***************************************************************************)
(* Children inherit the pipes of all threads, so a ReadToEnd may have to   *)
(* wait for the children of other threads, which may have to wait for      *)
(* their readers: no circle comes of it.                                   *)
(***************************************************************************)
ChildCanGoOn(t) ==
  child[t].state = "running" /\ (child[t].left = 0 \/ pipe[t] < PipeSize)

(* The thread is still in Open, or has chunks to read. *)
EmptiesItsPipe(t) == At(t, "leave") \/ At(t, "close") \/ (At(t, "read") /\ pipe[t] > 0)

(* Whoever keeps a reader waiting can go on itself: its child can write or *)
(* exit, or its thread is about to make room for it.  A thread in Wait     *)
(* waits for its own child only, and for good only if it does not read     *)
(* what does not fit the pipe.                                             *)
NoCircleOfReaders ==
  \A t \in Threads :
    /\ At(t, "read") /\ pipe[t] = 0 =>
         \A u \in writers[t] : ChildCanGoOn(u) \/ EmptiesItsPipe(u)
    /\ At(t, "wait") =>
         \/ child[t].state = "zombie" \/ ChildCanGoOn(t)
         \/ call[t].mode = "wait" /\ call[t].output > PipeSize

(* The packaging command runs alone. *)
WaitsAlone ==
  \A t, u \in Threads :
    ~ At(t, "idle") /\ call[t].mode = "wait" /\ ~ At(u, "idle") => t = u

LEMMA WaitsAloneStep ==
  ASSUME IndInv, WaitsAlone, [Next]_vars
  PROVE  WaitsAlone'
<1>1. pc \in [Threads -> Locations] /\ call \in [Threads -> [mode : Modes, dir : Directories, output : 0 .. MaxOutput]]
  BY DEF IndInv, TypeOK
<1>2. CASE UNCHANGED vars
  BY <1>2 DEF vars, WaitsAlone, At
<1>3. ASSUME NEW t \in Threads, Begin(t) PROVE WaitsAlone'
  BY <1>1, <1>3 DEF Begin, Goto, At, WaitsAlone, Modes
<1>4. ASSUME NEW t \in Threads, PipeFails(t) \/ OpenFails(t) \/ GetExitCode(t)
      PROVE  WaitsAlone'
  BY <1>1, <1>4 DEF PipeFails, OpenFails, GetExitCode, Return, Goto, At, WaitsAlone
<1>5. ASSUME NEW t \in Threads,
             \/ CreatePipe(t) \/ GetWorkingDirectory(t) \/ EnterDirectory(t)
             \/ Spawn(t) \/ SpawnFails(t) \/ LeaveDirectory(t) \/ CloseWriteEnd(t)
             \/ ReadChunk(t) \/ ReadEnds(t) \/ Wait(t)
      PROVE  WaitsAlone'
  <2>1. /\ call' = call /\ pc[t] # "idle"
        /\ \A u \in Threads : u # t => pc'[u] = pc[u]
    BY <1>1, <1>5 DEF CreatePipe, GetWorkingDirectory, EnterDirectory, Spawn, SpawnFails,
       LeaveDirectory, SetWorkingDirectory, CloseWriteEnd, ReadChunk, ReadEnds, Wait,
       locals, Goto, At
  <2>2. QED
    BY <2>1 DEF WaitsAlone, At
<1>6. ASSUME NEW t \in Threads, ChildStep(t) PROVE WaitsAlone'
  BY <1>6 DEF ChildStep, ChildWrites, ChildExits, locals, WaitsAlone, At
<1>7. QED
  BY <1>2, <1>3, <1>4, <1>5, <1>6 DEF Next, ThreadStep

LEMMA ReadersGoOn ==
  ASSUME IndInv, WaitsAlone
  PROVE  NoCircleOfReaders
<1>1. /\ pipe \in [Threads -> 0 .. PipeSize] /\ PipeSize \in Nat \ {0}
      /\ writers \in [Threads -> SUBSET Holders] /\ pc \in [Threads -> Locations]
      /\ \A u \in Threads : /\ child[u].left \in 0 .. MaxOutput
                             /\ call[u].output \in 0 .. MaxOutput
                             /\ call[u].mode \in Modes
                             /\ received[u] \in 0 .. MaxOutput
      /\ MaxOutput \in Nat
  BY SizesAssumption DEF IndInv, TypeOK
<1>2. ASSUME NEW u \in Threads, child[u].state = "running", ~ ChildCanGoOn(u)
      PROVE  /\ child[u].left > 0 /\ pipe[u] = PipeSize /\ pipe[u] > 0
             /\ call[u].output = received[u] + pipe[u] + child[u].left
             /\ EmptiesItsPipe(u) \/ (At(u, "wait") /\ call[u].mode = "wait")
  <2>1. child[u].left > 0 /\ pipe[u] = PipeSize /\ pipe[u] > 0
    BY <1>1, <1>2 DEF ChildCanGoOn
  <2>2. call[u].output = received[u] + pipe[u] + child[u].left
    BY <1>2 DEF IndInv, CountInv, IsRunning
  <2>3. pc[u] \in {"leave", "close", "read", "wait"}
    BY <1>1, <1>2 DEF IndInv, ChildInv, Locations
  <2>4. pc[u] = "wait" => call[u].mode = "wait"
    BY <1>1, <1>2 DEF IndInv, OutputIsComplete, Modes
  <2>5. QED
    BY <2>1, <2>2, <2>3, <2>4 DEF EmptiesItsPipe, At
<1>3. ASSUME NEW t \in Threads, At(t, "read"), pipe[t] = 0, NEW u \in writers[t]
      PROVE  ChildCanGoOn(u) \/ EmptiesItsPipe(u)
  <2>1. u \in Threads
    BY <1>1, <1>3 DEF IndInv, WritersInv, Holders, At
  <2>2. child[u].state = "running"
    BY <1>3, <2>1 DEF IndInv, WritersInv
  <2>3. ~ (At(u, "wait") /\ call[u].mode = "wait")
    BY <1>3, <2>1 DEF WaitsAlone, At
  <2>4. QED
    BY <1>2, <2>1, <2>2, <2>3
<1>4. ASSUME NEW t \in Threads, At(t, "wait"), child[t].state # "zombie", ~ ChildCanGoOn(t)
      PROVE  call[t].mode = "wait" /\ call[t].output > PipeSize
  <2>1. child[t].state = "running"
    BY <1>4 DEF IndInv, ChildInv, IsRunning, At
  <2>2. call[t].mode = "wait"
    BY <1>2, <1>4, <2>1 DEF EmptiesItsPipe, At
  <2>3. call[t].output > PipeSize
    BY <1>1, <1>2, <1>4, <2>1
  <2>4. QED
    BY <2>2, <2>3
<1>5. QED
  BY <1>3, <1>4 DEF NoCircleOfReaders

(* Reading the output of one process never comes to depend on the reading  *)
(* of another in a circle, although each child keeps the pipes of all      *)
(* threads open (Linux_Process.cpp, Open and ReadToEnd).                   *)
THEOREM ReadersNeverWaitInACircle == Spec => []NoCircleOfReaders
<1>1. Init => WaitsAlone
  BY DEF Init, WaitsAlone, At
<1>2. IndInv /\ WaitsAlone /\ [Next]_vars => WaitsAlone'
  BY WaitsAloneStep
<1>3. IndInv /\ WaitsAlone => NoCircleOfReaders
  BY ReadersGoOn
<1>4. QED
  BY <1>1, <1>2, <1>3, SpecIndInv, PTL DEF Spec
============================================================================
