---------------------------- MODULE ChildProcess ----------------------------
(***************************************************************************)
(* Child processes on Linux (Core/Platform/Linux/Linux_Process.cpp and     *)
(* Process.cpp): the threads of the program open a process, read its       *)
(* output to the end or only wait for it, and ask for its exit code.       *)
(*                                                                         *)
(* Shared by all threads are the working directory, which Open changes     *)
(* around posix_spawn, and the descriptors, which every child inherits:    *)
(* also the write ends of the pipes of other threads.  One step per system *)
(* call.  A thread has one child at a time, and the child bears its name.  *)
(* Output is counted in chunks.  pipe() and posix_spawn() may fail.        *)
(*                                                                         *)
(* Definitions marked Bug are mutated forms that no action uses.           *)
(***************************************************************************)
EXTENDS Naturals

CONSTANTS
  Threads,     (* the threads that run child processes                     *)
  Self,        (* the program itself, as a holder of write ends            *)
  Dirs,        (* working directories that callers ask for                 *)
  Home,        (* the working directory the program was started in         *)
  PipeSize,    (* what a pipe holds before a writer blocks, in chunks      *)
  MaxOutput    (* the most that a child writes, in chunks                  *)

ASSUME SelfAssumption == Self \notin Threads
ASSUME SizesAssumption == PipeSize \in Nat \ {0} /\ MaxOutput \in Nat

VARIABLES
  cwd,         (* the working directory of the program                     *)
  pc,          (* where each thread is                                     *)
  call,        (* workingDirectory, what the caller does, what the child   *)
               (* is going to write                                        *)
  saved,       (* originalWorkingDirectory of each thread                  *)
  child,       (* the child of each thread: its state, the directory it    *)
               (* started in, what it has still to write, its exit status  *)
  pipe,        (* chunks in the pipe of each thread                        *)
  writers,     (* who holds a write end of it                              *)
  received,    (* chunks that ReadToEnd has read                           *)
  code,        (* what GetExitCode last returned to each thread            *)
  overlapped   (* history: two threads were inside Open at once            *)

locals == <<call, saved, received, code>>
vars == <<cwd, pc, call, saved, child, pipe, writers, received, code, overlapped>>

Directories == Dirs \cup {Home}
Modes == {"read", "wait"}
Statuses == {0, 1}
Holders == Threads \cup {Self}
Locations == {"idle", "pipe", "save", "enter", "spawn", "leave", "close",
              "read", "wait", "code"}
(* Between GetWorkingDirectory and the second SetWorkingDirectory. *)
Displacing == {"enter", "spawn", "leave"}

NoCall == [mode |-> "read", dir |-> Home, output |-> 0]
NoChild == [state |-> "none", dir |-> Home, left |-> 0, status |-> 0]

TypeOK ==
  /\ cwd \in Directories
  /\ pc \in [Threads -> Locations]
  /\ call \in [Threads -> [mode : Modes, dir : Directories, output : 0 .. MaxOutput]]
  /\ saved \in [Threads -> Directories]
  /\ child \in [Threads -> [state : {"none", "running", "zombie", "reaped"},
                            dir : Directories, left : 0 .. MaxOutput,
                            status : Statuses]]
  /\ pipe \in [Threads -> 0 .. PipeSize]
  /\ writers \in [Threads -> SUBSET Holders]
  /\ received \in [Threads -> 0 .. MaxOutput]
  /\ code \in [Threads -> Statuses]
  /\ overlapped \in BOOLEAN

Init ==
  /\ cwd = Home
  /\ pc = [t \in Threads |-> "idle"]
  /\ call = [t \in Threads |-> NoCall]
  /\ saved = [t \in Threads |-> Home]
  /\ child = [t \in Threads |-> NoChild]
  /\ pipe = [t \in Threads |-> 0]
  /\ writers = [t \in Threads |-> {}]
  /\ received = [t \in Threads |-> 0]
  /\ code = [t \in Threads |-> 0]
  /\ overlapped = FALSE

At(t, location) == pc[t] = location
Goto(t, location) == pc' = [pc EXCEPT ![t] = location]

(* The Process object of a call goes out of scope: ~Process detaches, which *)
(* closes the read end.                                                    *)
Return(t) ==
  /\ Goto(t, "idle")
  /\ call' = [call EXCEPT ![t] = NoCall]
  /\ saved' = [saved EXCEPT ![t] = Home]
  /\ child' = [child EXCEPT ![t] = NoChild]
  /\ pipe' = [pipe EXCEPT ![t] = 0]
  /\ received' = [received EXCEPT ![t] = 0]

----------------------------------------------------------------------------
(* Open.                                                                   *)

(* Tasks and source control read the output; the packaging command, which  *)
(* runs when no thread of a pool does, waits without reading.              *)
Begin(t) ==
  /\ At(t, "idle")
  /\ \E mode \in Modes, dir \in Dirs, output \in 0 .. MaxOutput :
       /\ mode = "wait" => \A u \in Threads : At(u, "idle")
       /\ call' = [call EXCEPT ![t] = [mode |-> mode, dir |-> dir, output |-> output]]
  /\ \A u \in Threads : ~At(u, "idle") => call[u].mode = "read"
  /\ Goto(t, "pipe")
  /\ UNCHANGED <<cwd, saved, child, pipe, writers, received, code, overlapped>>

CreatePipe(t) ==
  /\ At(t, "pipe")
  /\ writers' = [writers EXCEPT ![t] = {Self}]
  /\ Goto(t, "save")
  /\ UNCHANGED <<cwd, locals, child, pipe, overlapped>>

PipeFails(t) ==
  /\ At(t, "pipe")
  /\ Return(t)
  /\ UNCHANGED <<cwd, writers, code, overlapped>>

GetWorkingDirectory(t) ==
  /\ At(t, "save")
  /\ saved' = [saved EXCEPT ![t] = cwd]
  /\ overlapped' = (overlapped \/ \E u \in Threads : pc[u] \in Displacing)
  /\ Goto(t, "enter")
  /\ UNCHANGED <<cwd, call, child, pipe, writers, received, code>>

SetWorkingDirectory(t, from, to, dir) ==
  /\ At(t, from)
  /\ cwd' = dir
  /\ Goto(t, to)
  /\ UNCHANGED <<locals, child, pipe, writers, overlapped>>

(* Bug: the working directory is left as it is. *)
StayInDirectory(t) == SetWorkingDirectory(t, "leave", "close", call[t].dir)

EnterDirectory(t) == SetWorkingDirectory(t, "enter", "spawn", call[t].dir)
LeaveDirectory(t) == SetWorkingDirectory(t, "leave", "close", saved[t])

(* What a child gets of all descriptors that are open in the program.      *)
Inherit(t) ==
  writers' = [u \in Threads |->
                writers[u] \cup (IF Self \in writers[u] THEN {t} ELSE {})]

Spawn(t) ==
  /\ At(t, "spawn")
  /\ child' = [child EXCEPT ![t] =
       [state |-> "running", dir |-> cwd, left |-> call[t].output, status |-> 0]]
  /\ Inherit(t)
  /\ Goto(t, "leave")
  /\ UNCHANGED <<cwd, locals, pipe, overlapped>>

SpawnFails(t) ==
  /\ At(t, "spawn")
  /\ Goto(t, "leave")
  /\ UNCHANGED <<cwd, locals, child, pipe, writers, overlapped>>

(* Bug: the write end stays open. *)
KeepWriteEnd(t) ==
  /\ At(t, "close")
  /\ child[t].state # "none"
  /\ Goto(t, call[t].mode)
  /\ UNCHANGED <<cwd, locals, child, pipe, writers, overlapped>>

(* close(m_cout_pipe[1]); Open returns, with success if there is a child.  *)
CloseWriteEnd(t) ==
  /\ At(t, "close")
  /\ child[t].state # "none"
  /\ writers' = [writers EXCEPT ![t] = @ \ {Self}]
  /\ Goto(t, call[t].mode)
  /\ UNCHANGED <<cwd, locals, child, pipe, overlapped>>

OpenFails(t) ==
  /\ At(t, "close")
  /\ child[t].state = "none"
  /\ writers' = [writers EXCEPT ![t] = @ \ {Self}]
  /\ Return(t)
  /\ UNCHANGED <<cwd, code, overlapped>>

----------------------------------------------------------------------------
(* ReadToEnd, Wait and GetExitCode.                                        *)

(* kill(pid, 0) succeeds until the child is reaped. *)
IsRunning(t) == child[t].state \in {"running", "zombie"}
AtEnd(t) == ~IsRunning(t) /\ pipe[t] = 0

(* Bug: the chunk is counted although the pipe is empty. *)
ReadPastEnd(t) ==
  /\ At(t, "read")
  /\ pipe' = [pipe EXCEPT ![t] = @ - 1]
  /\ received' = [received EXCEPT ![t] = @ + 1]
  /\ UNCHANGED <<cwd, pc, call, saved, child, writers, code, overlapped>>

(* read() finds chunks in the pipe. *)
ReadChunk(t) ==
  /\ At(t, "read")
  /\ ~AtEnd(t) /\ pipe[t] > 0
  /\ pipe' = [pipe EXCEPT ![t] = @ - 1]
  /\ received' = [received EXCEPT ![t] = @ + 1]
  /\ UNCHANGED <<cwd, pc, call, saved, child, writers, code, overlapped>>

(* Bug: an empty pipe is taken for the end of the output. *)
NothingThereNow(t) == pipe[t] = 0

(* read() blocks on an empty pipe until every write end is closed, and     *)
(* returns 0 then.                                                         *)
EndOfFile(t) == pipe[t] = 0 /\ writers[t] = {}

ReadEnds(t) ==
  /\ At(t, "read")
  /\ AtEnd(t) \/ EndOfFile(t)
  /\ Goto(t, "wait")
  /\ UNCHANGED <<cwd, locals, child, pipe, writers, overlapped>>

(* Bug: Wait does not call waitpid. *)
WaitWithoutReaping(t) ==
  /\ At(t, "wait")
  /\ child[t].state = "zombie"
  /\ Goto(t, "code")
  /\ UNCHANGED <<cwd, locals, child, pipe, writers, overlapped>>

(* Bug: Wait does not block. *)
WaitWithoutBlocking(t) ==
  /\ At(t, "wait")
  /\ Goto(t, "code")
  /\ UNCHANGED <<cwd, locals, child, pipe, writers, overlapped>>

(* waitpid() blocks until the child has exited; the status it reports goes *)
(* to a local variable.                                                    *)
Wait(t) ==
  /\ At(t, "wait")
  /\ child[t].state = "zombie"
  /\ child' = [child EXCEPT ![t] = [NoChild EXCEPT !.state = "reaped"]]
  /\ Goto(t, "code")
  /\ UNCHANGED <<cwd, locals, pipe, writers, overlapped>>

(* waitpid() with WNOHANG: only of a child that has exited and was not     *)
(* waited for is there a status to report.  The call ends here.            *)
GetExitCode(t) ==
  /\ At(t, "code")
  /\ code' = [code EXCEPT ![t] = IF child[t].state = "zombie" THEN child[t].status ELSE 0]
  /\ Return(t)
  /\ UNCHANGED <<cwd, writers, overlapped>>

----------------------------------------------------------------------------
(* The child, external to the program.                                     *)

ChildWrites(t) ==
  /\ child[t].state = "running"
  /\ child[t].left > 0 /\ pipe[t] < PipeSize
  /\ child' = [child EXCEPT ![t].left = @ - 1]
  /\ pipe' = [pipe EXCEPT ![t] = @ + 1]
  /\ UNCHANGED <<cwd, pc, locals, writers, overlapped>>

(* It exits with either status when it has written its output, and all its *)
(* descriptors are closed.                                                 *)
ChildExits(t) ==
  /\ child[t].state = "running"
  /\ child[t].left = 0
  /\ \E status \in Statuses :
       child' = [child EXCEPT ![t] =
         [state |-> "zombie", dir |-> Home, left |-> 0, status |-> status]]
  /\ writers' = [u \in Threads |-> writers[u] \ {t}]
  /\ UNCHANGED <<cwd, pc, locals, pipe, overlapped>>

ThreadStep(t) ==
  \/ CreatePipe(t) \/ GetWorkingDirectory(t) \/ EnterDirectory(t)
  \/ Spawn(t) \/ LeaveDirectory(t) \/ CloseWriteEnd(t) \/ OpenFails(t)
  \/ ReadChunk(t) \/ ReadEnds(t) \/ Wait(t) \/ GetExitCode(t)

ChildStep(t) == ChildWrites(t) \/ ChildExits(t)

Next ==
  \E t \in Threads :
    \/ Begin(t) \/ PipeFails(t) \/ SpawnFails(t)
    \/ ThreadStep(t) \/ ChildStep(t)

Spec == Init /\ [][Next]_vars

(* Threads and children that can run do, and neither pipe() nor            *)
(* posix_spawn() has to fail.                                              *)
FairSpec ==
  /\ Spec
  /\ \A t \in Threads : WF_vars(ThreadStep(t)) /\ WF_vars(ChildStep(t))

----------------------------------------------------------------------------
(* Properties.                                                             *)

(* ReadToEnd returns all that the child wrote, and only after the child    *)
(* has exited: whoever else inherited the pipe can only delay that.        *)
OutputIsComplete ==
  \A t \in Threads :
    call[t].mode = "read" /\ pc[t] \in {"wait", "code"} =>
      /\ received[t] = call[t].output
      /\ child[t].state \in {"zombie", "reaped"}

(* After a call, whether it failed or not, the program holds no write end  *)
(* of its pipe, and no child of it is left to run or to be waited for.     *)
NothingLeftBehind ==
  \A t \in Threads : At(t, "idle") =>
    /\ Self \notin writers[t]
    /\ \A u \in Threads : t \notin writers[u]

(* As long as no two threads were inside Open at once, each child starts   *)
(* in the directory that was asked for, and the program stays in its own.  *)
DirectoryKeptUnlessOverlapped ==
  ~overlapped =>
    /\ \A t \in Threads : child[t].state = "running" => child[t].dir = call[t].dir
    /\ (\A t \in Threads : pc[t] \notin Displacing) => cwd = Home

(* The exit code that a caller sees is 0, whatever the child returned:     *)
(* every caller waits first, and a status can be collected once.           *)
ExitCodeIsAlwaysZero == \A t \in Threads : code[t] = 0

(* A caller that waits without reading never gets past a child that writes *)
(* more than the pipe holds.                                               *)
UnreadOutputBlocks ==
  \A t \in Threads :
    call[t].mode = "wait" /\ At(t, "code") => call[t].output <= PipeSize

(* Every other call returns, although ReadToEnd has to wait for all        *)
(* children that inherited its pipe.                                       *)
CallsReturn ==
  \A t \in Threads :
    ~At(t, "idle") ~>
      At(t, "idle") \/ (call[t].mode = "wait" /\ call[t].output > PipeSize)
=============================================================================
