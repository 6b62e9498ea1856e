-------------------------- MODULE IncrementalBuild --------------------------
(***************************************************************************)
(* How Builder decides, build after build, which files of one project to   *)
(* compile again: BuilderFileInfo (App/Builder/BuilderFileInfo.cpp), the   *)
(* part of Builder::Build that uses it, and the tasks that Toolchain       *)
(* (App/Builder/Toolchains/Toolchain.cpp) makes of the answer.             *)
(*                                                                         *)
(* The project has a precompiled header and is built with the Microsoft    *)
(* toolchain.  A stamp stands for a modified time: every write of a file   *)
(* gives it a new one, and 0 says that there is no file.                   *)
(* CalculateFileHash adds the path and the configuration, both fixed here, *)
(* so the stamp is the hash.  Files are edited at any moment, and the      *)
(* process may be killed at any moment.                                    *)
(*                                                                         *)
(* Definitions marked Bug are mutated forms that no action uses.           *)
(***************************************************************************)
EXTENDS Integers, FiniteSets

CONSTANTS
  Units,      (* the source files of the project                           *)
  Pch,        (* the one of them that Build_PrecompiledSource names        *)
  Headers,    (* the files they include                                    *)
  Includes,   (* the headers each source file includes                     *)
  MaxStamp,   (* bound: how often a file is written, its creation included *)
  MaxBuilds   (* bound: how many processes run                             *)

ASSUME PchAssumption == Pch \in Units
ASSUME HeadersAssumption == Units \cap Headers = {}
ASSUME IncludesAssumption == Includes \in [Units -> SUBSET Headers]
(* A file does not include again what it has from the precompiled header.  *)
ASSUME GuardsAssumption ==
  \A u \in Units \ {Pch} : Includes[u] \cap Includes[Pch] = {}
ASSUME BoundsAssumption == MaxStamp \in Nat \ {0} /\ MaxBuilds \in Nat

Files == Units \cup Headers
NoStamps == [f \in Files |-> 0]
NoObjects == [u \in Units |-> 0]

VARIABLES
  stamp,           (* the modified time of each file                       *)
  object,          (* each OutputPath: its time and what it was made from  *)
  manifest,        (* each ManifestPath: Hash and Dependencies             *)
  target,          (* the object times that the linked output was made of  *)
  targetManifest,  (* those that target.build.manifest records             *)
  phase,           (* where the process is; "idle" when there is none      *)
  cache,           (* m_modifiedTimeCache, which lives as long as it       *)
  info,            (* Hash and Dependencies of each BuilderFileInfo        *)
  unchecked,       (* files GetMultipleFileInfos has not reached           *)
  task,            (* the compile task of each file                        *)
  linkTask,        (* the link task                                        *)
  failed,          (* bBuildFailed                                         *)
  result,          (* how the last process ended                           *)
  edited,          (* history: a file was edited since the process started *)
  raced,           (* history: headers edited before the process read them *)
  builds           (* how many processes there were                        *)

disk == << object, manifest, target, targetManifest >>
memory == << phase, cache, info, unchecked, task, linkTask, failed >>
vars == << stamp, disk, memory, result, edited, raced, builds >>

NoObject == [stamp |-> 0, from |-> NoStamps]
NoManifest == [hash |-> 0, deps |-> NoStamps]

(* What a process kept in memory is empty when there is none. *)
NothingInMemory ==
  /\ cache = NoStamps /\ unchecked = {}
  /\ task = [u \in Units |-> "none"]
  /\ linkTask = "none" /\ ~ failed

TypeOK ==
  /\ stamp \in [Files -> Nat \ {0}]
  /\ object \in [Units -> [stamp : Nat, from : [Files -> Nat]]]
  /\ manifest \in [Units -> [hash : Nat, deps : [Files -> Nat]]]
  /\ target \in [Units -> Nat]
  /\ targetManifest \in [Units -> Nat]
  /\ phase \in {"idle", "check", "build"}
  /\ cache \in [Files -> Nat]
  /\ info \in [Units -> [hash : Nat, deps : [Files -> Nat]]]
  /\ unchecked \subseteq Units
  /\ task \in [Units -> {"none", "queued", "written", "done"}]
  /\ linkTask \in {"none", "queued", "written"}
  /\ failed \in BOOLEAN
  /\ result \in {"none", "upToDate", "built", "failed", "killed"}
  /\ edited \in BOOLEAN
  /\ raced \subseteq Headers
  /\ builds \in Nat
  /\ phase = "idle" => NothingInMemory

Init ==
  /\ stamp = [f \in Files |-> 1]
  /\ object = [u \in Units |-> NoObject]
  /\ manifest = [u \in Units |-> NoManifest]
  /\ target = NoObjects
  /\ targetManifest = NoObjects
  /\ phase = "idle"
  /\ cache = NoStamps
  /\ info = [u \in Units |-> NoManifest]
  /\ unchecked = {}
  /\ task = [u \in Units |-> "none"]
  /\ linkTask = "none"
  /\ failed = FALSE
  /\ result = "none"
  /\ edited = FALSE
  /\ raced = {}
  /\ builds = 0

----------------------------------------------------------------------------
(* The stamps a process works with.                                        *)

(* Bug: nothing is cached. *)
GetModifiedTime(f) == stamp[f]

(* Only source-code files are looked up, so only they are cached.          *)
GetCachedModifiedTime(f) == IF cache[f] # 0 THEN cache[f] ELSE stamp[f]
CacheAfter(read) ==
  [f \in Files |-> IF f \in read THEN GetCachedModifiedTime(f) ELSE cache[f]]

(* What /showIncludes prints: the headers the compiler opened, which are   *)
(* not those that the precompiled header already holds.                    *)
OutputDependencyPaths(u) == Includes[u]

(* What the compiler reads: a file that uses the precompiled header gets   *)
(* its headers as they were when that was compiled.                        *)
Consumed(u) ==
  [f \in Files |->
     IF f \in {u} \cup Includes[u] THEN stamp[f]
     ELSE IF u # Pch /\ f \in Includes[Pch] THEN object[Pch].from[f]
     ELSE 0]

----------------------------------------------------------------------------
(* The world outside of the build.                                         *)

(* A file is saved.  It races when a process runs that has yet to ask for  *)
(* its modified time.                                                      *)
Edit(f) ==
  /\ stamp[f] < MaxStamp
  /\ stamp' = [stamp EXCEPT ![f] = @ + 1]
  /\ edited' = TRUE
  /\ raced' = IF phase # "idle" /\ f \in Headers /\ cache[f] = 0
                THEN raced \cup {f}
              ELSE IF phase = "idle" THEN raced \ {f} ELSE raced
  /\ UNCHANGED << disk, memory, result, builds >>

(* Bug: the cache outlives the process. *)
EndKeepsCache(outcome) ==
  /\ phase' = "idle"
  /\ info' = [u \in Units |-> NoManifest]
  /\ unchecked' = {}
  /\ task' = [u \in Units |-> "none"]
  /\ linkTask' = "none"
  /\ failed' = FALSE
  /\ result' = outcome
  /\ UNCHANGED << stamp, cache, edited, raced, builds >>

(* A process ends, and what it kept in memory is gone. *)
End(outcome) ==
  /\ phase' = "idle"
  /\ cache' = NoStamps
  /\ info' = [u \in Units |-> NoManifest]
  /\ unchecked' = {}
  /\ task' = [u \in Units |-> "none"]
  /\ linkTask' = "none"
  /\ failed' = FALSE
  /\ result' = outcome
  /\ UNCHANGED << stamp, edited, raced, builds >>

Kill ==
  /\ phase # "idle"
  /\ End("killed")
  /\ UNCHANGED disk

----------------------------------------------------------------------------
(* Builder::Build up to the decision what to do.                           *)

Start ==
  /\ phase = "idle"
  /\ builds < MaxBuilds
  /\ builds' = builds + 1
  /\ edited' = FALSE
  /\ result' = "none"
  /\ UNCHANGED << stamp, raced >>

Check ==
  /\ phase' = "check"
  /\ unchecked' = Units
  /\ UNCHANGED << cache, info, task, linkTask, failed >>

StartBuild == Start /\ Check /\ UNCHANGED disk

(* Clean, then the build.  That an output could not be deleted is ignored.  *)
StartRebuild ==
  /\ Start
  /\ Check
  /\ object' = [u \in Units |-> NoObject]
  /\ manifest' = [u \in Units |-> NoManifest]
  /\ target' \in {target, NoObjects}
  /\ targetManifest' = NoObjects

(* A file in the intermediate directory cannot be deleted: Clean gives up  *)
(* with some of the others gone.                                           *)
CleanFails ==
  /\ phase = "idle"
  /\ builds < MaxBuilds
  /\ builds' = builds + 1
  /\ edited' = FALSE
  /\ result' = "failed"
  /\ \E objects, manifests \in SUBSET Units :
       /\ object' = [u \in Units |-> IF u \in objects THEN NoObject ELSE object[u]]
       /\ manifest' =
            [u \in Units |-> IF u \in manifests THEN NoManifest ELSE manifest[u]]
  /\ targetManifest' \in {targetManifest, NoObjects}
  /\ UNCHANGED << stamp, target, memory, raced >>

(* What one call of CheckOutOfDate leaves in the BuilderFileInfo. *)
Checked(u, read, dependencies, outOfDate) ==
  /\ cache' = CacheAfter(read)
  /\ info' = [info EXCEPT ![u] =
                [hash |-> GetCachedModifiedTime(u), deps |-> dependencies]]
  /\ task' = [task EXCEPT ![u] = IF outOfDate THEN "queued" ELSE "none"]
  /\ unchecked' = unchecked \ {u}
  /\ UNCHANGED << stamp, disk, phase, linkTask, failed, result, edited, raced,
                  builds >>

HasFiles(u) == manifest[u].hash # 0 /\ object[u].stamp # 0
Recorded(u) == {f \in Files : manifest[u].deps[f] # 0}
Differs(u) == {f \in Recorded(u) : manifest[u].deps[f] # GetCachedModifiedTime(f)}

(* The manifest or the object is missing: the manifest is not read. *)
CheckMissing(u) ==
  /\ phase = "check" /\ u \in unchecked
  /\ ~ HasFiles(u)
  /\ Checked(u, {u}, NoStamps, TRUE)

(* Bug: the hash that LoadManifest overwrote is not put back. *)
CheckHashKeepsLoaded(u) ==
  /\ phase = "check" /\ u \in unchecked
  /\ HasFiles(u) /\ manifest[u].hash # GetCachedModifiedTime(u)
  /\ cache' = CacheAfter({u})
  /\ info' = [info EXCEPT ![u] = manifest[u]]
  /\ task' = [task EXCEPT ![u] = "queued"]
  /\ unchecked' = unchecked \ {u}
  /\ UNCHANGED << stamp, disk, phase, linkTask, failed, result, edited, raced,
                  builds >>

(* The hash is another: the dependencies are loaded but not looked at. *)
CheckHash(u) ==
  /\ phase = "check" /\ u \in unchecked
  /\ HasFiles(u) /\ manifest[u].hash # GetCachedModifiedTime(u)
  /\ Checked(u, {u}, manifest[u].deps, TRUE)

(* The dependencies are read up to the first that differs. *)
CheckDependencies(u) ==
  /\ phase = "check" /\ u \in unchecked
  /\ HasFiles(u) /\ manifest[u].hash = GetCachedModifiedTime(u)
  /\ \/ /\ Differs(u) = {}
        /\ Checked(u, {u} \cup Recorded(u), manifest[u].deps, FALSE)
     \/ \E first \in Differs(u), read \in SUBSET (Recorded(u) \ Differs(u)) :
          Checked(u, {u, first} \cup read, manifest[u].deps, TRUE)

(* The modified times of objects are read afresh. *)
TargetIsCurrent ==
  /\ target # NoObjects /\ targetManifest # NoObjects
  /\ \A u \in Units :
       object[u].stamp # 0 /\ targetManifest[u] = object[u].stamp

(* Bug: the output is not looked at. *)
NoFileOutOfDate == \A u \in Units : task[u] = "none"

UpToDate == TargetIsCurrent /\ \A u \in Units : task[u] = "none"

ReportUpToDate ==
  /\ phase = "check" /\ unchecked = {}
  /\ UpToDate
  /\ End("upToDate")
  /\ UNCHANGED disk

(* There is a task per file that is out of date, and one that links. *)
GetTasks ==
  /\ phase = "check" /\ unchecked = {}
  /\ ~ UpToDate
  /\ phase' = "build"
  /\ linkTask' = "queued"
  /\ UNCHANGED << stamp, disk, cache, info, unchecked, task, failed, result,
                  edited, raced, builds >>

----------------------------------------------------------------------------
(* The tasks, by stages: precompiled header, compile, link.                *)

(* A task looks at the failure flag, then runs the compiler. *)
MayCompile(u) ==
  /\ phase = "build"
  /\ ~ failed
  /\ task[u] = "queued"
  /\ u # Pch => task[Pch] \notin {"queued", "written"}

WriteObject(u) ==
  object' = [object EXCEPT ![u] = [stamp |-> builds, from |-> Consumed(u)]]

Compile(u) ==
  /\ MayCompile(u)
  /\ WriteObject(u)
  /\ task' = [task EXCEPT ![u] = "written"]
  /\ UNCHANGED << stamp, manifest, target, targetManifest, phase, cache, info,
                  unchecked, linkTask, failed, result, edited, raced, builds >>

Fail(u) ==
  /\ failed' = TRUE
  /\ task' = [task EXCEPT ![u] = "done"]
  /\ UNCHANGED << stamp, manifest, target, targetManifest, phase, cache, info,
                  unchecked, linkTask, result, edited, raced, builds >>

(* The compiler finds an error: the old object stays or is deleted. *)
CompileFails(u) ==
  /\ MayCompile(u)
  /\ object' \in {object, [object EXCEPT ![u] = NoObject]}
  /\ Fail(u)

(* The compiler wrote the object, and its warnings are fatal. *)
RejectOutput(u) ==
  /\ task[u] = "written"
  /\ Fail(u)
  /\ UNCHANGED object

(* What a file inherits is the copy of the precompiled file's information  *)
(* that GetTasks made before that file was compiled.                       *)
DependenciesOf(u) ==
  [f \in Files |->
     IF f \in OutputDependencyPaths(u) THEN GetCachedModifiedTime(f)
     ELSE IF u # Pch THEN info[Pch].deps[f]
     ELSE 0]

(* Bug: the file is hashed once more when it has been compiled. *)
UpdateWithFreshHash(u) ==
  /\ task[u] = "written"
  /\ manifest' = [manifest EXCEPT ![u] =
                    [hash |-> stamp[u], deps |-> DependenciesOf(u)]]
  /\ cache' = CacheAfter(OutputDependencyPaths(u))
  /\ task' = [task EXCEPT ![u] = "done"]
  /\ UNCHANGED << stamp, object, target, targetManifest, phase, info, unchecked,
                  linkTask, failed, result, edited, raced, builds >>

UpdateDependencyManifest(u) ==
  /\ task[u] = "written"
  /\ manifest' = [manifest EXCEPT ![u] =
                    [hash |-> info[u].hash, deps |-> DependenciesOf(u)]]
  /\ cache' = CacheAfter(OutputDependencyPaths(u))
  /\ task' = [task EXCEPT ![u] = "done"]
  /\ UNCHANGED << stamp, object, target, targetManifest, phase, info, unchecked,
                  linkTask, failed, result, edited, raced, builds >>

MayLink ==
  /\ phase = "build" /\ linkTask = "queued"
  /\ ~ failed
  /\ \A u \in Units : task[u] \in {"none", "done"}

Link ==
  /\ MayLink
  /\ target' = [u \in Units |-> object[u].stamp]
  /\ linkTask' = "written"
  /\ UNCHANGED << stamp, object, manifest, targetManifest, phase, cache, info,
                  unchecked, task, failed, result, edited, raced, builds >>

(* The linker finds an error: the old output stays or is deleted. *)
LinkFails ==
  /\ MayLink
  /\ target' \in {target, NoObjects}
  /\ End("failed")
  /\ UNCHANGED << object, manifest, targetManifest >>

(* The linker wrote the output, and its warnings are fatal. *)
RejectLink ==
  /\ linkTask = "written"
  /\ End("failed")
  /\ UNCHANGED disk

UpdateLinkDependencies ==
  /\ linkTask = "written"
  /\ targetManifest' = [u \in Units |-> object[u].stamp]
  /\ End("built")
  /\ UNCHANGED << object, manifest, target >>

(* The tasks that started have ended, and the others are skipped. *)
ReportFailure ==
  /\ phase = "build"
  /\ failed
  /\ \A u \in Units : task[u] # "written"
  /\ End("failed")
  /\ UNCHANGED disk

Next ==
  \/ \E f \in Files : Edit(f)
  \/ Kill
  \/ StartBuild
  \/ StartRebuild
  \/ CleanFails
  \/ \E u \in Units : \/ CheckMissing(u)
                       \/ CheckHash(u)
                       \/ CheckDependencies(u)
  \/ ReportUpToDate
  \/ GetTasks
  \/ \E u \in Units : \/ Compile(u)
                       \/ CompileFails(u)
                       \/ RejectOutput(u)
                       \/ UpdateDependencyManifest(u)
  \/ Link
  \/ LinkFails
  \/ RejectLink
  \/ UpdateLinkDependencies
  \/ ReportFailure

Spec == Init /\ [][Next]_vars

----------------------------------------------------------------------------
(* What the next process would find, that has nothing cached.              *)

Vouched(u) ==
  /\ HasFiles(u)
  /\ manifest[u].hash = stamp[u]
  /\ \A f \in Recorded(u) : manifest[u].deps[f] = stamp[f]

(* A source file that was edited after it was compiled is compiled again,  *)
(* whenever the edit came: before, while or after the compiler ran, or     *)
(* before a build that was killed or failed.  Wherever the manifest has    *)
(* the present hash, the object was made from the present text             *)
(* (BuilderFileInfo.cpp, CheckOutOfDate).                                  *)
SourceEditsAreSeen ==
  \A u \in Units :
    HasFiles(u) /\ manifest[u].hash = stamp[u] => object[u].from[u] = stamp[u]

(* The same for the headers that the manifest records, inherited ones      *)
(* included, unless the edit came in the process that first read the       *)
(* header and before it did (BuilderFileInfo.cpp, GetCachedModifiedTime).  *)
HeaderEditsAreSeen ==
  \A u \in Units : Vouched(u) =>
    \A h \in Recorded(u) \ raced : object[u].from[h] = stamp[h]

(* When Build says that the project is up to date and nobody edits a file  *)
(* meanwhile, the output is linked from the objects there are, and each    *)
(* was made from the present text of the file and of what the compiler     *)
(* said it opened (Builder.cpp, bUpToDate).                                *)
UpToDateIsCurrent ==
  result = "upToDate" /\ ~ edited =>
    \A u \in Units :
      /\ target[u] = object[u].stamp /\ target[u] # 0
      /\ \A f \in ({u} \cup OutputDependencyPaths(u)) \ raced :
           object[u].from[f] = stamp[f]

(* A build that succeeds with no edit meanwhile leaves nothing to do: the  *)
(* next would find the output current, and each file as well, where the    *)
(* precompiled header is not what was rebuilt (a file that is compiled     *)
(* with it inherits the dependencies it had before).                       *)
NothingLeftToDo ==
  result = "built" /\ ~ edited =>
    /\ TargetIsCurrent
    /\ Vouched(Pch)
    /\ object[Pch].stamp < builds => \A u \in Units : Vouched(u)

(* "Keeps track of the hashes and paths to all other files the source file *)
(* is dependent on." (BuilderFileInfo.h, Dependencies): a manifest that    *)
(* vouches for an object names every header that the object was made from. *)
ManifestNamesEveryHeader ==
  \A u \in Units : Vouched(u) =>
    \A h \in Headers : object[u].from[h] # 0 => h \in Recorded(u)

=============================================================================
