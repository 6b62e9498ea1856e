----------------------- MODULE IncrementalBuildProofs -----------------------
(***************************************************************************)
(* Proofs about IncrementalBuild: its types, that no edit of a source file *)
(* or a header is lost, whatever files the project has and however edits,  *)
(* kills and failures fall, and that what a process says as it ends is so. *)
(*                                                                         *)
(* The hash of a file never runs ahead of the text that was compiled: it   *)
(* is read before the compiler runs, stamps only grow, and so              *)
(*     manifest hash <= stamp the object was made from <= present stamp.   *)
(* If the ends are equal, so is the middle.                                *)
(***************************************************************************)
EXTENDS IncrementalBuild, TLAPS

Info == [hash : Nat, deps : [Files -> Nat]]
Made == [stamp : Nat, from : [Files -> Nat]]

(* Stamps that are read are never later than the file's. *)
StampsAreRead ==
  /\ \A f \in Files : cache[f] <= stamp[f]
  /\ \A u \in Units : info[u].hash <= stamp[u]
  /\ \A u \in Units : manifest[u].hash <= stamp[u]
  /\ \A u \in Units : object[u].from[u] <= stamp[u]

(* The hash of a file was read before its object was made. *)
HashBeforeObject ==
  /\ \A u \in Units : task[u] = "written" => info[u].hash <= object[u].from[u]
  /\ \A u \in Units : HasFiles(u) => manifest[u].hash <= object[u].from[u]

IndInv == TypeOK /\ StampsAreRead /\ HashBeforeObject

----------------------------------------------------------------------------
(* What the operators return. *)

LEMMA Functions ==
  /\ NoStamps \in [Files -> Nat] /\ \A f \in Files : NoStamps[f] = 0
  /\ NoObjects \in [Units -> Nat]
  /\ NoObject \in Made /\ NoManifest \in Info
  /\ NoManifest.hash = 0 /\ NoObject.stamp = 0 /\ NoObject.from = NoStamps
  /\ Units \subseteq Files /\ Headers \subseteq Files /\ Pch \in Units
BY PchAssumption DEF NoStamps, NoObjects, NoObject, NoManifest, Made, Info, Files

(* Only a process has output to look at. *)
LEMMA InMemory ==
  ASSUME IndInv, NEW u \in Units, task[u] = "written"
  PROVE  phase # "idle"
<1>. SUFFICES ASSUME phase = "idle" PROVE FALSE
  OBVIOUS
<1>1. task = [v \in Units |-> "none"]
  BY DEF IndInv, TypeOK, NothingInMemory
<1>2. task[u] = "none"
  BY <1>1
<1>3. QED
  BY <1>2

LEMMA CacheAfterType ==
  ASSUME TypeOK, StampsAreRead, NEW read
  PROVE  /\ CacheAfter(read) \in [Files -> Nat]
         /\ \A f \in Files : CacheAfter(read)[f] <= stamp[f]
BY DEF TypeOK, StampsAreRead, CacheAfter, GetCachedModifiedTime

LEMMA CachedTime ==
  ASSUME TypeOK, StampsAreRead, NEW f \in Files
  PROVE  GetCachedModifiedTime(f) \in Nat /\ GetCachedModifiedTime(f) <= stamp[f]
BY DEF TypeOK, StampsAreRead, GetCachedModifiedTime

LEMMA ConsumedType ==
  ASSUME TypeOK, NEW u \in Units
  PROVE  Consumed(u) \in [Files -> Nat] /\ Consumed(u)[u] = stamp[u]
<1>1. Pch \in Units /\ u \in Files
  BY Functions
<1>2. object[Pch].from \in [Files -> Nat] /\ stamp \in [Files -> Nat]
  BY <1>1 DEF TypeOK
<1>3. QED
  BY <1>1, <1>2 DEF Consumed

LEMMA DependenciesType ==
  ASSUME TypeOK, StampsAreRead, NEW u \in Units
  PROVE  DependenciesOf(u) \in [Files -> Nat]
<1>1. info[Pch].deps \in [Files -> Nat]
  BY Functions DEF TypeOK
<1>2. QED
  BY <1>1, CachedTime DEF DependenciesOf

(* A process that ends leaves the invariant, with what is on the disk.     *)
LEMMA EndKeeps ==
  ASSUME IndInv, NEW outcome \in {"upToDate", "built", "failed", "killed"},
         End(outcome),
         object' = object,
         manifest' = manifest,
         target' \in [Units -> Nat],
         targetManifest' \in [Units -> Nat]
  PROVE  IndInv'
<1>1. TypeOK'
  BY Functions DEF IndInv, TypeOK, NothingInMemory, End, Info, Made
<1>2. StampsAreRead'
  BY Functions DEF IndInv, TypeOK, StampsAreRead, End, Info, Made
<1>3. HashBeforeObject'
  BY DEF IndInv, TypeOK, HashBeforeObject, HasFiles, End
<1>4. QED
  BY <1>1, <1>2, <1>3 DEF IndInv

(* One call of CheckOutOfDate. *)
LEMMA CheckedKeeps ==
  ASSUME IndInv, NEW u \in Units, NEW read, NEW dependencies \in [Files -> Nat],
         NEW outOfDate \in BOOLEAN, phase = "check",
         Checked(u, read, dependencies, outOfDate)
  PROVE  IndInv'
<1>1. GetCachedModifiedTime(u) \in Nat /\ GetCachedModifiedTime(u) <= stamp[u]
  BY CachedTime, Functions DEF IndInv
<1>2. /\ cache' \in [Files -> Nat]
      /\ \A f \in Files : cache'[f] <= stamp[f]
  BY CacheAfterType DEF IndInv, Checked
<1>3. info' \in [Units -> Info] /\ \A v \in Units : info'[v].hash <= stamp[v]
  BY <1>1 DEF IndInv, TypeOK, StampsAreRead, Checked, Info
<1>4. /\ task' \in [Units -> {"none", "queued", "written", "done"}]
      /\ \A v \in Units : task'[v] = "written" => v # u /\ task[v] = "written"
  BY DEF IndInv, TypeOK, Checked
<1>5. /\ unchecked' \subseteq Units
      /\ UNCHANGED << stamp, disk, phase, linkTask, failed, result, edited, raced,
                      builds >>
  BY DEF IndInv, TypeOK, Checked
<1>6. TypeOK'
  BY <1>2, <1>3, <1>4, <1>5 DEF IndInv, TypeOK, Info, disk
<1>7. StampsAreRead'
  BY <1>2, <1>3, <1>5 DEF IndInv, StampsAreRead, disk
<1>8. HashBeforeObject'
  <2>1. \A v \in Units : v # u => info'[v] = info[v]
    BY DEF IndInv, TypeOK, Checked
  <2>2. QED
    BY <1>4, <1>5, <2>1 DEF IndInv, HashBeforeObject, HasFiles, disk
<1>9. QED
  BY <1>6, <1>7, <1>8 DEF IndInv

(* A file is saved: its stamp grows, and the others stay. *)
LEMMA EditKeeps ==
  ASSUME IndInv, NEW f \in Files, Edit(f)
  PROVE  IndInv'
<1>1. /\ stamp' \in [Files -> Nat \ {0}]
      /\ \A g \in Files : stamp[g] <= stamp'[g]
  BY DEF IndInv, TypeOK, Edit
<1>2. raced' \subseteq Headers /\ edited' = TRUE
  BY DEF IndInv, TypeOK, Edit
<1>3. UNCHANGED << disk, memory, result, builds >>
  BY DEF Edit
<1>4. TypeOK'
  BY <1>1, <1>2, <1>3 DEF IndInv, TypeOK, NothingInMemory, disk, memory
<1>5. StampsAreRead'
  <2>1. Units \subseteq Files
    BY Functions
  <2>2. /\ stamp \in [Files -> Nat] /\ cache \in [Files -> Nat]
        /\ \A u \in Units : /\ info[u].hash \in Nat /\ manifest[u].hash \in Nat
                            /\ object[u].from \in [Files -> Nat]
    BY DEF IndInv, TypeOK
  <2>3. \A u \in Units : object[u].from[u] \in Nat
    BY <2>1, <2>2
  <2>4. QED
    BY <1>1, <1>3, <2>1, <2>2, <2>3 DEF IndInv, StampsAreRead, disk, memory
<1>6. HashBeforeObject'
  BY <1>3 DEF IndInv, HashBeforeObject, HasFiles, disk, memory
<1>7. QED
  BY <1>4, <1>5, <1>6 DEF IndInv

(* Files of a project that is not being built disappear. *)
LEMMA RemovalKeeps ==
  ASSUME IndInv, phase = "idle",
         NEW objects \in SUBSET Units, NEW manifests \in SUBSET Units,
         object' = [u \in Units |-> IF u \in objects THEN NoObject ELSE object[u]],
         manifest' =
           [u \in Units |-> IF u \in manifests THEN NoManifest ELSE manifest[u]],
         UNCHANGED << stamp, cache, info, task >>
  PROVE  /\ object' \in [Units -> Made] /\ manifest' \in [Units -> Info]
         /\ StampsAreRead' /\ HashBeforeObject'
<1>1. object' \in [Units -> Made] /\ manifest' \in [Units -> Info]
  BY Functions DEF IndInv, TypeOK, Made, Info
<1>2. StampsAreRead'
  BY Functions DEF IndInv, TypeOK, StampsAreRead
<1>3. HashBeforeObject'
  <2>1. \A u \in Units : task'[u] # "written"
    BY DEF IndInv, TypeOK, NothingInMemory
  <2>2. \A u \in Units : HasFiles(u)' =>
          object'[u] = object[u] /\ manifest'[u] = manifest[u]
    BY Functions DEF HasFiles
  <2>3. QED
    BY <2>1, <2>2 DEF IndInv, HashBeforeObject, HasFiles
<1>4. QED
  BY <1>1, <1>2, <1>3

LEMMA StartBuildKeeps == ASSUME IndInv, StartBuild PROVE IndInv'
<1>1. TypeOK'
  <2>1. builds' \in Nat /\ unchecked' \subseteq Units /\ phase' = "check"
        /\ edited' = FALSE /\ result' = "none"
    BY DEF IndInv, TypeOK, StartBuild, Start, Check
  <2>2. UNCHANGED << stamp, disk, cache, info, task, linkTask, failed, raced >>
    BY DEF StartBuild, Start, Check
  <2>3. QED
    BY <2>1, <2>2 DEF IndInv, TypeOK, disk
<1>2. StampsAreRead' /\ HashBeforeObject'
  BY DEF IndInv, StampsAreRead, HashBeforeObject, HasFiles, StartBuild, Start,
         Check, disk
<1>3. QED
  BY <1>1, <1>2 DEF IndInv

LEMMA StartRebuildKeeps == ASSUME IndInv, StartRebuild PROVE IndInv'
<1>1. /\ object' \in [Units -> Made] /\ manifest' \in [Units -> Info]
      /\ StampsAreRead' /\ HashBeforeObject'
  <2>1. /\ object' = [u \in Units |-> IF u \in Units THEN NoObject ELSE object[u]]
        /\ manifest' =
             [u \in Units |-> IF u \in Units THEN NoManifest ELSE manifest[u]]
        /\ UNCHANGED << stamp, cache, info, task >> /\ phase = "idle"
    BY DEF StartRebuild, Start, Check
  <2>2. QED
    BY <2>1, RemovalKeeps
<1>2. TypeOK'
  <2>1. builds' \in Nat /\ unchecked' \subseteq Units /\ phase' = "check"
        /\ edited' = FALSE /\ result' = "none"
    BY DEF IndInv, TypeOK, StartRebuild, Start, Check
  <2>2. UNCHANGED << stamp, cache, info, task, linkTask, failed, raced >>
    BY DEF StartRebuild, Start, Check
  <2>3. target' \in [Units -> Nat] /\ targetManifest' \in [Units -> Nat]
    BY Functions DEF IndInv, TypeOK, StartRebuild
  <2>4. QED
    BY <1>1, <2>1, <2>2, <2>3 DEF IndInv, TypeOK, Made, Info
<1>3. QED
  BY <1>1, <1>2 DEF IndInv

LEMMA CleanFailsKeeps == ASSUME IndInv, CleanFails PROVE IndInv'
<1>1. /\ object' \in [Units -> Made] /\ manifest' \in [Units -> Info]
      /\ StampsAreRead' /\ HashBeforeObject'
  <2>1. PICK objects, manifests \in SUBSET Units :
          /\ object' =
               [u \in Units |-> IF u \in objects THEN NoObject ELSE object[u]]
          /\ manifest' =
               [u \in Units |-> IF u \in manifests THEN NoManifest ELSE manifest[u]]
    BY DEF CleanFails
  <2>2. phase = "idle" /\ UNCHANGED << stamp, cache, info, task >>
    BY DEF CleanFails, memory
  <2>3. QED
    BY <2>1, <2>2, RemovalKeeps
<1>2. TypeOK'
  <2>1. builds' \in Nat /\ edited' = FALSE /\ result' = "failed"
    BY DEF IndInv, TypeOK, CleanFails
  <2>2. UNCHANGED << stamp, target, memory, raced >>
    BY DEF CleanFails
  <2>3. targetManifest' \in [Units -> Nat]
    BY Functions DEF IndInv, TypeOK, CleanFails
  <2>4. QED
    BY <1>1, <2>1, <2>2, <2>3
       DEF IndInv, TypeOK, NothingInMemory, memory, Made, Info
<1>3. QED
  BY <1>1, <1>2 DEF IndInv

(* The three ways that CheckOutOfDate ends. *)
LEMMA CheckKeeps ==
  ASSUME IndInv, NEW u \in Units,
         CheckMissing(u) \/ CheckHash(u) \/ CheckDependencies(u)
  PROVE  IndInv'
<1>1. manifest[u].deps \in [Files -> Nat] /\ NoStamps \in [Files -> Nat]
  BY Functions DEF IndInv, TypeOK
<1>2. CASE CheckMissing(u)
  BY <1>1, <1>2, CheckedKeeps DEF CheckMissing
<1>3. CASE CheckHash(u)
  BY <1>1, <1>3, CheckedKeeps DEF CheckHash
<1>4. CASE CheckDependencies(u)
  BY <1>1, <1>4, CheckedKeeps DEF CheckDependencies
<1>5. QED
  BY <1>2, <1>3, <1>4

LEMMA GetTasksKeeps == ASSUME IndInv, GetTasks PROVE IndInv'
<1>1. TypeOK'
  BY DEF IndInv, TypeOK, GetTasks, disk
<1>2. StampsAreRead' /\ HashBeforeObject'
  BY DEF IndInv, StampsAreRead, HashBeforeObject, HasFiles, GetTasks, disk
<1>3. QED
  BY <1>1, <1>2 DEF IndInv

(* The compiler reads the present text, which is no older than the hash.   *)
LEMMA CompileKeeps == ASSUME IndInv, NEW u \in Units, Compile(u) PROVE IndInv'
<1>1. Consumed(u) \in [Files -> Nat] /\ Consumed(u)[u] = stamp[u]
  BY ConsumedType DEF IndInv
<1>2. builds \in Nat /\ phase = "build" /\ object \in [Units -> Made]
  BY DEF IndInv, TypeOK, Compile, MayCompile, Made
<1>3. /\ object' \in [Units -> Made]
      /\ object'[u].from[u] = stamp[u]
      /\ \A v \in Units : v # u => object'[v] = object[v]
  BY <1>1, <1>2 DEF Compile, WriteObject, Made
<1>4. /\ task' \in [Units -> {"none", "queued", "written", "done"}]
      /\ \A v \in Units : v # u => task'[v] = task[v]
  BY DEF IndInv, TypeOK, Compile
<1>5. UNCHANGED << stamp, manifest, target, targetManifest, phase, cache, info,
                   unchecked, linkTask, failed, result, edited, raced, builds >>
  BY DEF Compile
<1>6. TypeOK'
  BY <1>2, <1>3, <1>4, <1>5 DEF IndInv, TypeOK, Made
<1>7. StampsAreRead'
  <2>1. stamp[u] \in Nat
    BY Functions DEF IndInv, TypeOK
  <2>2. QED
    BY <1>3, <1>5, <2>1 DEF IndInv, StampsAreRead
<1>8. HashBeforeObject'
  <2>1. info[u].hash <= stamp[u] /\ manifest[u].hash <= stamp[u]
    BY DEF IndInv, StampsAreRead
  <2>2. QED
    BY <1>3, <1>4, <1>5, <2>1 DEF IndInv, HashBeforeObject, HasFiles
<1>9. QED
  BY <1>6, <1>7, <1>8 DEF IndInv

(* A compile that fails leaves the object or none. *)
LEMMA FailKeeps ==
  ASSUME IndInv, NEW u \in Units, phase # "idle", Fail(u),
         object' \in {object, [object EXCEPT ![u] = NoObject]}
  PROVE  IndInv'
<1>1. object' \in [Units -> Made]
  BY Functions DEF IndInv, TypeOK, Made
<1>2. /\ \A v \in Units : v # u => object'[v] = object[v]
      /\ object'[u] = object[u] \/ object'[u] = NoObject
  BY DEF IndInv, TypeOK
<1>3. /\ task' \in [Units -> {"none", "queued", "written", "done"}]
      /\ \A v \in Units : task'[v] = "written" => v # u /\ task[v] = "written"
      /\ failed' = TRUE
  BY DEF IndInv, TypeOK, Fail
<1>4. UNCHANGED << stamp, manifest, target, targetManifest, phase, cache, info,
                   unchecked, linkTask, result, edited, raced, builds >>
  BY DEF Fail
<1>5. TypeOK'
  BY <1>1, <1>3, <1>4 DEF IndInv, TypeOK, Made
<1>6. StampsAreRead'
  <2>1. NoObject.from[u] = 0 /\ stamp[u] \in Nat
    BY Functions DEF IndInv, TypeOK
  <2>2. QED
    BY <1>2, <1>4, <2>1 DEF IndInv, StampsAreRead
<1>7. HashBeforeObject'
  BY <1>2, <1>3, <1>4, Functions DEF IndInv, HashBeforeObject, HasFiles
<1>8. QED
  BY <1>5, <1>6, <1>7 DEF IndInv

(* The manifest takes the hash that was read before the file was compiled. *)
LEMMA UpdateKeeps ==
  ASSUME IndInv, NEW u \in Units, UpdateDependencyManifest(u)
  PROVE  IndInv'
<1>1. DependenciesOf(u) \in [Files -> Nat]
  BY DependenciesType DEF IndInv
<1>2. info[u].hash \in Nat /\ info[u].hash <= stamp[u]
      /\ info[u].hash <= object[u].from[u]
  BY DEF IndInv, TypeOK, StampsAreRead, HashBeforeObject, UpdateDependencyManifest
<1>3. /\ manifest' \in [Units -> Info]
      /\ manifest'[u].hash = info[u].hash
      /\ \A v \in Units : v # u => manifest'[v] = manifest[v]
  BY <1>1, <1>2 DEF IndInv, TypeOK, UpdateDependencyManifest, Info
<1>4. /\ cache' \in [Files -> Nat]
      /\ \A f \in Files : cache'[f] <= stamp[f]
  BY CacheAfterType DEF IndInv, UpdateDependencyManifest
<1>5. /\ task' \in [Units -> {"none", "queued", "written", "done"}]
      /\ \A v \in Units : task'[v] = "written" => task[v] = "written"
  BY DEF IndInv, TypeOK, UpdateDependencyManifest
<1>6. phase # "idle"
  BY InMemory DEF UpdateDependencyManifest
<1>7. UNCHANGED << stamp, object, target, targetManifest, phase, info, unchecked,
                   linkTask, failed, result, edited, raced, builds >>
  BY DEF UpdateDependencyManifest
<1>8. TypeOK'
  BY <1>3, <1>4, <1>5, <1>6, <1>7 DEF IndInv, TypeOK, Info
<1>9. StampsAreRead'
  BY <1>2, <1>3, <1>4, <1>7 DEF IndInv, StampsAreRead
<1>10. HashBeforeObject'
  BY <1>2, <1>3, <1>5, <1>7 DEF IndInv, HashBeforeObject, HasFiles
<1>11. QED
  BY <1>8, <1>9, <1>10 DEF IndInv

LEMMA LinkKeeps == ASSUME IndInv, Link PROVE IndInv'
<1>1. target' \in [Units -> Nat] /\ linkTask' = "written" /\ phase = "build"
  BY DEF IndInv, TypeOK, Link, MayLink
<1>2. UNCHANGED << stamp, object, manifest, targetManifest, phase, cache, info,
                   unchecked, task, failed, result, edited, raced, builds >>
  BY DEF Link
<1>3. TypeOK'
  BY <1>1, <1>2 DEF IndInv, TypeOK
<1>4. StampsAreRead' /\ HashBeforeObject'
  BY <1>2 DEF IndInv, StampsAreRead, HashBeforeObject, HasFiles
<1>5. QED
  BY <1>3, <1>4 DEF IndInv

----------------------------------------------------------------------------
(* The theorems.                                                           *)

LEMMA InitEstablishes == Init => IndInv
<1>. SUFFICES ASSUME Init PROVE IndInv
  OBVIOUS
<1>1. TypeOK
  <2>1. /\ stamp \in [Files -> Nat \ {0}] /\ cache \in [Files -> Nat]
        /\ target \in [Units -> Nat] /\ targetManifest \in [Units -> Nat]
    BY Functions DEF Init
  <2>2. object \in [Units -> Made] /\ manifest \in [Units -> Info]
        /\ info \in [Units -> Info]
    BY Functions DEF Init
  <2>3. task \in [Units -> {"none", "queued", "written", "done"}]
    BY DEF Init
  <2>4. NothingInMemory
    BY DEF Init, NothingInMemory
  <2>5. QED
    BY <2>1, <2>2, <2>3, <2>4 DEF Init, TypeOK, Made, Info
<1>2. StampsAreRead
  BY Functions DEF Init, StampsAreRead
<1>3. HashBeforeObject
  BY Functions DEF Init, HashBeforeObject, HasFiles
<1>4. QED
  BY <1>1, <1>2, <1>3 DEF IndInv

LEMMA NextPreserves == IndInv /\ [Next]_vars => IndInv'
<1>. SUFFICES ASSUME IndInv, [Next]_vars PROVE IndInv'
  OBVIOUS
<1>. target \in [Units -> Nat] /\ targetManifest \in [Units -> Nat]
     /\ NoObjects \in [Units -> Nat]
  BY Functions DEF IndInv, TypeOK
<1>1. ASSUME NEW f \in Files, Edit(f) PROVE IndInv'
  BY <1>1, EditKeeps
<1>2. CASE Kill
  BY <1>2, EndKeeps DEF Kill, disk
<1>3. CASE StartBuild
  BY <1>3, StartBuildKeeps
<1>4. CASE StartRebuild
  BY <1>4, StartRebuildKeeps
<1>5. CASE CleanFails
  BY <1>5, CleanFailsKeeps
<1>6. ASSUME NEW u \in Units,
             CheckMissing(u) \/ CheckHash(u) \/ CheckDependencies(u)
      PROVE  IndInv'
  BY <1>6, CheckKeeps
<1>7. CASE ReportUpToDate
  BY <1>7, EndKeeps DEF ReportUpToDate, disk
<1>8. CASE GetTasks
  BY <1>8, GetTasksKeeps
<1>9. ASSUME NEW u \in Units, Compile(u) PROVE IndInv'
  BY <1>9, CompileKeeps
<1>10. ASSUME NEW u \in Units, CompileFails(u) PROVE IndInv'
  BY <1>10, FailKeeps DEF CompileFails, MayCompile
<1>11. ASSUME NEW u \in Units, RejectOutput(u) PROVE IndInv'
  <2>1. phase # "idle"
    BY <1>11, InMemory DEF RejectOutput
  <2>2. QED
    BY <1>11, <2>1, FailKeeps DEF RejectOutput
<1>12. ASSUME NEW u \in Units, UpdateDependencyManifest(u) PROVE IndInv'
  BY <1>12, UpdateKeeps
<1>13. CASE Link
  BY <1>13, LinkKeeps
<1>14. CASE LinkFails
  BY <1>14, EndKeeps DEF LinkFails
<1>15. CASE RejectLink
  BY <1>15, EndKeeps DEF RejectLink, disk
<1>16. CASE UpdateLinkDependencies
  <2>1. targetManifest' \in [Units -> Nat]
    BY <1>16 DEF IndInv, TypeOK, UpdateLinkDependencies
  <2>2. QED
    BY <1>16, <2>1, EndKeeps DEF UpdateLinkDependencies
<1>17. CASE ReportFailure
  BY <1>17, EndKeeps DEF ReportFailure, disk
<1>18. CASE UNCHANGED vars
  BY <1>18 DEF IndInv, TypeOK, NothingInMemory, StampsAreRead, HashBeforeObject, HasFiles, vars,
               disk, memory
<1>19. QED
  BY <1>1, <1>2, <1>3, <1>4, <1>5, <1>6, <1>7, <1>8, <1>9, <1>10, <1>11, <1>12,
     <1>13, <1>14, <1>15, <1>16, <1>17, <1>18 DEF Next

(* In every reachable state, no hash is ahead of the object it stands for. *)
THEOREM HashesAreNeverAhead == Spec => []IndInv
BY InitEstablishes, NextPreserves, PTL DEF Spec

(* The types, and that no memory outlives its process. *)
THEOREM TypesAreCorrect == Spec => []TypeOK
<1>1. IndInv => TypeOK
  BY DEF IndInv
<1>2. QED
  BY <1>1, HashesAreNeverAhead, PTL

LEMMA SourceSeen == IndInv => SourceEditsAreSeen
<1>. SUFFICES ASSUME IndInv, NEW u \in Units, HasFiles(u),
                     manifest[u].hash = stamp[u]
              PROVE  object[u].from[u] = stamp[u]
  BY DEF SourceEditsAreSeen
<1>1. stamp[u] \in Nat /\ object[u].from[u] \in Nat
  BY Functions DEF IndInv, TypeOK
<1>2. object[u].from[u] <= stamp[u] /\ stamp[u] <= object[u].from[u]
  BY DEF IndInv, StampsAreRead, HashBeforeObject
<1>3. QED
  BY <1>1, <1>2

(* An object whose manifest has the present hash was made from the present *)
(* text of its source file (BuilderFileInfo.cpp, CheckOutOfDate).          *)
THEOREM NoSourceEditIsLost == Spec => []SourceEditsAreSeen
BY SourceSeen, HashesAreNeverAhead, PTL

----------------------------------------------------------------------------
(* Headers.                                                                *)

(* A recorded or compiled stamp is one that the file has had. *)
BoundsInv ==
  \A u \in Units, f \in Files :
    /\ manifest[u].deps[f] <= stamp[f]
    /\ info[u].deps[f] <= stamp[f]
    /\ object[u].from[f] <= stamp[f]

(* Only what the file or the precompiled file includes is recorded. *)
NamedInv ==
  \A u \in Units, f \in Files :
    manifest[u].deps[f] # 0 \/ info[u].deps[f] # 0 => f \in Includes[u] \cup Includes[Pch]

(* A file that may be compiled finds an object of the precompiled one. *)
ProcessInv ==
  /\ phase # "idle" => builds # 0
  /\ \A u \in Units : task[u] = "written" => phase = "build"
  /\ phase = "check" /\ Pch \notin unchecked /\ task[Pch] # "queued" => object[Pch].stamp # 0
  /\ phase = "build" /\ ~ failed /\ task[Pch] # "queued" => object[Pch].stamp # 0

(* A header that nobody has looked up since it was compiled is as it was;  *)
(* one that was looked up is not older than what was compiled.             *)
ReadInv ==
  \A u \in Units : task[u] = "written" =>
    \A h \in Includes[u] \ raced :
      /\ cache[h] = 0 => object[u].from[h] = stamp[h]
      /\ cache[h] # 0 => cache[h] <= object[u].from[h]

(* What a file is about to inherit it also got from the precompiled header. *)
InheritInv ==
  \A u \in Units \ {Pch} : task[u] = "written" =>
    \A h \in Includes[Pch] \ raced :
      info[Pch].deps[h] = stamp[h] => object[u].from[h] = stamp[h]

(* Whoever records a header of the precompiled file with its present stamp, *)
(* has it from a manifest of that file, and its object has the same text.   *)
PchInv ==
  object[Pch].stamp # 0 =>
    \A h \in Includes[Pch] \ raced, u \in Units :
      info[Pch].deps[h] = stamp[h] \/ manifest[u].deps[h] = stamp[h] =>
        object[Pch].from[h] = stamp[h]

(* A header that is recorded with its present stamp was compiled with it. *)
SeenInv ==
  \A u \in Units : HasFiles(u) =>
    \A h \in Headers \ raced :
      manifest[u].deps[h] = stamp[h] => object[u].from[h] = stamp[h]

HeaderInv ==
  BoundsInv /\ NamedInv /\ ProcessInv /\ ReadInv /\ InheritInv /\ PchInv /\ SeenInv

LEMMA HeaderTypes ==
  ASSUME TypeOK
  PROVE  /\ stamp \in [Files -> Nat] /\ \A f \in Files : stamp[f] # 0
         /\ cache \in [Files -> Nat]
         /\ \A u \in Units, f \in Files :
              manifest[u].deps[f] \in Nat /\ info[u].deps[f] \in Nat /\ object[u].from[f] \in Nat
         /\ Pch \in Units /\ Headers \subseteq Files
         /\ \A u \in Units : Includes[u] \subseteq Headers /\ u \in Files /\ u \notin Headers
         /\ raced \subseteq Headers
<1>1. Pch \in Units /\ Headers \subseteq Files /\ Units \subseteq Files
  BY Functions
<1>2. \A u \in Units : Includes[u] \subseteq Headers /\ u \notin Headers
  BY IncludesAssumption, HeadersAssumption
<1>3. \A u \in Units, f \in Files :
        manifest[u].deps[f] \in Nat /\ info[u].deps[f] \in Nat /\ object[u].from[f] \in Nat
  BY DEF TypeOK
<1>4. QED
  BY <1>1, <1>2, <1>3 DEF TypeOK

LEMMA InitHeaderInv == Init => HeaderInv
<1> SUFFICES ASSUME Init PROVE HeaderInv
  OBVIOUS
<1>1. \A u \in Units, f \in Files :
        manifest[u].deps[f] = 0 /\ info[u].deps[f] = 0 /\ object[u].from[f] = 0
  BY DEF Init, NoManifest, NoObject, NoStamps
<1>2. \A f \in Files : stamp[f] = 1
  BY DEF Init
<1>3. \A u \in Units : task[u] = "none" /\ ~ HasFiles(u) /\ object[u].stamp = 0
  BY Functions DEF Init, HasFiles
<1>4. phase = "idle"
  BY DEF Init
<1>5. QED
  BY <1>1, <1>2, <1>3, <1>4, Functions
     DEF HeaderInv, BoundsInv, NamedInv, ProcessInv, ReadInv, InheritInv, PchInv, SeenInv

(* A header that is edited while a process runs has been looked up, or      *)
(* races; one that is edited in between is newer than all that is recorded. *)
LEMMA EditHeader ==
  ASSUME IndInv, HeaderInv, NEW f \in Files, Edit(f)
  PROVE  HeaderInv'
<1>1. TypeOK
  BY DEF IndInv
<1>2. /\ stamp'[f] = stamp[f] + 1
      /\ \A g \in Files : g # f => stamp'[g] = stamp[g]
  BY <1>1 DEF Edit, TypeOK
<1>3. /\ UNCHANGED << object, manifest, phase, cache, info, unchecked, task, failed, builds >>
      /\ phase # "idle" => raced \subseteq raced'
      /\ phase # "idle" /\ f \in Headers /\ cache[f] = 0 => f \in raced'
      /\ raced \subseteq raced' \cup {f}
  BY DEF Edit, disk, memory
<1>4. BoundsInv'
  BY <1>1, <1>2, <1>3, HeaderTypes DEF HeaderInv, BoundsInv
<1>5. NamedInv' /\ ProcessInv'
  BY <1>3 DEF HeaderInv, NamedInv, ProcessInv
<1>6. \A u \in Units : manifest[u].deps[f] # stamp'[f] /\ info[u].deps[f] # stamp'[f]
  BY <1>1, <1>2, HeaderTypes DEF HeaderInv, BoundsInv
<1>7. \A u \in Units : task[u] = "written" => phase # "idle"
  BY InMemory
<1>8. ReadInv'
  <2> SUFFICES ASSUME NEW u \in Units, task[u] = "written", NEW h \in Includes[u] \ raced'
               PROVE  /\ cache[h] = 0 => object[u].from[h] = stamp'[h]
                      /\ cache[h] # 0 => cache[h] <= object[u].from[h]
    BY <1>3 DEF ReadInv
  <2>1. h \in Headers /\ h \in Files /\ h \notin raced
    BY <1>1, <1>3, <1>7, HeaderTypes
  <2>2. cache[h] = 0 => h # f
    BY <1>3, <1>7, <2>1
  <2>3. QED
    BY <1>2, <2>1, <2>2 DEF HeaderInv, ReadInv
<1>9. InheritInv'
  <2> SUFFICES ASSUME NEW u \in Units \ {Pch}, task[u] = "written",
                      NEW h \in Includes[Pch] \ raced', info[Pch].deps[h] = stamp'[h]
               PROVE  object[u].from[h] = stamp'[h]
    BY <1>3 DEF InheritInv
  <2>1. h \in Files /\ h # f /\ h \notin raced
    BY <1>1, <1>3, <1>6, <1>7, HeaderTypes
  <2>2. QED
    BY <1>2, <2>1 DEF HeaderInv, InheritInv
<1>10. PchInv'
  <2> SUFFICES ASSUME object[Pch].stamp # 0, NEW h \in Includes[Pch] \ raced', NEW u \in Units,
                      info[Pch].deps[h] = stamp'[h] \/ manifest[u].deps[h] = stamp'[h]
               PROVE  object[Pch].from[h] = stamp'[h]
    BY <1>3 DEF PchInv
  <2>1. h \in Files /\ h # f /\ h \notin raced
    BY <1>1, <1>3, <1>6, HeaderTypes
  <2>2. QED
    BY <1>2, <2>1 DEF HeaderInv, PchInv
<1>11. SeenInv'
  <2> SUFFICES ASSUME NEW u \in Units, HasFiles(u), NEW h \in Headers \ raced',
                      manifest[u].deps[h] = stamp'[h]
               PROVE  object[u].from[h] = stamp'[h]
    BY <1>3 DEF SeenInv, HasFiles
  <2>1. h \in Files /\ h # f /\ h \notin raced
    BY <1>1, <1>3, <1>6, HeaderTypes
  <2>2. QED
    BY <1>2, <2>1 DEF HeaderInv, SeenInv
<1>12. QED
  BY <1>4, <1>5, <1>8, <1>9, <1>10, <1>11 DEF HeaderInv

(* A process that ends takes nothing from the disk. *)
LEMMA EndHeader ==
  ASSUME IndInv, HeaderInv, NEW outcome, End(outcome), UNCHANGED << object, manifest >>
  PROVE  HeaderInv'
<1>1. TypeOK
  BY DEF IndInv
<1>2. /\ UNCHANGED << stamp, raced, object, manifest, builds >>
      /\ phase' = "idle"
      /\ \A u \in Units : task'[u] = "none"
      /\ \A u \in Units, f \in Files : info'[u].deps[f] = 0
  BY DEF End, NoManifest, NoStamps
<1>3. BoundsInv' /\ NamedInv'
  BY <1>1, <1>2, HeaderTypes DEF HeaderInv, BoundsInv, NamedInv
<1>4. ProcessInv' /\ ReadInv' /\ InheritInv'
  BY <1>2 DEF ProcessInv, ReadInv, InheritInv
<1>5. PchInv'
  BY <1>1, <1>2, HeaderTypes DEF HeaderInv, PchInv
<1>6. SeenInv'
  BY <1>2 DEF HeaderInv, SeenInv, HasFiles
<1>7. QED
  BY <1>3, <1>4, <1>5, <1>6 DEF HeaderInv

(* What is deleted between two processes vouches for nothing. *)
LEMMA RemovalHeader ==
  ASSUME IndInv, HeaderInv, phase = "idle",
         UNCHANGED << stamp, cache, info, task, failed, raced >>,
         phase' # "idle" => builds' # 0 /\ unchecked' = Units,
         phase' # "build",
         \A u \in Units : object'[u] \in {object[u], NoObject},
         \A u \in Units : manifest'[u] \in {manifest[u], NoManifest}
  PROVE  HeaderInv'
<1>1. TypeOK
  BY DEF IndInv
<1>2. /\ \A f \in Files : NoObject.from[f] = 0 /\ NoManifest.deps[f] = 0
      /\ NoObject.stamp = 0 /\ NoManifest.hash = 0
  BY DEF NoObject, NoManifest, NoStamps
<1>3. \A u \in Units : task[u] # "written"
  BY InMemory
<1>4. BoundsInv' /\ NamedInv'
  BY <1>1, <1>2, HeaderTypes DEF HeaderInv, BoundsInv, NamedInv
<1>5. ProcessInv' /\ ReadInv' /\ InheritInv'
  BY <1>1, <1>3, HeaderTypes DEF ProcessInv, ReadInv, InheritInv
<1>6. PchInv'
  BY <1>1, <1>2, HeaderTypes DEF HeaderInv, PchInv
<1>7. SeenInv'
  <2>1. \A u \in Units : HasFiles(u)' => HasFiles(u) /\ object'[u] = object[u]
                                         /\ manifest'[u] = manifest[u]
    BY <1>2 DEF HasFiles
  <2>2. QED
    BY <2>1 DEF HeaderInv, SeenInv
<1>8. QED
  BY <1>4, <1>5, <1>6, <1>7 DEF HeaderInv

(* What a check loads of the precompiled file comes from its manifest. *)
LEMMA CheckedHeader ==
  ASSUME IndInv, HeaderInv, NEW u \in Units, NEW read, NEW dependencies, NEW outOfDate \in BOOLEAN,
         phase = "check",
         dependencies \in {NoStamps, manifest[u].deps},
         outOfDate \/ object[u].stamp # 0,
         Checked(u, read, dependencies, outOfDate)
  PROVE  HeaderInv'
<1>1. TypeOK
  BY DEF IndInv
<1>2. /\ UNCHANGED << stamp, object, manifest, phase, failed, raced, builds >>
      /\ info'[u].deps = dependencies
      /\ \A v \in Units : v # u => info'[v] = info[v]
      /\ task'[u] = IF outOfDate THEN "queued" ELSE "none"
      /\ \A v \in Units : v # u => task'[v] = task[v]
      /\ unchecked' = unchecked \ {u}
  BY <1>1 DEF Checked, disk, TypeOK
<1>3. \A f \in Files : dependencies[f] = 0 \/ dependencies[f] = manifest[u].deps[f]
  BY DEF NoStamps
<1>4. \A v \in Units : task'[v] # "written"
  BY <1>2 DEF HeaderInv, ProcessInv
<1>5. BoundsInv' /\ NamedInv'
  BY <1>1, <1>2, <1>3, HeaderTypes DEF HeaderInv, BoundsInv, NamedInv
<1>6. ProcessInv' /\ ReadInv' /\ InheritInv'
  <2>1. Pch \notin unchecked' /\ task'[Pch] # "queued" => object[Pch].stamp # 0
    <3>1. CASE u = Pch
      BY <1>2, <3>1
    <3>2. CASE u # Pch
      BY <1>1, <1>2, <3>2, HeaderTypes DEF HeaderInv, ProcessInv
    <3>3. QED
      BY <3>1, <3>2
  <2>2. ProcessInv'
    BY <1>2, <1>4, <2>1 DEF HeaderInv, ProcessInv
  <2>3. QED
    BY <1>4, <2>2 DEF ReadInv, InheritInv
<1>7. PchInv'
  <2> SUFFICES ASSUME object[Pch].stamp # 0, NEW h \in Includes[Pch] \ raced, NEW v \in Units,
                      info'[Pch].deps[h] = stamp[h] \/ manifest[v].deps[h] = stamp[h]
               PROVE  object[Pch].from[h] = stamp[h]
    BY <1>2 DEF PchInv
  <2>1. h \in Files /\ stamp[h] # 0 /\ Pch \in Units
    BY <1>1, HeaderTypes
  <2>2. \/ info[Pch].deps[h] = stamp[h]
        \/ \E w \in Units : manifest[w].deps[h] = stamp[h]
    <3>1. CASE u = Pch
      BY <1>2, <1>3, <2>1, <3>1
    <3>2. CASE u # Pch
      BY <1>2, <2>1, <3>2
    <3>3. QED
      BY <3>1, <3>2
  <2>3. QED
    BY <2>2 DEF HeaderInv, PchInv
<1>8. SeenInv'
  BY <1>2 DEF HeaderInv, SeenInv, HasFiles
<1>9. QED
  BY <1>5, <1>6, <1>7, <1>8 DEF HeaderInv

LEMMA GetTasksHeader == ASSUME HeaderInv, GetTasks PROVE HeaderInv'
<1>1. /\ UNCHANGED << stamp, object, manifest, cache, info, task, failed, raced, builds >>
      /\ phase = "check" /\ unchecked = {} /\ phase' = "build"
  BY DEF GetTasks, disk
<1>2. BoundsInv' /\ NamedInv' /\ ReadInv' /\ InheritInv' /\ PchInv' /\ SeenInv'
  BY <1>1 DEF HeaderInv, BoundsInv, NamedInv, ReadInv, InheritInv, PchInv, SeenInv, HasFiles
<1>3. ProcessInv'
  BY <1>1 DEF HeaderInv, ProcessInv
<1>4. QED
  BY <1>2, <1>3 DEF HeaderInv

(* A compile reads the headers as they are, or as the object of the        *)
(* precompiled file has them, which is there when others are compiled.     *)
LEMMA CompileHeader ==
  ASSUME IndInv, HeaderInv, NEW u \in Units, Compile(u)
  PROVE  HeaderInv'
<1>1. TypeOK
  BY DEF IndInv
<1>2. /\ UNCHANGED << stamp, manifest, phase, cache, info, failed, raced, builds >>
      /\ phase = "build" /\ ~ failed /\ task[u] = "queued"
      /\ u # Pch => task[Pch] # "queued"
  BY DEF Compile, MayCompile
<1>3. /\ object'[u].from = Consumed(u) /\ object'[u].stamp = builds
      /\ \A v \in Units : v # u => object'[v] = object[v]
      /\ task'[u] = "written"
      /\ \A v \in Units : v # u => task'[v] = task[v]
  BY <1>1 DEF Compile, WriteObject, TypeOK
<1>4. builds # 0 /\ (u # Pch => object[Pch].stamp # 0)
  BY <1>2 DEF HeaderInv, ProcessInv
<1>5. /\ \A h \in Includes[u] : object'[u].from[h] = stamp[h]
      /\ u # Pch => \A h \in Includes[Pch] : object'[u].from[h] = object[Pch].from[h]
      /\ \A f \in Files : object'[u].from[f] \in {0, stamp[f], object[Pch].from[f]}
  <2>1. u # Pch => Includes[u] \cap Includes[Pch] = {}
    BY GuardsAssumption
  <2>2. \A v \in Units : Includes[v] \subseteq Headers
    BY <1>1, HeaderTypes
  <2>3. u \notin Headers /\ Headers \subseteq Files /\ Pch \in Units
    BY <1>1, HeaderTypes
  <2>4. QED
    BY <1>3, <2>1, <2>2, <2>3 DEF Consumed
<1>6. BoundsInv'
  BY <1>1, <1>2, <1>3, <1>5, HeaderTypes DEF HeaderInv, BoundsInv
<1>7. NamedInv'
  BY <1>2 DEF HeaderInv, NamedInv
<1>8. ProcessInv'
  <2>1. task'[Pch] # "queued" => object'[Pch].stamp # 0
    <3>1. CASE u = Pch
      BY <1>3, <1>4, <3>1
    <3>2. CASE u # Pch
      BY <1>1, <1>2, <1>3, <1>4, <3>2, HeaderTypes
    <3>3. QED
      BY <3>1, <3>2
  <2>2. QED
    BY <1>2, <1>4, <2>1 DEF ProcessInv
<1>9. ReadInv'
  <2> SUFFICES ASSUME NEW v \in Units, task'[v] = "written", NEW h \in Includes[v] \ raced
               PROVE  /\ cache[h] = 0 => object'[v].from[h] = stamp[h]
                      /\ cache[h] # 0 => cache[h] <= object'[v].from[h]
    BY <1>2 DEF ReadInv
  <2>1. CASE v = u
    <3>1. h \in Files /\ cache[h] <= stamp[h]
      BY <1>1, HeaderTypes DEF IndInv, StampsAreRead
    <3>2. QED
      BY <1>5, <2>1, <3>1
  <2>2. CASE v # u
    BY <1>3, <2>2 DEF HeaderInv, ReadInv
  <2>3. QED
    BY <2>1, <2>2
<1>10. InheritInv'
  <2> SUFFICES ASSUME NEW v \in Units \ {Pch}, task'[v] = "written",
                      NEW h \in Includes[Pch] \ raced, info[Pch].deps[h] = stamp[h]
               PROVE  object'[v].from[h] = stamp[h]
    BY <1>2 DEF InheritInv
  <2>1. CASE v = u
    BY <1>4, <1>5, <2>1 DEF HeaderInv, PchInv
  <2>2. CASE v # u
    BY <1>3, <2>2 DEF HeaderInv, InheritInv
  <2>3. QED
    BY <2>1, <2>2
<1>11. PchInv'
  <2>1. CASE u = Pch
    BY <1>2, <1>5, <2>1 DEF PchInv
  <2>2. CASE u # Pch
    <3>1. object'[Pch] = object[Pch]
      BY <1>1, <1>3, <2>2, HeaderTypes
    <3>2. QED
      BY <1>2, <3>1 DEF HeaderInv, PchInv
  <2>3. QED
    BY <2>1, <2>2
<1>12. SeenInv'
  <2> SUFFICES ASSUME NEW v \in Units, HasFiles(v)', NEW h \in Headers \ raced,
                      manifest[v].deps[h] = stamp[h]
               PROVE  object'[v].from[h] = stamp[h]
    BY <1>2 DEF SeenInv
  <2>1. CASE v = u
    <3>1. h \in Includes[u] \cup Includes[Pch]
      BY <1>1, <2>1, HeaderTypes DEF HeaderInv, NamedInv
    <3>2. CASE h \in Includes[u]
      BY <1>5, <2>1, <3>2
    <3>3. CASE h \in Includes[Pch] /\ u # Pch
      BY <1>4, <1>5, <2>1, <3>3 DEF HeaderInv, PchInv
    <3>4. QED
      BY <2>1, <3>1, <3>2, <3>3
  <2>2. CASE v # u
    BY <1>2, <1>3, <2>2 DEF HeaderInv, SeenInv, HasFiles
  <2>3. QED
    BY <2>1, <2>2
<1>13. QED
  BY <1>6, <1>7, <1>8, <1>9, <1>10, <1>11, <1>12 DEF HeaderInv

LEMMA FailHeader ==
  ASSUME IndInv, HeaderInv, NEW u \in Units, phase = "build", Fail(u),
         object' \in {object, [object EXCEPT ![u] = NoObject]}
  PROVE  HeaderInv'
<1>1. TypeOK
  BY DEF IndInv
<1>2. /\ \A v \in Units : object'[v] \in {object[v], NoObject}
      /\ \A v \in Units : v # u => object'[v] = object[v]
  BY <1>1 DEF TypeOK
<1>3. /\ UNCHANGED << stamp, manifest, phase, cache, info, unchecked, raced, builds >>
      /\ failed' = TRUE
      /\ \A v \in Units : task'[v] = "written" => v # u /\ task[v] = "written"
  BY <1>1 DEF Fail, TypeOK
<1>4. NoObject.stamp = 0 /\ \A f \in Files : NoObject.from[f] = 0
  BY DEF NoObject, NoStamps
<1>5. BoundsInv' /\ NamedInv'
  BY <1>1, <1>2, <1>3, <1>4, HeaderTypes DEF HeaderInv, BoundsInv, NamedInv
<1>6. ProcessInv'
  BY <1>3 DEF HeaderInv, ProcessInv
<1>7. ReadInv' /\ InheritInv'
  BY <1>2, <1>3 DEF HeaderInv, ReadInv, InheritInv
<1>8. PchInv'
  BY <1>1, <1>2, <1>3, <1>4, HeaderTypes DEF HeaderInv, PchInv
<1>9. SeenInv'
  BY <1>2, <1>3, <1>4 DEF HeaderInv, SeenInv, HasFiles
<1>10. QED
  BY <1>5, <1>6, <1>7, <1>8, <1>9 DEF HeaderInv

(* The manifest takes a header's own stamp only if it was compiled with it. *)
LEMMA UpdateHeader ==
  ASSUME IndInv, HeaderInv, NEW u \in Units, UpdateDependencyManifest(u)
  PROVE  HeaderInv'
<1>1. TypeOK
  BY DEF IndInv
<1>2. /\ UNCHANGED << stamp, object, phase, info, unchecked, failed, raced, builds >>
      /\ task[u] = "written" /\ task'[u] = "done"
      /\ \A v \in Units : v # u => task'[v] = task[v]
      /\ manifest'[u].deps = DependenciesOf(u)
      /\ \A v \in Units : v # u => manifest'[v] = manifest[v]
      /\ cache' = CacheAfter(Includes[u])
  BY <1>1 DEF UpdateDependencyManifest, TypeOK, OutputDependencyPaths
<1>3. \A f \in Files : cache'[f] \in {cache[f], GetCachedModifiedTime(f)}
  BY <1>2 DEF CacheAfter
<1>4. /\ \A h \in Includes[u] : manifest'[u].deps[h] = GetCachedModifiedTime(h)
      /\ \A f \in Files \ Includes[u] :
           manifest'[u].deps[f] = IF u # Pch THEN info[Pch].deps[f] ELSE 0
  BY <1>1, <1>2, HeaderTypes DEF DependenciesOf, OutputDependencyPaths
<1>5. \A f \in Files : /\ cache[f] \in Nat /\ stamp[f] \in Nat /\ stamp[f] # 0
                       /\ cache[f] <= stamp[f]
                       /\ GetCachedModifiedTime(f) = IF cache[f] # 0 THEN cache[f] ELSE stamp[f]
  BY <1>1, HeaderTypes DEF IndInv, StampsAreRead, GetCachedModifiedTime
<1>6. \A f \in Files : f \notin Includes[u] /\ manifest'[u].deps[f] # 0
                         => u # Pch /\ f \in Includes[Pch]
  BY <1>1, <1>4, HeaderTypes DEF HeaderInv, NamedInv
<1>7. BoundsInv'
  <2>1. \A f \in Files : manifest'[u].deps[f] <= stamp[f]
    <3> TAKE f \in Files
    <3>1. CASE f \in Includes[u]
      BY <1>4, <1>5, <3>1
    <3>2. CASE f \notin Includes[u]
      BY <1>1, <1>4, <1>5, <3>2, HeaderTypes DEF HeaderInv, BoundsInv
    <3>3. QED
      BY <3>1, <3>2
  <2>2. QED
    BY <1>2, <2>1 DEF HeaderInv, BoundsInv
<1>8. NamedInv'
  BY <1>2, <1>6 DEF HeaderInv, NamedInv
<1>9. ProcessInv'
  BY <1>1, <1>2, HeaderTypes DEF HeaderInv, ProcessInv
<1>10. ReadInv'
  <2> SUFFICES ASSUME NEW v \in Units, task[v] = "written", NEW h \in Includes[v] \ raced
               PROVE  /\ cache'[h] = 0 => object[v].from[h] = stamp[h]
                      /\ cache'[h] # 0 => cache'[h] <= object[v].from[h]
    BY <1>2 DEF ReadInv
  <2>1. /\ cache[h] = 0 => object[v].from[h] = stamp[h]
        /\ cache[h] # 0 => cache[h] <= object[v].from[h]
    BY DEF HeaderInv, ReadInv
  <2>2. h \in Files
    BY <1>1, HeaderTypes
  <2>3. QED
    BY <1>3, <1>5, <2>1, <2>2
<1>11. InheritInv'
  BY <1>2 DEF HeaderInv, InheritInv
<1>12. \A h \in Includes[u] \ raced :
         manifest'[u].deps[h] = stamp[h] => object[u].from[h] = stamp[h]
  <2> TAKE h \in Includes[u] \ raced
  <2>1. /\ cache[h] = 0 => object[u].from[h] = stamp[h]
        /\ cache[h] # 0 => cache[h] <= object[u].from[h]
    BY <1>2 DEF HeaderInv, ReadInv
  <2>2. h \in Files /\ object[u].from[h] \in Nat /\ object[u].from[h] <= stamp[h]
    BY <1>1, HeaderTypes DEF HeaderInv, BoundsInv
  <2>3. QED
    BY <1>4, <1>5, <2>1, <2>2
<1>13. PchInv'
  <2> SUFFICES ASSUME object[Pch].stamp # 0, NEW h \in Includes[Pch] \ raced, NEW v \in Units,
                      info[Pch].deps[h] = stamp[h] \/ manifest'[v].deps[h] = stamp[h]
               PROVE  object[Pch].from[h] = stamp[h]
    BY <1>2 DEF PchInv
  <2>1. CASE info[Pch].deps[h] = stamp[h] \/ v # u
    BY <1>1, <1>2, <2>1, HeaderTypes DEF HeaderInv, PchInv
  <2>2. CASE v = u /\ u = Pch
    BY <1>12, <2>1, <2>2
  <2>3. CASE v = u /\ u # Pch
    <3>1. h \in Files \ Includes[u]
      BY <1>1, <2>3, GuardsAssumption, HeaderTypes
    <3>2. manifest'[u].deps[h] = info[Pch].deps[h]
      BY <1>4, <2>3, <3>1
    <3>3. QED
      BY <2>1, <2>3, <3>2
  <2>4. QED
    BY <2>1, <2>2, <2>3
<1>14. SeenInv'
  <2> SUFFICES ASSUME NEW v \in Units, HasFiles(v)', NEW h \in Headers \ raced,
                      manifest'[v].deps[h] = stamp[h]
               PROVE  object[v].from[h] = stamp[h]
    BY <1>2 DEF SeenInv
  <2>1. CASE v # u
    BY <1>2, <2>1 DEF HeaderInv, SeenInv, HasFiles
  <2>2. CASE v = u /\ h \in Includes[u]
    BY <1>12, <2>2
  <2>3. CASE v = u /\ h \notin Includes[u]
    <3>1. h \in Files /\ stamp[h] # 0
      BY <1>1, HeaderTypes
    <3>2. u # Pch /\ h \in Includes[Pch] /\ manifest'[u].deps[h] = info[Pch].deps[h]
      BY <1>4, <1>6, <2>3, <3>1
    <3>3. QED
      BY <1>2, <2>3, <3>2 DEF HeaderInv, InheritInv
  <2>4. QED
    BY <2>1, <2>2, <2>3
<1>15. QED
  BY <1>7, <1>8, <1>9, <1>10, <1>11, <1>13, <1>14 DEF HeaderInv

LEMMA LinkHeader == ASSUME HeaderInv, Link PROVE HeaderInv'
<1>1. UNCHANGED << stamp, object, manifest, phase, cache, info, unchecked, task, failed, raced,
                   builds >>
  BY DEF Link
<1>2. QED
  BY <1>1 DEF HeaderInv, BoundsInv, NamedInv, ProcessInv, ReadInv, InheritInv, PchInv, SeenInv,
              HasFiles

LEMMA NextHeaderInv == IndInv /\ HeaderInv /\ [Next]_vars => HeaderInv'
<1> SUFFICES ASSUME IndInv, HeaderInv, [Next]_vars PROVE HeaderInv'
  OBVIOUS
<1>1. ASSUME NEW f \in Files, Edit(f) PROVE HeaderInv'
  BY <1>1, EditHeader
<1>2. CASE Kill \/ ReportUpToDate \/ LinkFails \/ RejectLink \/ UpdateLinkDependencies
             \/ ReportFailure
  BY <1>2, EndHeader DEF Kill, ReportUpToDate, LinkFails, RejectLink, UpdateLinkDependencies,
                         ReportFailure, disk
<1>3. builds \in Nat
  BY DEF IndInv, TypeOK
<1>4. CASE StartBuild
  BY <1>3, <1>4, RemovalHeader DEF StartBuild, Start, Check, disk
<1>5. CASE StartRebuild
  BY <1>3, <1>5, RemovalHeader DEF StartRebuild, Start, Check
<1>6. CASE CleanFails
  <2>1. PICK objects, manifests \in SUBSET Units :
          /\ object' = [u \in Units |-> IF u \in objects THEN NoObject ELSE object[u]]
          /\ manifest' = [u \in Units |-> IF u \in manifests THEN NoManifest ELSE manifest[u]]
    BY <1>6 DEF CleanFails
  <2>2. /\ \A u \in Units : object'[u] \in {object[u], NoObject}
        /\ \A u \in Units : manifest'[u] \in {manifest[u], NoManifest}
    BY <2>1
  <2>3. phase = "idle" /\ UNCHANGED << stamp, raced, phase, cache, info, task, failed >>
    BY <1>6 DEF CleanFails, memory
  <2>4. QED
    BY <2>2, <2>3, RemovalHeader
<1>7. ASSUME NEW u \in Units, CheckMissing(u) \/ CheckHash(u) \/ CheckDependencies(u)
      PROVE  HeaderInv'
  <2>1. CASE CheckMissing(u)
    BY <2>1, CheckedHeader DEF CheckMissing
  <2>2. CASE CheckHash(u)
    BY <2>2, CheckedHeader DEF CheckHash
  <2>3. CASE CheckDependencies(u)
    BY <2>3, CheckedHeader DEF CheckDependencies, HasFiles
  <2>4. QED
    BY <1>7, <2>1, <2>2, <2>3
<1>8. CASE GetTasks
  BY <1>8, GetTasksHeader
<1>9. ASSUME NEW u \in Units, Compile(u) PROVE HeaderInv'
  BY <1>9, CompileHeader
<1>10. ASSUME NEW u \in Units, CompileFails(u) PROVE HeaderInv'
  BY <1>10, FailHeader DEF CompileFails, MayCompile
<1>11. ASSUME NEW u \in Units, RejectOutput(u) PROVE HeaderInv'
  <2>1. phase = "build"
    BY <1>11 DEF RejectOutput, HeaderInv, ProcessInv
  <2>2. QED
    BY <1>11, <2>1, FailHeader DEF RejectOutput
<1>12. ASSUME NEW u \in Units, UpdateDependencyManifest(u) PROVE HeaderInv'
  BY <1>12, UpdateHeader
<1>13. CASE Link
  BY <1>13, LinkHeader
<1>14. CASE UNCHANGED vars
  BY <1>14 DEF HeaderInv, BoundsInv, NamedInv, ProcessInv, ReadInv, InheritInv, PchInv, SeenInv,
               HasFiles, vars, disk, memory
<1>15. QED
  BY <1>1, <1>2, <1>4, <1>5, <1>6, <1>7, <1>8, <1>9, <1>10, <1>11, <1>12, <1>13, <1>14 DEF Next

LEMMA HeadersSeen == IndInv /\ HeaderInv => HeaderEditsAreSeen
<1> SUFFICES ASSUME IndInv, HeaderInv, NEW u \in Units, Vouched(u), NEW h \in Recorded(u) \ raced
             PROVE  object[u].from[h] = stamp[h]
  BY DEF HeaderEditsAreSeen
<1>1. /\ HasFiles(u) /\ h \in Files
      /\ manifest[u].deps[h] = stamp[h] /\ manifest[u].deps[h] # 0
  BY DEF Vouched, Recorded
<1>2. h \in Headers
  BY <1>1, HeaderTypes DEF IndInv, HeaderInv, NamedInv
<1>3. QED
  BY <1>1, <1>2 DEF HeaderInv, SeenInv

(* The headers' invariant, in every reachable state. *)
THEOREM HeadersAreTracked == Spec => []HeaderInv
BY InitHeaderInv, NextHeaderInv, HashesAreNeverAhead, PTL DEF Spec

(* An object whose manifest vouches for it was made from the present text  *)
(* of every header the manifest records, inherited ones included, but for  *)
(* those that raced (BuilderFileInfo.cpp, GetCachedModifiedTime).          *)
THEOREM NoHeaderEditIsLost == Spec => []HeaderEditsAreSeen
BY HeadersSeen, HashesAreNeverAhead, HeadersAreTracked, PTL

----------------------------------------------------------------------------
(* What a process that ends says of the project.                           *)

(* An object that the output's record names is the one in the output: an   *)
(* object gets a time of its own process, and the record is written last.  *)
TargetInv ==
  /\ \A u \in Units : object[u].stamp <= builds /\ targetManifest[u] <= builds
  /\ phase # "idle" => \A u \in Units : targetManifest[u] < builds
  /\ \A u \in Units : targetManifest[u] # 0 /\ targetManifest[u] = object[u].stamp =>
       target = NoObjects \/ target[u] = object[u].stamp
  /\ linkTask # "none" => phase = "build"
  /\ \A u \in Units : task[u] = "done" => phase = "build"
  /\ linkTask = "written" =>
       /\ ~ failed
       /\ \A u \in Units : target[u] = object[u].stamp /\ task[u] \in {"none", "done"}

(* A manifest names every header that its file opens. *)
NamesInv ==
  \A u \in Units : manifest[u].hash # 0 => \A h \in Includes[u] : manifest[u].deps[h] # 0

(* The manifest that a compile of this process leaves. *)
Updated(u) ==
  /\ object[u].stamp = builds /\ manifest[u].hash = stamp[u]
  /\ \A f \in Files :
       manifest[u].deps[f] =
         IF f \in Includes[u] THEN stamp[f] ELSE IF u # Pch THEN info[Pch].deps[f] ELSE 0

(* As long as nobody edits a file, a process knows what is on the disk.    *)
CurrentInv ==
  phase # "idle" /\ ~ edited =>
    /\ \A f \in Files : cache[f] \in {0, stamp[f]}
    /\ phase = "build" => unchecked = {}
    /\ \A u \in Units \ unchecked :
         /\ info[u].hash = stamp[u]
         /\ task[u] = "none" => Vouched(u) /\ info[u].deps = manifest[u].deps
         /\ task[u] = "written" => object[u].stamp = builds
         /\ task[u] = "done" /\ ~ failed => Updated(u)

(* A result is that of the last process, and holds until the next. *)
ResultInv ==
  /\ phase # "idle" => result = "none"
  /\ UpToDateIsCurrent /\ NothingLeftToDo

EndInv == TargetInv /\ NamesInv /\ CurrentInv /\ ResultInv

LEMMA EndTypes ==
  ASSUME TypeOK
  PROVE  /\ builds \in Nat
         /\ \A u \in Units : object[u].stamp \in Nat /\ target[u] \in Nat
                             /\ targetManifest[u] \in Nat
         /\ \A f \in Files : stamp[f] \in Nat /\ stamp[f] # 0 /\ cache[f] \in Nat
         /\ phase = "idle" => linkTask = "none" /\ cache = NoStamps
                              /\ \A u \in Units : task[u] = "none"
BY DEF TypeOK, NothingInMemory

LEMMA TargetStep ==
  ASSUME IndInv, HeaderInv, TargetInv, [Next]_vars
  PROVE  TargetInv'
<1>1. TypeOK
  BY DEF IndInv
<1>2. ASSUME UNCHANGED << object, target, targetManifest, builds, phase, linkTask >>,
             failed' => failed \/ linkTask # "written",
             \A u \in Units : task'[u] # task[u] => linkTask # "written",
             \A u \in Units : task'[u] = "done" => phase = "build"
      PROVE  TargetInv'
  BY <1>2 DEF TargetInv
<1>3. ASSUME NEW f \in Files, Edit(f) PROVE TargetInv'
  BY <1>2, <1>3 DEF Edit, disk, memory, TargetInv
<1>4. ASSUME NEW outcome, End(outcome), UNCHANGED object,
             target' \in {target, NoObjects},
             \/ targetManifest' = targetManifest
             \/ /\ linkTask = "written" /\ target' = target
                /\ targetManifest' = [u \in Units |-> object[u].stamp]
      PROVE  TargetInv'
  <2>1. phase' = "idle" /\ linkTask' = "none" /\ builds' = builds
        /\ \A u \in Units : task'[u] = "none"
    BY <1>4 DEF End
  <2>2. QED
    BY <1>1, <1>4, <2>1, EndTypes DEF TargetInv
<1>5. CASE Kill \/ ReportUpToDate \/ LinkFails \/ RejectLink \/ UpdateLinkDependencies
             \/ ReportFailure
  BY <1>4, <1>5 DEF Kill, ReportUpToDate, LinkFails, RejectLink, UpdateLinkDependencies,
                    ReportFailure, disk
<1>6. ASSUME phase = "idle", builds' = builds + 1, UNCHANGED << linkTask, task >>,
             \A u \in Units : object'[u] \in {object[u], NoObject},
             target' \in {target, NoObjects},
             targetManifest' \in {targetManifest, NoObjects}
      PROVE  TargetInv'
  <2>1. \A u \in Units : NoObjects[u] = 0 /\ NoObject.stamp = 0
    BY Functions DEF NoObjects
  <2>2. QED
    BY <1>1, <1>6, <2>1, EndTypes DEF TargetInv
<1>7. CASE StartBuild \/ StartRebuild
  BY <1>6, <1>7 DEF StartBuild, StartRebuild, Start, Check, disk
<1>8. CASE CleanFails
  <2>1. \A u \in Units : object'[u] \in {object[u], NoObject}
    BY <1>8 DEF CleanFails
  <2>2. QED
    BY <1>6, <1>8, <2>1 DEF CleanFails, memory
<1>9. ASSUME NEW u \in Units, CheckMissing(u) \/ CheckHash(u) \/ CheckDependencies(u)
      PROVE  TargetInv'
  <2>1. /\ UNCHANGED << object, target, targetManifest, builds, phase, linkTask, failed >>
        /\ phase = "check"
        /\ \A v \in Units : task'[v] = "done" => task[v] = "done"
    BY <1>1, <1>9 DEF CheckMissing, CheckHash, CheckDependencies, Checked, disk, TypeOK
  <2>2. QED
    BY <1>2, <2>1 DEF TargetInv
<1>10. CASE GetTasks
  BY <1>10 DEF GetTasks, disk, TargetInv
<1>11. ASSUME NEW u \in Units, Compile(u) PROVE TargetInv'
  <2>1. /\ UNCHANGED << target, targetManifest, builds, phase, linkTask, failed >>
        /\ object'[u].stamp = builds /\ \A v \in Units : v # u => object'[v] = object[v]
        /\ phase = "build" /\ task[u] = "queued"
        /\ \A v \in Units : task'[v] = "done" => task[v] = "done"
    BY <1>1, <1>11 DEF Compile, MayCompile, WriteObject, TypeOK
  <2>2. linkTask # "written" /\ targetManifest[u] # builds
    BY <1>1, <2>1, EndTypes DEF TargetInv
  <2>3. QED
    BY <1>1, <2>1, <2>2, EndTypes DEF TargetInv
<1>12. ASSUME NEW u \in Units, CompileFails(u) \/ RejectOutput(u) PROVE TargetInv'
  <2>1. /\ UNCHANGED << target, targetManifest, builds, phase, linkTask >>
        /\ \A v \in Units : object'[v] \in {object[v], NoObject}
        /\ task[u] \in {"queued", "written"}
    BY <1>1, <1>12 DEF CompileFails, RejectOutput, MayCompile, Fail, TypeOK
  <2>2. phase = "build" /\ linkTask # "written"
    BY <1>12, <2>1 DEF CompileFails, MayCompile, RejectOutput, HeaderInv, ProcessInv, TargetInv
  <2>3. NoObject.stamp = 0
    BY Functions
  <2>4. QED
    BY <1>1, <2>1, <2>2, <2>3, EndTypes DEF TargetInv
<1>13. ASSUME NEW u \in Units, UpdateDependencyManifest(u) PROVE TargetInv'
  <2>1. /\ UNCHANGED << object, target, targetManifest, builds, phase, linkTask, failed >>
        /\ task[u] = "written"
    BY <1>13 DEF UpdateDependencyManifest
  <2>2. phase = "build" /\ linkTask # "written"
    BY <2>1 DEF HeaderInv, ProcessInv, TargetInv
  <2>3. QED
    BY <1>2, <2>1, <2>2
<1>14. CASE Link
  <2>1. /\ UNCHANGED << object, targetManifest, builds, phase, failed, task >>
        /\ linkTask' = "written" /\ ~ failed /\ phase = "build"
        /\ \A u \in Units : target'[u] = object[u].stamp /\ task[u] \in {"none", "done"}
    BY <1>14 DEF Link, MayLink
  <2>2. QED
    BY <2>1 DEF TargetInv
<1>15. CASE UNCHANGED vars
  BY <1>2, <1>15 DEF vars, disk, memory, TargetInv
<1>16. QED
  BY <1>3, <1>5, <1>7, <1>8, <1>9, <1>10, <1>11, <1>12, <1>13, <1>14, <1>15 DEF Next

LEMMA NamesStep ==
  ASSUME IndInv, NamesInv, [Next]_vars
  PROVE  NamesInv'
<1>1. TypeOK
  BY DEF IndInv
<1>2. ASSUME \A u \in Units : manifest'[u] \in {manifest[u], NoManifest} PROVE NamesInv'
  BY <1>2, Functions DEF NamesInv
<1>3. ASSUME NEW u \in Units, UpdateDependencyManifest(u) PROVE NamesInv'
  <2>1. /\ manifest'[u].deps = DependenciesOf(u)
        /\ \A v \in Units : v # u => manifest'[v] = manifest[v]
    BY <1>1, <1>3 DEF UpdateDependencyManifest, TypeOK
  <2>2. ASSUME NEW h \in Includes[u] PROVE DependenciesOf(u)[h] # 0
    <3>1. h \in Files /\ stamp[h] # 0
      BY <1>1, HeaderTypes
    <3>2. QED
      BY <3>1 DEF DependenciesOf, OutputDependencyPaths, GetCachedModifiedTime
  <2>3. QED
    BY <2>1, <2>2 DEF NamesInv
<1>4. CASE StartRebuild \/ CleanFails
  <2>1. \A u \in Units : manifest'[u] \in {manifest[u], NoManifest}
    BY <1>4 DEF StartRebuild, CleanFails
  <2>2. QED
    BY <1>2, <2>1
<1>5. ASSUME UNCHANGED manifest PROVE NamesInv'
  BY <1>5 DEF NamesInv
<1>6. ASSUME NEW f \in Files, Edit(f) PROVE NamesInv'
  BY <1>5, <1>6 DEF Edit, disk
<1>7. ASSUME NEW u \in Units, CheckMissing(u) \/ CheckHash(u) \/ CheckDependencies(u)
      PROVE  NamesInv'
  BY <1>5, <1>7 DEF CheckMissing, CheckHash, CheckDependencies, Checked, disk
<1>8. ASSUME NEW u \in Units, Compile(u) \/ CompileFails(u) \/ RejectOutput(u) PROVE NamesInv'
  BY <1>5, <1>8 DEF Compile, CompileFails, RejectOutput, Fail
<1>9. CASE Kill \/ StartBuild \/ ReportUpToDate \/ GetTasks \/ Link \/ LinkFails \/ RejectLink
             \/ UpdateLinkDependencies \/ ReportFailure \/ UNCHANGED vars
  BY <1>5, <1>9 DEF Kill, StartBuild, ReportUpToDate, GetTasks, Link, LinkFails, RejectLink,
                    UpdateLinkDependencies, ReportFailure, vars, disk
<1>10. QED
  BY <1>3, <1>4, <1>6, <1>7, <1>8, <1>9 DEF Next

(* One call of CheckOutOfDate, while nobody edits a file. *)
LEMMA CheckedCurrent ==
  ASSUME IndInv, HeaderInv, TargetInv, CurrentInv, ~ edited,
         NEW u \in Units, NEW read, NEW outOfDate \in BOOLEAN, NEW dependencies,
         phase = "check", Checked(u, read, dependencies, outOfDate),
         ~ outOfDate => /\ dependencies = manifest[u].deps
                        /\ HasFiles(u) /\ manifest[u].hash = GetCachedModifiedTime(u)
                        /\ Differs(u) = {}
  PROVE  CurrentInv'
<1>1. TypeOK
  BY DEF IndInv
<1>2. /\ UNCHANGED << stamp, object, manifest, phase, failed, edited, builds >>
      /\ cache' = CacheAfter(read)
      /\ info'[u].hash = GetCachedModifiedTime(u) /\ info'[u].deps = dependencies
      /\ \A v \in Units : v # u => info'[v] = info[v]
      /\ task'[u] = IF outOfDate THEN "queued" ELSE "none"
      /\ \A v \in Units : v # u => task'[v] = task[v]
      /\ unchecked' = unchecked \ {u}
  BY <1>1 DEF Checked, disk, TypeOK
<1>3. \A f \in Files : cache[f] \in {0, stamp[f]} /\ GetCachedModifiedTime(f) = stamp[f]
  BY DEF CurrentInv, GetCachedModifiedTime
<1>4. \A f \in Files : cache'[f] \in {0, stamp[f]}
  BY <1>2, <1>3 DEF CacheAfter
<1>5. ~ outOfDate => Vouched(u)
  BY <1>3, Functions DEF Vouched, Differs, Recorded
<1>6. \A v \in Units : Vouched(v)' <=> Vouched(v)
  BY <1>2 DEF Vouched, HasFiles, Recorded
<1>7. \A v \in Units : task'[v] \notin {"written", "done"}
  BY <1>2 DEF HeaderInv, ProcessInv, TargetInv
<1>8. info'[u].hash = stamp[u]
  BY <1>2, <1>3, Functions
<1>9. QED
  BY <1>2, <1>4, <1>5, <1>6, <1>7, <1>8 DEF CurrentInv

LEMMA CurrentStep ==
  ASSUME IndInv, HeaderInv, TargetInv, CurrentInv, [Next]_vars
  PROVE  CurrentInv'
<1>1. TypeOK
  BY DEF IndInv
<1>2. ASSUME NEW f \in Files, Edit(f) PROVE CurrentInv'
  BY <1>2 DEF Edit, CurrentInv
<1>3. CASE Kill \/ ReportUpToDate \/ LinkFails \/ RejectLink \/ UpdateLinkDependencies
             \/ ReportFailure
  <2>1. phase' = "idle"
    BY <1>3 DEF Kill, ReportUpToDate, LinkFails, RejectLink, UpdateLinkDependencies,
                ReportFailure, End
  <2>2. QED
    BY <2>1 DEF CurrentInv
<1>4. CASE StartBuild \/ StartRebuild
  <2>1. phase = "idle" /\ phase' = "check" /\ unchecked' = Units /\ cache' = cache
    BY <1>4 DEF StartBuild, StartRebuild, Start, Check
  <2>2. \A f \in Files : cache[f] = 0
    BY <1>1, <2>1, EndTypes, Functions
  <2>3. QED
    BY <2>1, <2>2 DEF CurrentInv
<1>5. CASE CleanFails
  BY <1>5 DEF CleanFails, memory, CurrentInv
<1>6. ASSUME NEW u \in Units, CheckMissing(u) \/ CheckHash(u) \/ CheckDependencies(u), ~ edited
      PROVE  CurrentInv'
  <2>1. CASE CheckMissing(u)
    BY <1>6, <2>1, CheckedCurrent DEF CheckMissing
  <2>2. CASE CheckHash(u)
    BY <1>6, <2>2, CheckedCurrent DEF CheckHash
  <2>3. CASE CheckDependencies(u)
    BY <1>6, <2>3, CheckedCurrent DEF CheckDependencies
  <2>4. QED
    BY <1>6, <2>1, <2>2, <2>3
<1>7. ASSUME NEW u \in Units, CheckMissing(u) \/ CheckHash(u) \/ CheckDependencies(u), edited
      PROVE  CurrentInv'
  BY <1>7 DEF CheckMissing, CheckHash, CheckDependencies, Checked, CurrentInv
<1>8. CASE GetTasks
  BY <1>8 DEF GetTasks, disk, CurrentInv, Vouched, HasFiles, Recorded, Updated
<1>9. ASSUME NEW u \in Units, task[u] \in {"queued", "written"}, task'[u] \in {"written", "done"},
             phase = "build",
             UNCHANGED << stamp, phase, info, unchecked, edited, builds >>,
             failed => failed',
             \A v \in Units : v # u => /\ object'[v] = object[v] /\ manifest'[v] = manifest[v]
                                       /\ task'[v] = task[v],
             ~ edited => \A f \in Files : cache'[f] \in {0, stamp[f]},
             ~ edited /\ task'[u] = "written" => object'[u].stamp = builds,
             ~ edited /\ task'[u] = "done" /\ ~ failed' => Updated(u)'
      PROVE  CurrentInv'
  <2>1. \A v \in Units : v # u => (Vouched(v)' <=> Vouched(v)) /\ (Updated(v)' <=> Updated(v))
    BY <1>9 DEF Vouched, HasFiles, Recorded, Updated
  <2>2. QED
    BY <1>9, <2>1 DEF CurrentInv
<1>10. ASSUME NEW u \in Units, Compile(u) PROVE CurrentInv'
  <2>1. /\ UNCHANGED << stamp, manifest, phase, cache, info, unchecked, failed, edited, builds >>
        /\ phase = "build" /\ task[u] = "queued" /\ task'[u] = "written"
        /\ object'[u].stamp = builds
        /\ \A v \in Units : v # u => object'[v] = object[v] /\ task'[v] = task[v]
    BY <1>1, <1>10 DEF Compile, MayCompile, WriteObject, TypeOK
  <2>2. QED
    BY <1>9, <2>1 DEF CurrentInv
<1>11. ASSUME NEW u \in Units, CompileFails(u) \/ RejectOutput(u) PROVE CurrentInv'
  <2>1. /\ UNCHANGED << stamp, manifest, phase, cache, info, unchecked, edited, builds >>
        /\ task[u] \in {"queued", "written"} /\ task'[u] = "done" /\ failed'
        /\ \A v \in Units : v # u => object'[v] = object[v] /\ task'[v] = task[v]
    BY <1>1, <1>11 DEF CompileFails, RejectOutput, MayCompile, Fail, TypeOK
  <2>2. phase = "build"
    BY <1>11, <2>1 DEF CompileFails, MayCompile, RejectOutput, HeaderInv, ProcessInv
  <2>3. QED
    BY <1>9, <2>1, <2>2 DEF CurrentInv
<1>12. ASSUME NEW u \in Units, UpdateDependencyManifest(u) PROVE CurrentInv'
  <2>1. /\ UNCHANGED << stamp, object, phase, info, unchecked, failed, edited, builds >>
        /\ task[u] = "written" /\ task'[u] = "done"
        /\ \A v \in Units : v # u => manifest'[v] = manifest[v] /\ task'[v] = task[v]
        /\ manifest'[u].hash = info[u].hash /\ manifest'[u].deps = DependenciesOf(u)
        /\ cache' = CacheAfter(Includes[u])
    BY <1>1, <1>12 DEF UpdateDependencyManifest, OutputDependencyPaths, TypeOK
  <2>2. phase = "build"
    BY <2>1 DEF HeaderInv, ProcessInv
  <2>3. ~ edited => \A f \in Files : cache[f] \in {0, stamp[f]} /\ GetCachedModifiedTime(f) = stamp[f]
    BY <2>2 DEF CurrentInv, GetCachedModifiedTime
  <2>4. ~ edited => \A f \in Files : cache'[f] \in {0, stamp[f]}
    BY <2>1, <2>3 DEF CacheAfter
  <2>5. ~ edited => Updated(u)'
    <3>1. ~ edited => object[u].stamp = builds /\ info[u].hash = stamp[u]
      BY <2>1, <2>2 DEF CurrentInv
    <3>2. QED
      BY <2>1, <2>3, <3>1 DEF Updated, DependenciesOf, OutputDependencyPaths
  <2>6. QED
    BY <1>9, <2>1, <2>2, <2>4, <2>5
<1>13. CASE Link
  BY <1>13 DEF Link, CurrentInv, Vouched, HasFiles, Recorded, Updated
<1>14. CASE UNCHANGED vars
  BY <1>14 DEF vars, disk, memory, CurrentInv, Vouched, HasFiles, Recorded, Updated
<1>15. QED
  BY <1>2, <1>3, <1>4, <1>5, <1>6, <1>7, <1>8, <1>10, <1>11, <1>12, <1>13, <1>14 DEF Next

(* A process that finds nothing to do is right. *)
LEMMA UpToDateIsRight ==
  ASSUME IndInv, HeaderInv, TargetInv, NamesInv, CurrentInv, ReportUpToDate
  PROVE  UpToDateIsCurrent'
<1>1. TypeOK
  BY DEF IndInv
<1>2. /\ phase = "check" /\ unchecked = {} /\ UpToDate
      /\ UNCHANGED << object, manifest, target, stamp, raced, edited >>
  BY DEF ReportUpToDate, End, disk
<1>3. SUFFICES ASSUME ~ edited, NEW u \in Units
               PROVE  /\ target[u] = object[u].stamp /\ target[u] # 0
                      /\ \A f \in ({u} \cup Includes[u]) \ raced : object[u].from[f] = stamp[f]
  BY <1>2 DEF UpToDateIsCurrent, OutputDependencyPaths
<1>4. target[u] = object[u].stamp /\ target[u] # 0
  BY <1>2 DEF UpToDate, TargetIsCurrent, TargetInv
<1>5. Vouched(u)
  BY <1>2, <1>3 DEF CurrentInv, UpToDate
<1>6. object[u].from[u] = stamp[u]
  BY <1>5, SourceSeen DEF SourceEditsAreSeen, Vouched
<1>7. \A h \in Includes[u] : h \in Recorded(u)
  <2>1. \A h \in Includes[u] : h \in Files
    BY <1>1, HeaderTypes
  <2>2. QED
    BY <1>5, <2>1 DEF NamesInv, Vouched, HasFiles, Recorded
<1>8. QED
  BY <1>4, <1>5, <1>6, <1>7, HeadersSeen DEF HeaderEditsAreSeen

(* A process that built everything leaves nothing to do. *)
LEMMA BuiltIsRight ==
  ASSUME IndInv, HeaderInv, TargetInv, CurrentInv, UpdateLinkDependencies
  PROVE  NothingLeftToDo'
<1>1. TypeOK
  BY DEF IndInv
<1>2. /\ linkTask = "written"
      /\ targetManifest' = [u \in Units |-> object[u].stamp]
      /\ UNCHANGED << object, manifest, target, stamp, edited, builds >>
  BY DEF UpdateLinkDependencies, End
<1>3. /\ phase = "build" /\ ~ failed /\ builds # 0 /\ Pch \in Units
      /\ \A u \in Units : target[u] = object[u].stamp /\ task[u] \in {"none", "done"}
  BY <1>1, <1>2, HeaderTypes DEF TargetInv, HeaderInv, ProcessInv
<1>4. SUFFICES ASSUME ~ edited
               PROVE  /\ TargetIsCurrent'
                      /\ Vouched(Pch)'
                      /\ object[Pch].stamp < builds => \A u \in Units : Vouched(u)'
  BY <1>2 DEF NothingLeftToDo
<1>5. \A u \in Units : Vouched(u)' <=> Vouched(u)
  BY <1>2 DEF Vouched, HasFiles, Recorded
<1>6. /\ unchecked = {}
      /\ \A u \in Units : /\ task[u] = "none" => Vouched(u) /\ info[u].deps = manifest[u].deps
                          /\ task[u] = "done" => Updated(u)
  BY <1>3, <1>4 DEF CurrentInv
<1>7. \A u \in Units : HasFiles(u) /\ manifest[u].hash = stamp[u]
  <2>1. \A u \in Units : stamp[u] # 0
    BY <1>1, EndTypes, Functions
  <2>2. QED
    BY <1>3, <1>6, <2>1 DEF Vouched, HasFiles, Updated
<1>8. TargetIsCurrent'
  <2>1. \A u \in Units : target[u] # 0 /\ targetManifest'[u] # 0
    BY <1>2, <1>3, <1>7 DEF HasFiles
  <2>2. NoObjects[Pch] = 0
    BY <1>3 DEF NoObjects
  <2>3. QED
    BY <1>2, <1>3, <1>7, <2>1, <2>2 DEF TargetIsCurrent, HasFiles
<1>9. Vouched(Pch)
  BY <1>3, <1>6, <1>7 DEF Vouched, Updated, Recorded
<1>10. ASSUME object[Pch].stamp < builds, NEW u \in Units PROVE Vouched(u)
  <2>1. task[Pch] = "none"
    BY <1>1, <1>3, <1>6, <1>10, EndTypes DEF Updated
  <2>2. info[Pch].deps = manifest[Pch].deps
    BY <1>3, <1>6, <2>1
  <2>3. CASE task[u] = "none"
    BY <1>6, <2>3
  <2>4. CASE task[u] = "done"
    BY <1>6, <1>7, <1>9, <2>2, <2>4 DEF Vouched, Updated, Recorded
  <2>5. QED
    BY <1>3, <2>3, <2>4
<1>11. QED
  BY <1>3, <1>5, <1>8, <1>9, <1>10

LEMMA ResultStep ==
  ASSUME IndInv, HeaderInv, EndInv, [Next]_vars
  PROVE  ResultInv'
<1>1. ASSUME phase' = "idle" \/ result' = "none", result' \notin {"upToDate", "built"}
      PROVE  ResultInv'
  BY <1>1 DEF ResultInv, UpToDateIsCurrent, NothingLeftToDo
<1>2. ASSUME NEW f \in Files, Edit(f) PROVE ResultInv'
  BY <1>2 DEF Edit, memory, EndInv, ResultInv, UpToDateIsCurrent, NothingLeftToDo
<1>3. CASE Kill \/ LinkFails \/ RejectLink \/ ReportFailure
  BY <1>1, <1>3 DEF Kill, LinkFails, RejectLink, ReportFailure, End
<1>4. CASE StartBuild \/ StartRebuild
  BY <1>1, <1>4 DEF StartBuild, StartRebuild, Start
<1>5. CASE CleanFails
  BY <1>1, <1>5 DEF CleanFails, memory
<1>6. CASE ReportUpToDate
  <2>1. UpToDateIsCurrent'
    BY <1>6, UpToDateIsRight DEF EndInv
  <2>2. phase' = "idle" /\ result' = "upToDate"
    BY <1>6 DEF ReportUpToDate, End
  <2>3. QED
    BY <2>1, <2>2 DEF ResultInv, NothingLeftToDo
<1>7. CASE UpdateLinkDependencies
  <2>1. NothingLeftToDo'
    BY <1>7, BuiltIsRight DEF EndInv
  <2>2. phase' = "idle" /\ result' = "built"
    BY <1>7 DEF UpdateLinkDependencies, End
  <2>3. QED
    BY <2>1, <2>2 DEF ResultInv, UpToDateIsCurrent
<1>8. ASSUME phase # "idle", result' = result PROVE ResultInv'
  BY <1>1, <1>8 DEF EndInv, ResultInv
<1>9. ASSUME NEW u \in Units, \/ CheckMissing(u) \/ CheckHash(u) \/ CheckDependencies(u)
                               \/ Compile(u) \/ CompileFails(u)
      PROVE  ResultInv'
  BY <1>8, <1>9 DEF CheckMissing, CheckHash, CheckDependencies, Checked, Compile, CompileFails,
                    MayCompile, Fail
<1>10. ASSUME NEW u \in Units, RejectOutput(u) \/ UpdateDependencyManifest(u) PROVE ResultInv'
  BY <1>8, <1>10, InMemory DEF RejectOutput, UpdateDependencyManifest, Fail
<1>11. CASE GetTasks \/ Link
  BY <1>8, <1>11 DEF GetTasks, Link, MayLink
<1>12. CASE UNCHANGED vars
  BY <1>12 DEF vars, disk, memory, EndInv, ResultInv, UpToDateIsCurrent, NothingLeftToDo,
               TargetIsCurrent, Vouched, HasFiles, Recorded
<1>13. QED
  BY <1>2, <1>3, <1>4, <1>5, <1>6, <1>7, <1>9, <1>10, <1>11, <1>12 DEF Next

THEOREM EndInvHolds == Spec => []EndInv
<1>1. Init => EndInv
  <2> SUFFICES ASSUME Init PROVE EndInv
    OBVIOUS
  <2>1. /\ phase = "idle" /\ linkTask = "none" /\ builds = 0 /\ result = "none"
        /\ \A u \in Units : /\ object[u].stamp = 0 /\ targetManifest[u] = 0
                            /\ manifest[u].hash = 0 /\ task[u] = "none"
    BY Functions DEF Init, NoObjects
  <2>2. QED
    BY <2>1 DEF EndInv, TargetInv, NamesInv, CurrentInv, ResultInv, UpToDateIsCurrent,
                NothingLeftToDo
<1>2. IndInv /\ HeaderInv /\ EndInv /\ [Next]_vars => EndInv'
  BY TargetStep, NamesStep, CurrentStep, ResultStep DEF EndInv
<1>3. QED
  BY <1>1, <1>2, HashesAreNeverAhead, HeadersAreTracked, PTL DEF Spec

(* A process that says that the project is up to date, and that nobody     *)
(* disturbed, found an output of present objects, each made of the present *)
(* text (Builder.cpp, bUpToDate).                                          *)
THEOREM UpToDateIsTrue == Spec => []UpToDateIsCurrent
<1>1. EndInv => UpToDateIsCurrent
  BY DEF EndInv, ResultInv
<1>2. QED
  BY <1>1, EndInvHolds, PTL

(* After a build that succeeded, undisturbed, the next finds nothing to    *)
(* do, if the precompiled header was not what it rebuilt (Builder.cpp).    *)
THEOREM SuccessLeavesNothingToDo == Spec => []NothingLeftToDo
<1>1. EndInv => NothingLeftToDo
  BY DEF EndInv, ResultInv
<1>2. QED
  BY <1>1, EndInvHolds, PTL
=============================================================================
