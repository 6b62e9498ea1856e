----------------------------- MODULE Changelog -----------------------------
(***************************************************************************)
(* The changelog of a package build (Builder::BuildChangelog, with the     *)
(* commands of GitSourceControlProvider): a build pages through the        *)
(* history of its clone, writes what it finds to the changelog file, and   *)
(* checks that in: add, commit, pull, push.                                *)
(*                                                                         *)
(* git is external.  A commit is its position in the order of commit       *)
(* times, in which git log shows it; clone and server are sets of commits. *)
(* Others push to the server, and commit and pull in the clone, at any     *)
(* time.  Any command may fail, and the program may be killed.  Only this  *)
(* build changes the changelog file, so that a merge has no conflict.      *)
(*                                                                         *)
(* Definitions marked Bug are mutated forms that no action uses.           *)
(***************************************************************************)
EXTENDS Integers, FiniteSets, FiniteSetsExt, Sequences, Bags

CONSTANTS
  ChunkSize,   (* requestChunkSize, the commits on a page of the history   *)
  MaxCommits   (* bound: others commit while there are fewer commits       *)

ASSUME ChunkAssumption == ChunkSize \in Nat \ {0} /\ MaxCommits \in Nat

VARIABLES
  commits,     (* all commits, oldest first                                *)
  local,       (* those in the clone                                       *)
  remote,      (* those on the server                                      *)
  file,        (* the changelog file on disk: {its bag of entries}, or {}  *)
  indexed,     (* git knows the path of the file                           *)
  committed,   (* the file in the newest commit of the clone               *)
  published,   (* the file on the server                                   *)
  pc,          (* where the build is                                       *)
  head,        (* info.Changelist: the newest commit when the build began  *)
  offset,      (* requestOffset                                            *)
  current,     (* the version of the last of the groups                    *)
  entries,     (* what was read so far: a bag of entries                   *)
  isNew,       (* bIsNewFile                                               *)
  known,       (* history: the commits in the clone when the build began   *)
  grown,       (* history: others have added to the clone since            *)
  loose,       (* history: a build stopped between writing and pushing     *)
  fresh        (* history: when the build began there was no file, and git *)
               (* knew of none                                             *)

repository == <<commits, local, remote, indexed, committed, published>>
reading == <<head, offset, current, entries>>
history == <<known, grown, loose, fresh>>
vars == <<repository, file, pc, reading, isNew, history>>

(* A description has the tag [changelog], or is that of an update of the   *)
(* changelog, or neither.                                                  *)
Kinds == {"tagged", "plain", "update"}
Commit(kind, version) == [kind |-> kind, version |-> version]
Ids == 1 .. Len(commits)
NoFile == {}
Steps == {"idle", "page", "compare", "exists", "write", "add", "commit",
          "pull", "push"}

TypeOK ==
  /\ commits \in Seq([kind : Kinds, version : Nat])
  /\ local \subseteq Ids /\ remote \subseteq Ids
  /\ indexed \in BOOLEAN
  /\ \A f \in {file, committed, published} :
       Cardinality(f) <= 1 /\ \A content \in f : IsABag(content)
  /\ pc \in Steps
  /\ head \in Nat /\ offset \in Nat /\ current \in Nat
  /\ IsABag(entries)
  /\ isNew \in BOOLEAN
  /\ known \subseteq local
  /\ grown \in BOOLEAN /\ loose \in BOOLEAN /\ fresh \in BOOLEAN

(* One commit that both have; a changelog from before, or none. *)
Init ==
  /\ commits = <<Commit("plain", 0)>>
  /\ local = {1} /\ remote = {1}
  /\ file \in {NoFile, {EmptyBag}}
  /\ committed = file /\ published = file
  /\ indexed = (file # NoFile)
  /\ pc = "idle"
  /\ head = 0 /\ offset = 0 /\ current = 0 /\ entries = EmptyBag
  /\ isNew = FALSE
  /\ known = {} /\ grown = FALSE /\ loose = FALSE /\ fresh = FALSE

----------------------------------------------------------------------------
(* git.                                                                    *)

NewId == Len(commits) + 1

(* The commits that git log shows above one, and a page of them. *)
Rank(c) == Cardinality({d \in local : d > c})

(* Bug: pages do not follow each other. *)
GappedPage == {c \in local : offset < Rank(c) /\ Rank(c) < offset + ChunkSize}

Page == {c \in local : offset <= Rank(c) /\ Rank(c) < offset + ChunkSize}

(* A pull takes what the server has, and merges if it lacks something. *)
Diverged == ~(local \subseteq remote) /\ ~(remote \subseteq local)
PullFromServer ==
  \/ /\ ~Diverged
     /\ local' = local \cup remote
     /\ UNCHANGED commits
  \/ /\ Diverged
     /\ commits' = Append(commits, Commit("plain", 0))
     /\ local' = local \cup remote \cup {NewId}

(* Others.  Those who push have pulled first. *)
SomeoneCommits ==
  /\ NewId <= MaxCommits
  /\ \E kind \in {"tagged", "plain"} : commits' = Append(commits, Commit(kind, 0))
  /\ \/ remote' = remote \cup {NewId} /\ UNCHANGED <<local, grown>>
     \/ local' = local \cup {NewId} /\ grown' = TRUE /\ UNCHANGED remote
  /\ UNCHANGED <<file, indexed, committed, published, pc, reading, isNew, known, loose, fresh>>

SomeonePulls ==
  /\ ~(remote \subseteq local)
  /\ PullFromServer
  /\ grown' = TRUE
  /\ UNCHANGED <<remote, file, indexed, committed, published, pc, reading, isNew, known, loose, fresh>>

(* The working tree is cleaned of files git does not know, or the file is deleted. *)
FileIsDeleted ==
  /\ pc = "idle"
  /\ file # NoFile
  /\ file' = NoFile
  /\ UNCHANGED <<repository, pc, reading, isNew, history>>

----------------------------------------------------------------------------
(* The build.                                                              *)

Goto(step) == pc' = step

(* BuildChangelog returns; Stop when a command failed or the program died. *)
Return ==
  /\ Goto("idle")
  /\ head' = 0 /\ offset' = 0 /\ current' = 0 /\ entries' = EmptyBag
  /\ isNew' = FALSE

(* CalculateVersionNumber, and the root group. *)
CalculateVersionNumber ==
  /\ pc = "idle"
  /\ head' = Max(local) /\ current' = Max(local)
  /\ known' = local
  /\ grown' = FALSE
  /\ fresh' = (file = NoFile /\ ~indexed)
  /\ Goto("page")
  /\ UNCHANGED <<repository, file, offset, entries, isNew, loose>>

(* The group that an entry of a page belongs to: that of the last update   *)
(* of the changelog shown above it.                                        *)
UpdatesAbove(c) == {u \in Page : u > c /\ commits[u].kind = "update"}
VersionOf(c) ==
  IF UpdatesAbove(c) = {} THEN current ELSE commits[Min(UpdatesAbove(c))].version

EntriesOfPage ==
  SetToBag({[version |-> VersionOf(c), of |-> c] :
              c \in {d \in Page : commits[d].kind = "tagged"}})

(* Bug: entries go to the group of the version that is being built. *)
GetHistoryUngrouped ==
  /\ pc = "page"
  /\ entries' = entries (+) EntriesOfPage
  /\ offset' = offset + ChunkSize
  /\ Goto(IF Cardinality(Page) < ChunkSize THEN "compare" ELSE "page")
  /\ UNCHANGED <<repository, file, head, current, isNew, history>>

(* Bug: the next page is the one before. *)
GetHistoryBackwards ==
  /\ pc = "page"
  /\ entries' = entries (+) EntriesOfPage
  /\ current' = VersionOf(0)
  /\ offset' = offset - ChunkSize
  /\ Goto(IF Cardinality(Page) < ChunkSize THEN "compare" ELSE "page")
  /\ UNCHANGED <<repository, file, head, isNew, history>>

GetHistory ==
  /\ pc = "page"
  /\ entries' = entries (+) EntriesOfPage
  /\ current' = VersionOf(0)
  /\ offset' = offset + ChunkSize
  /\ Goto(IF Cardinality(Page) < ChunkSize THEN "compare" ELSE "page")
  /\ UNCHANGED <<repository, file, head, isNew, history>>

(* IsDifferentFromFile *)
UpToDate ==
  /\ pc = "compare"
  /\ file = {entries}
  /\ Return
  /\ UNCHANGED <<repository, file, history>>

Differs ==
  /\ pc = "compare"
  /\ file # {entries}
  /\ Goto("exists")
  /\ UNCHANGED <<repository, file, reading, isNew, history>>

(* Exists asks git status: it has something to say of a file that is not   *)
(* as the last commit has it, on disk or in the index.  Checkout does      *)
(* nothing.                                                                *)
Exists ==
  /\ pc = "exists"
  /\ isNew' = (file # committed \/ (indexed /\ committed = NoFile))
  /\ Goto("write")
  /\ UNCHANGED <<repository, file, reading, history>>

(* Bug: the file is always added. *)
WriteAndAdd ==
  /\ pc = "write"
  /\ file' = {entries}
  /\ loose' = TRUE
  /\ Goto("add")
  /\ UNCHANGED <<repository, reading, isNew, known, grown, fresh>>

WriteToFile ==
  /\ pc = "write"
  /\ file' = {entries}
  /\ loose' = TRUE
  /\ Goto(IF isNew THEN "add" ELSE "commit")
  /\ UNCHANGED <<repository, reading, isNew, known, grown, fresh>>

(* A file that cannot be written is no failure of the build. *)
WriteFails ==
  /\ pc = "write"
  /\ Return
  /\ UNCHANGED <<repository, file, history>>

Add ==
  /\ pc = "add"
  /\ indexed' = TRUE
  /\ Goto("commit")
  /\ UNCHANGED <<commits, local, remote, committed, published, file, reading, isNew, history>>

(* git commits a path that it knows, if it has changed. *)
CanCommit == indexed /\ file # committed

(* Bug: the message names the commit that it makes. *)
CommitNamedAfterItself ==
  /\ pc = "commit"
  /\ CanCommit
  /\ commits' = Append(commits, Commit("update", NewId))
  /\ local' = local \cup {NewId}
  /\ committed' = file
  /\ Goto("pull")
  /\ UNCHANGED <<remote, indexed, published, file, reading, isNew, history>>

CommitFile ==
  /\ pc = "commit"
  /\ CanCommit
  /\ commits' = Append(commits, Commit("update", head))
  /\ local' = local \cup {NewId}
  /\ committed' = file
  /\ Goto("pull")
  /\ UNCHANGED <<remote, indexed, published, file, reading, isNew, history>>

(* Sync is a pull and a push. *)
Pull ==
  /\ pc = "pull"
  /\ PullFromServer
  /\ grown' = (grown \/ ~(remote \subseteq local))
  /\ Goto("push")
  /\ UNCHANGED <<remote, indexed, committed, published, file, reading, isNew, known, loose, fresh>>

(* Bug: Sync pulls and does not push. *)
PushNothing ==
  /\ pc = "push"
  /\ loose' = FALSE
  /\ Return
  /\ UNCHANGED <<repository, file, known, grown, fresh>>

(* The server takes a push only from someone who has all it has. *)
Push ==
  /\ pc = "push"
  /\ remote \subseteq local
  /\ remote' = local
  /\ published' = committed
  /\ loose' = FALSE
  /\ Return
  /\ UNCHANGED <<commits, local, indexed, committed, file, known, grown, fresh>>

(* A command fails for a reason, and the build with it ... *)
CommandFails ==
  /\ \/ pc = "commit" /\ ~CanCommit
     \/ pc = "push" /\ ~(remote \subseteq local)
  /\ Return
  /\ UNCHANGED <<repository, file, history>>

(* ... or without one, or the program is killed. *)
Stop ==
  /\ pc \notin {"idle", "compare"}
  /\ Return
  /\ UNCHANGED <<repository, file, history>>

Next ==
  \/ SomeoneCommits \/ SomeonePulls \/ FileIsDeleted
  \/ CalculateVersionNumber \/ GetHistory \/ UpToDate \/ Differs \/ Exists
  \/ WriteToFile \/ WriteFails \/ Add \/ CommitFile \/ Pull \/ Push
  \/ CommandFails \/ Stop

Spec == Init /\ [][Next]_vars

----------------------------------------------------------------------------
(* Properties.                                                             *)

(* What the changelog of the clone should hold: each tagged commit once,   *)
(* under the version of the first update after it, or of the newest commit. *)
Updates(c) == {u \in local : u > c /\ commits[u].kind = "update"}
Expected ==
  SetToBag({[version |-> IF Updates(c) = {} THEN Max(local)
                                            ELSE commits[Min(Updates(c))].version,
             of |-> c] : c \in {d \in local : commits[d].kind = "tagged"}})

(* What was read page by page is that, if nobody added to the clone.       *)
PagesMakeTheChangelog ==
  pc = "compare" /\ ~grown => entries = Expected

(* Even if others commit and pull between two pages, and the pages shift,  *)
(* no entry of the clone is lost: it may at worst appear twice.            *)
NoEntryLost ==
  pc = "compare" =>
    \A c \in known : commits[c].kind = "tagged" =>
      \E e \in DOMAIN entries : e.of = c

(* A build that checked the changelog in leaves nothing to update, though  *)
(* its own commit is part of the history the next one reads, and moves the *)
(* newest commit.                                                          *)
UpdateSettles ==
  pc = "push" /\ ~grown => committed = {Expected}

(* A build that succeeds leaves the changelog that it made on the server,  *)
(* unless a build before was stopped between writing and pushing, or the   *)
(* file could not be written.                                              *)
SuccessMeansCheckedIn ==
  [][(UpToDate /\ ~loose) \/ Push => published' = {entries}]_vars

(* A changelog that is not there yet is never checked in by the build that *)
(* first writes it: git is asked about the file before there is one, has   *)
(* nothing to say, and the file is not added.                              *)
FirstChangelogIsNotCheckedIn ==
  fresh => pc \notin {"pull", "push"}
=============================================================================
