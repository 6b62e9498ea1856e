-------------------------- MODULE ChangelogProofs --------------------------
(***************************************************************************)
(* What holds of Changelog for any size of page and any number of commits. *)
(***************************************************************************)
EXTENDS Changelog, FiniteSetTheorems, SequenceTheorems, WellFoundedInduction, TLAPS

(* From the write to the commit the file holds what the build made, and    *)
(* from then on so does the commit.                                        *)
WrittenInv ==
  /\ pc \in {"add", "commit", "pull", "push"} => file = {entries}
  /\ pc \in {"pull", "push"} => committed = {entries}

(* Unless a build was stopped between writing and pushing, the server has  *)
(* what the clone has, and so has the disk if the file was not deleted.    *)
SettledInv ==
  ~loose =>
    /\ committed = published
    /\ file \in {committed, NoFile}
    /\ pc \notin {"add", "commit", "pull", "push"}

(* What git does not know has not been committed, and a build that found   *)
(* nothing never makes git know it.                                        *)
UnknownInv ==
  /\ ~indexed => committed = NoFile
  /\ fresh =>
       /\ pc \in {"page", "compare", "exists"} => file = NoFile
       /\ pc # "idle" => ~indexed
       /\ pc = "write" => ~isNew
       /\ pc \notin {"add", "pull", "push"}

IndInv == WrittenInv /\ SettledInv /\ UnknownInv

LEMMA InitIndInv == Init => IndInv
BY DEF Init, IndInv, WrittenInv, SettledInv, UnknownInv

(* Others change neither the file nor what git has of it.                  *)
LEMMA OthersStep ==
  ASSUME IndInv, UNCHANGED <<file, indexed, committed, published, pc, entries, isNew, loose, fresh>>
  PROVE  IndInv'
BY DEF IndInv, WrittenInv, SettledInv, UnknownInv

LEMMA NextIndInv == ASSUME IndInv, [Next]_vars PROVE IndInv'
<1> USE DEF IndInv, WrittenInv, SettledInv, UnknownInv, repository, reading,
            history, Goto, Return, NoFile
<1>1. CASE SomeoneCommits \/ SomeonePulls \/ UNCHANGED vars
  BY <1>1, OthersStep DEF SomeoneCommits, SomeonePulls, vars
<1>2. CASE FileIsDeleted
  BY <1>2 DEF FileIsDeleted
<1>3. CASE CalculateVersionNumber
  BY <1>3 DEF CalculateVersionNumber
<1>4. CASE GetHistory
  BY <1>4 DEF GetHistory
<1>5. CASE UpToDate
  BY <1>5 DEF UpToDate
<1>6. CASE Differs
  BY <1>6 DEF Differs
<1>7. CASE Exists
  BY <1>7 DEF Exists
<1>8. CASE WriteToFile
  BY <1>8 DEF WriteToFile
<1>9. CASE WriteFails
  BY <1>9 DEF WriteFails
<1>10. CASE Add
  BY <1>10 DEF Add
<1>11. CASE CommitFile
  BY <1>11 DEF CommitFile, CanCommit
<1>12. CASE Pull
  BY <1>12 DEF Pull
<1>13. CASE Push
  BY <1>13 DEF Push
<1>14. CASE CommandFails
  BY <1>14 DEF CommandFails
<1>15. CASE Stop
  BY <1>15 DEF Stop
<1>16. QED
  BY <1>1, <1>2, <1>3, <1>4, <1>5, <1>6, <1>7, <1>8, <1>9, <1>10, <1>11,
     <1>12, <1>13, <1>14, <1>15 DEF Next

LEMMA SpecIndInv == Spec => []IndInv
<1>1. QED
  BY InitIndInv, NextIndInv, PTL DEF Spec

(* A changelog that is not there yet is not checked in by the build that   *)
(* first writes it, however many commits and pages there are.              *)
THEOREM NotCheckedInAtFirst == Spec => []FirstChangelogIsNotCheckedIn
<1>1. IndInv => FirstChangelogIsNotCheckedIn
  BY DEF IndInv, UnknownInv, FirstChangelogIsNotCheckedIn
<1>2. QED
  BY <1>1, SpecIndInv, PTL

(* A build that succeeds leaves its changelog on the server, unless one    *)
(* before was stopped between writing and pushing.                         *)
THEOREM CheckedInOnSuccess == Spec => SuccessMeansCheckedIn
<1>1. ASSUME IndInv
      PROVE  (UpToDate /\ ~loose) \/ Push => published' = {entries}
  <2>1. CASE UpToDate /\ ~loose
    BY <1>1, <2>1 DEF IndInv, SettledInv, UpToDate, repository, NoFile
  <2>2. CASE Push
    BY <1>1, <2>2 DEF IndInv, WrittenInv, Push
  <2>3. QED
    BY <2>1, <2>2
<1>2. QED
  BY <1>1, SpecIndInv, PTL DEF SuccessMeansCheckedIn

----------------------------------------------------------------------------
(* Counting in the history.                                                *)

LEMMA SmallestOf ==
  ASSUME NEW S \in SUBSET Nat, S # {}
  PROVE  \E x \in S : \A y \in S : x <= y
<1> DEFINE less == {ss \in Nat \X Nat : ss[1] < ss[2]}
<1>0. IsWellFoundedOn(less, Nat)
  BY NatLessThanWellFounded DEF OpToRel
<1> HIDE DEF less
<1>1. PICK x \in S : \A y \in S : ~ (<<y, x>> \in less)
  BY <1>0, WFMin
<1>2. ASSUME NEW y \in S PROVE x <= y
  <2>1. x \in Nat /\ y \in Nat
    OBVIOUS
  <2>2. ~ (y < x)
    BY <1>1, <2>1 DEF less
  <2>3. QED
    BY <2>1, <2>2
<1>3. QED
  BY <1>2

LEMMA LargestOf ==
  ASSUME NEW n \in Nat, NEW S \in SUBSET (1 .. n), S # {}
  PROVE  \E x \in S : \A y \in S : y <= x
<1> DEFINE T == {n - s : s \in S}
<1>1. T \in SUBSET Nat /\ T # {}
  <2>1. ASSUME NEW s \in S PROVE n - s \in Nat
    <3>1. s \in 1 .. n
      OBVIOUS
    <3>2. QED
      BY <3>1
  <2>2. PICK s \in S : TRUE
    OBVIOUS
  <2>3. n - s \in T
    OBVIOUS
  <2>4. QED
    BY <2>1, <2>3
<1>2. PICK t \in T : \A u \in T : t <= u
  BY <1>1, SmallestOf
<1>3. PICK x \in S : t = n - x
  BY <1>2
<1>4. ASSUME NEW y \in S PROVE y <= x
  <2>1. n - y \in T
    OBVIOUS
  <2>2. n - x <= n - y
    BY <2>1, <1>2, <1>3
  <2>3. QED
    BY <2>2
<1>5. QED
  BY <1>4

LEMMA MaxOf ==
  ASSUME NEW n \in Nat, NEW S \in SUBSET (1 .. n), S # {}
  PROVE  Max(S) \in S
BY LargestOf DEF Max

LEMMA MinOf ==
  ASSUME NEW n \in Nat, NEW S \in SUBSET (1 .. n), S # {}
  PROVE  Min(S) \in S
<1>1. S \in SUBSET Nat
  OBVIOUS
<1>2. PICK x \in S : \A y \in S : x <= y
  BY <1>1, SmallestOf
<1>3. QED
  BY <1>2 DEF Min

LEMMA LocalType ==
  ASSUME TypeOK
  PROVE  Len(commits) \in Nat /\ local \in SUBSET (1 .. Len(commits)) /\ local \in SUBSET Nat
<1>1. Len(commits) \in Nat /\ local \subseteq 1 .. Len(commits)
  BY DEF TypeOK, Ids
<1>2. QED
  BY <1>1

LEMMA LocalIsFinite ==
  ASSUME TypeOK, NEW S \in SUBSET local
  PROVE  /\ IsFiniteSet(S)
         /\ Cardinality(S) \in Nat
<1>1. IsFiniteSet(1 .. Len(commits))
  BY LocalType, FS_Interval
<1>2. QED
  BY <1>1, LocalType, FS_Subset, FS_CardinalityType

(* A commit further up has a smaller rank.                                 *)
LEMMA RankDecreases ==
  ASSUME TypeOK, NEW c \in local, NEW d \in local, c < d
  PROVE  Rank(d) < Rank(c)
<1> DEFINE U == {e \in local : e > c}
           V == {e \in local : e > d}
<1>1. IsFiniteSet(U) /\ Cardinality(U) \in Nat /\ Cardinality(V) \in Nat
  BY LocalIsFinite
<1>2. V \subseteq U /\ d \in U /\ d \notin V
  BY LocalType
<1>3. Cardinality(V) <= Cardinality(U) /\ Cardinality(V) # Cardinality(U)
  BY <1>1, <1>2, FS_Subset
<1>4. QED
  BY <1>1, <1>3 DEF Rank

LEMMA RankType == ASSUME TypeOK, NEW c PROVE Rank(c) \in Nat
BY LocalIsFinite DEF Rank

(* The newest n commits.                                                   *)
Newest(n) == {d \in local : Rank(d) < n}

LEMMA NewestAtMost ==
  ASSUME TypeOK, NEW n \in Nat
  PROVE  Cardinality(Newest(n)) <= n
<1>1. CASE Newest(n) = {}
  BY <1>1, FS_EmptySet
<1>2. CASE Newest(n) # {}
  <2>1. Newest(n) \in SUBSET Nat
    BY LocalType DEF Newest
  <2>2. PICK a \in Newest(n) : \A d \in Newest(n) : a <= d
    BY <1>2, <2>1, SmallestOf
  <2> DEFINE U == {e \in local : e > a}
  <2>3. a \in local /\ Rank(a) < n /\ Rank(a) \in Nat /\ a \in Nat
    BY <2>1, <2>2, RankType DEF Newest
  <2>4. Newest(n) \subseteq U \cup {a}
    BY <2>1, <2>2 DEF Newest
  <2>5. IsFiniteSet(U) /\ Cardinality(U) = Rank(a)
    BY LocalIsFinite DEF Rank
  <2>6. a \notin U
    BY <2>3
  <2>7. IsFiniteSet(U \cup {a}) /\ Cardinality(U \cup {a}) = Rank(a) + 1
    BY <2>5, <2>6, FS_AddElement
  <2>8. Cardinality(Newest(n)) <= Rank(a) + 1
    BY <2>4, <2>7, FS_Subset
  <2>9. Cardinality(Newest(n)) \in Nat
    BY LocalIsFinite DEF Newest
  <2>10. QED
    BY <2>3, <2>8, <2>9
<1>3. QED
  BY <1>1, <1>2

LEMMA NewestAtLeast ==
  ASSUME TypeOK, NEW n \in Nat, NEW c \in local, Rank(c) >= n
  PROVE  Cardinality(Newest(n)) >= n
<1> DEFINE Old == {d \in local : Rank(d) >= n}
<1>1. Len(commits) \in Nat /\ Old \in SUBSET (1 .. Len(commits)) /\ Old # {}
  BY LocalType
<1>2. PICK b \in Old : \A d \in Old : d <= b
  BY <1>1, LargestOf
<1> DEFINE U == {e \in local : e > b}
<1>3. ASSUME NEW e \in U PROVE e \in Newest(n)
  <2>1. e \in local /\ e > b /\ e \in Nat /\ b \in Nat
    BY <1>1, LocalType
  <2>2. e \notin Old
    BY <2>1, <1>2
  <2>3. QED
    BY <2>1, <2>2, RankType DEF Newest
<1>4. IsFiniteSet(Newest(n)) /\ Cardinality(U) = Rank(b) /\ Rank(b) \in Nat
  BY LocalIsFinite, RankType DEF Newest, Rank
<1>5. Cardinality(U) <= Cardinality(Newest(n)) /\ Cardinality(Newest(n)) \in Nat
  BY <1>3, <1>4, FS_Subset, FS_CardinalityType
<1>6. QED
  BY <1>2, <1>4, <1>5

(* A page with a commit below it is full.                                  *)
LEMMA PageIsFull ==
  ASSUME TypeOK, NEW c \in local, Rank(c) >= offset + ChunkSize
  PROVE  Cardinality(Page) >= ChunkSize
<1> DEFINE A == Newest(offset + ChunkSize)
           B == Newest(offset)
<1>1. offset \in Nat /\ ChunkSize \in Nat /\ offset + ChunkSize \in Nat
  BY ChunkAssumption DEF TypeOK
<1>2. Cardinality(A) >= offset + ChunkSize
  BY <1>1, NewestAtLeast
<1>3. Cardinality(B) <= offset
  BY <1>1, NewestAtMost
<1>4. B \subseteq A /\ A \cap B = B
  BY <1>1, RankType DEF Newest
<1>5. Page = A \ B
  BY <1>1, RankType DEF Newest, Page
<1>6. IsFiniteSet(A) /\ Cardinality(A) \in Nat /\ Cardinality(B) \in Nat
  BY LocalIsFinite DEF Newest
<1>7. Cardinality(A \ B) = Cardinality(A) - Cardinality(B)
  BY <1>4, <1>6, FS_Difference
<1>8. QED
  BY <1>1, <1>2, <1>3, <1>5, <1>6, <1>7
----------------------------------------------------------------------------
(* Types.                                                                  *)

CommitType == [kind : Kinds, version : Nat]
FileType(f) == Cardinality(f) <= 1 /\ \A content \in f : IsABag(content)

(* The history only grows: what it says of a commit stays.                 *)
CommitsGrow == commits' = commits \/ \E c \in CommitType : commits' = Append(commits, c)

LEMMA GrowingHistory ==
  ASSUME TypeOK, CommitsGrow
  PROVE  /\ commits' \in Seq(CommitType)
         /\ Ids \subseteq Ids'
         /\ \A c \in Ids : commits'[c] = commits[c]
         /\ commits' # commits => NewId \in Ids'
<1>1. commits \in Seq(CommitType) /\ Len(commits) \in Nat
  BY DEF TypeOK, CommitType
<1>2. CASE commits' = commits
  BY <1>1, <1>2 DEF Ids
<1>3. ASSUME NEW c \in CommitType, commits' = Append(commits, c)
      PROVE  /\ commits' \in Seq(CommitType)
             /\ Len(commits') = Len(commits) + 1
             /\ \A i \in Ids : commits'[i] = commits[i]
  BY <1>1, <1>3 DEF Ids
<1>4. QED
  BY <1>1, <1>2, <1>3 DEF CommitsGrow, Ids, NewId

LEMMA OneContent ==
  ASSUME NEW content, IsABag(content)
  PROVE  FileType({content})
BY FS_Singleton DEF FileType

LEMMA SumOfBags ==
  ASSUME NEW A, NEW B, IsABag(A), IsABag(B)
  PROVE  IsABag(A (+) B) /\ DOMAIN (A (+) B) = DOMAIN A \cup DOMAIN B
<1> DEFINE C == A (+) B
           Positive == {n \in Nat : n > 0}
<1>1. DOMAIN C = DOMAIN A \cup DOMAIN B
  BY DEF (+)
<1>2. ASSUME NEW e \in DOMAIN C PROVE C[e] \in Positive
  <2>1. e \in DOMAIN A => A[e] \in Positive
    BY DEF IsABag
  <2>2. e \in DOMAIN B => B[e] \in Positive
    BY DEF IsABag
  <2>3. C[e] = (IF e \in DOMAIN A THEN A[e] ELSE 0) + (IF e \in DOMAIN B THEN B[e] ELSE 0)
    BY <1>2 DEF (+)
  <2>4. QED
    BY <1>1, <2>1, <2>2, <2>3
<1>3. C = [e \in DOMAIN C |-> C[e]]
  BY DEF (+)
<1>4. QED
  BY <1>1, <1>2, <1>3 DEF IsABag

LEMMA BagOfSet ==
  ASSUME NEW S
  PROVE  IsABag(SetToBag(S)) /\ DOMAIN SetToBag(S) = S
BY DEF SetToBag, IsABag

LEMMA EmptyIsBag == IsABag(EmptyBag)
BY BagOfSet DEF EmptyBag

LEMMA VersionType ==
  ASSUME TypeOK
  PROVE  VersionOf(0) \in Nat
<1>1. CASE UpdatesAbove(0) = {}
  BY <1>1 DEF VersionOf, TypeOK
<1>2. CASE UpdatesAbove(0) # {}
  <2>1. UpdatesAbove(0) \in SUBSET (1 .. Len(commits)) /\ Len(commits) \in Nat
    BY LocalType DEF UpdatesAbove, Page
  <2>2. Min(UpdatesAbove(0)) \in 1 .. Len(commits)
    BY <1>2, <2>1, MinOf
  <2>3. commits \in Seq(CommitType)
    BY DEF TypeOK, CommitType
  <2>4. commits[Min(UpdatesAbove(0))] \in CommitType
    BY <2>1, <2>2, <2>3
  <2>5. QED
    BY <1>2, <2>4 DEF VersionOf, CommitType
<1>3. QED
  BY <1>1, <1>2

(* The parts of TypeOK that the actions disturb separately, and a clone    *)
(* that is never empty.                                                    *)
RepositoryType ==
  /\ commits \in Seq(CommitType)
  /\ local \subseteq Ids /\ remote \subseteq Ids
  /\ known \subseteq local
  /\ local # {}

ContentType ==
  /\ indexed \in BOOLEAN
  /\ FileType(file) /\ FileType(committed) /\ FileType(published)

BuildType ==
  /\ pc \in Steps
  /\ head \in Nat /\ offset \in Nat /\ current \in Nat
  /\ IsABag(entries)
  /\ isNew \in BOOLEAN
  /\ grown \in BOOLEAN /\ loose \in BOOLEAN /\ fresh \in BOOLEAN

TypeInv == RepositoryType /\ ContentType /\ BuildType

LEMMA TypeParts == TypeInv <=> TypeOK /\ local # {}
BY DEF TypeInv, TypeOK, RepositoryType, ContentType, BuildType, FileType, CommitType

LEMMA InitType == Init => TypeInv
<1> SUFFICES ASSUME Init PROVE TypeInv
  OBVIOUS
<1>1. RepositoryType
  <2>1. Commit("plain", 0) \in CommitType
    BY DEF Commit, CommitType, Kinds
  <2>2. commits = <<Commit("plain", 0)>> /\ Len(commits) = 1 /\ commits \in Seq(CommitType)
    BY <2>1 DEF Init
  <2>3. QED
    BY <2>2 DEF Init, RepositoryType, Ids
<1>2. ContentType
  <2>1. FileType(NoFile)
    BY FS_EmptySet DEF NoFile, FileType
  <2>2. FileType({EmptyBag})
    BY OneContent, EmptyIsBag
  <2>3. QED
    BY <2>1, <2>2 DEF Init, ContentType
<1>3. BuildType
  BY EmptyIsBag DEF Init, BuildType, Steps
<1>4. QED
  BY <1>1, <1>2, <1>3 DEF TypeInv

(* A step that adds at most one commit, and puts commits that exist into   *)
(* the clone and on the server.                                            *)
LEMMA RepositoryStep ==
  ASSUME TypeInv, CommitsGrow, local \subseteq local',
         local' \subseteq Ids', remote' \subseteq Ids', known' \subseteq local'
  PROVE  RepositoryType'
<1>1. TypeOK
  BY TypeParts
<1>2. commits' \in Seq(CommitType)
  BY <1>1, GrowingHistory
<1>3. local' # {}
  BY DEF TypeInv, RepositoryType
<1>4. QED
  BY <1>2, <1>3 DEF RepositoryType

LEMMA PullGrows ==
  ASSUME TypeInv, PullFromServer
  PROVE  /\ CommitsGrow
         /\ local \subseteq local' /\ local' \subseteq Ids'
<1>1. Commit("plain", 0) \in CommitType
  BY DEF Commit, CommitType, Kinds
<1>2. CommitsGrow
  BY <1>1 DEF PullFromServer, CommitsGrow
<1>3. local \subseteq Ids /\ remote \subseteq Ids
  BY DEF TypeInv, RepositoryType
<1>4. Ids \subseteq Ids' /\ (commits' # commits => NewId \in Ids')
  BY <1>2, GrowingHistory, TypeParts
<1>5. CASE commits' = commits /\ local' = local \cup remote
  BY <1>2, <1>3, <1>4, <1>5
<1>6. CASE commits' = Append(commits, Commit("plain", 0)) /\ local' = local \cup remote \cup {NewId}
  <2>1. commits' # commits
    BY <1>1, <1>6 DEF TypeInv, RepositoryType
  <2>2. QED
    BY <1>2, <1>3, <1>4, <1>6, <2>1
<1>7. QED
  BY <1>5, <1>6 DEF PullFromServer

LEMMA NewCommit ==
  ASSUME TypeInv, NEW kind \in Kinds, NEW version \in Nat,
         commits' = Append(commits, Commit(kind, version))
  PROVE  CommitsGrow /\ Ids \subseteq Ids' /\ NewId \in Ids'
<1>1. Commit(kind, version) \in CommitType
  BY DEF Commit, CommitType
<1>2. commits' # commits
  BY <1>1 DEF TypeInv, RepositoryType
<1>3. QED
  BY <1>1, <1>2, GrowingHistory, TypeParts DEF CommitsGrow

(* The clone only grows, whoever moves.                                    *)
LEMMA CloneGrows ==
  ASSUME TypeInv, [Next]_vars
  PROVE  CommitsGrow /\ local \subseteq local' /\ RepositoryType'
<1> USE DEF repository, reading, history, Goto, Return
<1>1. local \subseteq Ids /\ remote \subseteq Ids /\ known \subseteq local
  BY DEF TypeInv, RepositoryType
<1>2. ASSUME UNCHANGED <<commits, local>>, remote' \in {remote, local}, known' \in {known, local}
      PROVE  CommitsGrow /\ local \subseteq local' /\ RepositoryType'
  <2>1. CommitsGrow /\ Ids' = Ids
    BY <1>2 DEF CommitsGrow, Ids
  <2>2. QED
    BY <1>1, <1>2, <2>1, RepositoryStep
<1>3. CASE SomeoneCommits
  <2>1. PICK kind \in {"tagged", "plain"} : commits' = Append(commits, Commit(kind, 0))
    BY <1>3 DEF SomeoneCommits
  <2>2. kind \in Kinds /\ 0 \in Nat
    BY DEF Kinds
  <2>3. CommitsGrow /\ Ids \subseteq Ids' /\ NewId \in Ids'
    BY <2>1, <2>2, NewCommit
  <2>4. /\ known' = known
        /\ \/ local' = local /\ remote' = remote \cup {NewId}
           \/ local' = local \cup {NewId} /\ remote' = remote
    BY <1>3 DEF SomeoneCommits
  <2>5. QED
    BY <1>1, <2>3, <2>4, RepositoryStep
<1>4. CASE SomeonePulls \/ Pull
  <2>1. PullFromServer /\ remote' = remote /\ known' = known
    BY <1>4 DEF SomeonePulls, Pull
  <2>2. CommitsGrow /\ local \subseteq local' /\ local' \subseteq Ids'
    BY <2>1, PullGrows
  <2>3. Ids \subseteq Ids'
    BY <2>2, GrowingHistory, TypeParts
  <2>4. QED
    BY <1>1, <2>1, <2>2, <2>3, RepositoryStep
<1>5. CASE CommitFile
  <2>1. /\ commits' = Append(commits, Commit("update", head))
        /\ local' = local \cup {NewId} /\ remote' = remote /\ known' = known
    BY <1>5 DEF CommitFile
  <2>2. "update" \in Kinds /\ head \in Nat
    BY DEF Kinds, TypeInv, BuildType
  <2>3. CommitsGrow /\ Ids \subseteq Ids' /\ NewId \in Ids'
    BY <2>1, <2>2, NewCommit
  <2>4. QED
    BY <1>1, <2>1, <2>3, RepositoryStep
<1>6. CASE FileIsDeleted \/ CalculateVersionNumber \/ GetHistory \/ UpToDate \/ Differs
           \/ Exists \/ WriteToFile \/ WriteFails \/ Add \/ Push \/ CommandFails \/ Stop
           \/ UNCHANGED vars
  <2>1. UNCHANGED <<commits, local>> /\ remote' \in {remote, local} /\ known' \in {known, local}
    BY <1>6 DEF FileIsDeleted, CalculateVersionNumber, GetHistory, UpToDate, Differs, Exists,
                WriteToFile, WriteFails, Add, Push, CommandFails, Stop, vars
  <2>2. QED
    BY <1>2, <2>1
<1>7. QED
  BY <1>3, <1>4, <1>5, <1>6 DEF Next

LEMMA ContentStep ==
  ASSUME TypeInv, [Next]_vars
  PROVE  ContentType'
<1> USE DEF repository, reading, history, Goto, Return
<1>1. FileType({entries})
  BY OneContent DEF TypeInv, BuildType
<1>2. FileType(NoFile)
  BY FS_EmptySet DEF NoFile, FileType
<1>3. /\ indexed' \in {indexed, TRUE}
      /\ file' \in {file, NoFile, {entries}}
      /\ committed' \in {committed, file}
      /\ published' \in {published, committed}
  BY DEF Next, SomeoneCommits, SomeonePulls, FileIsDeleted, CalculateVersionNumber, GetHistory,
         UpToDate, Differs, Exists, WriteToFile, WriteFails, Add, CommitFile, Pull, Push,
         CommandFails, Stop, vars
<1>4. QED
  BY <1>1, <1>2, <1>3 DEF TypeInv, ContentType

LEMMA BuildStep ==
  ASSUME TypeInv, [Next]_vars
  PROVE  BuildType'
<1> USE DEF repository, reading, history, Goto, Return
<1>1. BuildType
  BY DEF TypeInv
<1>2. CASE SomeoneCommits \/ SomeonePulls \/ FileIsDeleted \/ Differs \/ Exists \/ WriteToFile
           \/ Add \/ CommitFile \/ Pull \/ UNCHANGED vars
  BY <1>1, <1>2 DEF SomeoneCommits, SomeonePulls, FileIsDeleted, Differs, Exists, WriteToFile,
                    Add, CommitFile, Pull, vars, BuildType, Steps
<1>3. CASE UpToDate \/ WriteFails \/ Push \/ CommandFails \/ Stop
  <2>1. /\ pc' = "idle" /\ head' = 0 /\ offset' = 0 /\ current' = 0
        /\ entries' = EmptyBag /\ isNew' = FALSE
        /\ UNCHANGED <<grown, fresh>> /\ loose' \in {loose, FALSE}
    BY <1>3 DEF UpToDate, WriteFails, Push, CommandFails, Stop
  <2>2. QED
    BY <1>1, <2>1, EmptyIsBag DEF BuildType, Steps
<1>4. CASE CalculateVersionNumber
  <2>1. Max(local) \in Nat
    BY LocalType, MaxOf, TypeParts DEF TypeInv, RepositoryType
  <2>2. QED
    BY <1>1, <1>4, <2>1 DEF CalculateVersionNumber, BuildType, Steps
<1>5. CASE GetHistory
  <2>1. IsABag(entries (+) EntriesOfPage)
    BY <1>1, SumOfBags, BagOfSet DEF BuildType, EntriesOfPage
  <2>2. VersionOf(0) \in Nat /\ offset + ChunkSize \in Nat
    BY <1>1, VersionType, TypeParts, ChunkAssumption DEF BuildType
  <2>3. QED
    BY <1>1, <1>5, <2>1, <2>2 DEF GetHistory, BuildType, Steps
<1>6. QED
  BY <1>2, <1>3, <1>4, <1>5 DEF Next

LEMMA SpecTypeInv == Spec => []TypeInv
<1>1. TypeInv /\ [Next]_vars => TypeInv'
  BY CloneGrows, ContentStep, BuildStep DEF TypeInv
<1>2. QED
  BY <1>1, InitType, PTL DEF Spec

(* Each variable keeps its type, and nothing refers to a commit that does  *)
(* not exist.                                                              *)
THEOREM TypesHold == Spec => []TypeOK
<1>1. QED
  BY SpecTypeInv, TypeParts, PTL

----------------------------------------------------------------------------
(* Pages.                                                                  *)

Read(c) == \E e \in DOMAIN entries : e.of = c

(* A commit that the build knew is in what was read, or on a page to come: *)
(* others can only push it further down.                                   *)
PagesInv ==
  /\ pc = "idle" => offset = 0
  /\ pc = "page" =>
       \A c \in known : commits[c].kind = "tagged" => Read(c) \/ Rank(c) >= offset
  /\ pc = "compare" =>
       \A c \in known : commits[c].kind = "tagged" => Read(c)

LEMMA RankGrows ==
  ASSUME TypeInv, [Next]_vars, NEW c \in local
  PROVE  Rank(c) <= Rank(c)' /\ Rank(c)' \in Nat
<1> DEFINE U == {d \in local : d > c}
<1>1. local \subseteq local' /\ RepositoryType'
  BY CloneGrows
<1>2. Len(commits') \in Nat /\ local' \in SUBSET (1 .. Len(commits'))
  BY <1>1 DEF RepositoryType, Ids
<1>3. IsFiniteSet(local')
  <2>1. IsFiniteSet(1 .. Len(commits'))
    BY <1>2, FS_Interval
  <2>2. QED
    BY <1>2, <2>1, FS_Subset
<1>4. IsFiniteSet(U') /\ U \subseteq U'
  BY <1>1, <1>3, FS_Subset
<1>5. Cardinality(U) <= Cardinality(U') /\ Cardinality(U') \in Nat
  BY <1>4, FS_Subset, FS_CardinalityType
<1>6. QED
  BY <1>5 DEF Rank

LEMMA KindsStay ==
  ASSUME TypeInv, [Next]_vars, NEW c \in known
  PROVE  c \in local /\ commits'[c] = commits[c]
BY CloneGrows, GrowingHistory, TypeParts DEF TypeInv, RepositoryType

LEMMA PageStep ==
  ASSUME TypeInv, PagesInv, GetHistory
  PROVE  PagesInv'
<1>1. TypeOK
  BY TypeParts
<1>2. /\ pc = "page" /\ offset' = offset + ChunkSize
      /\ entries' = entries (+) EntriesOfPage
      /\ commits' = commits /\ local' = local /\ known' = known
      /\ pc' = IF Cardinality(Page) < ChunkSize THEN "compare" ELSE "page"
  BY DEF GetHistory, Goto, repository, history
<1>3. DOMAIN entries' = DOMAIN entries \cup DOMAIN EntriesOfPage
  BY <1>2, SumOfBags, BagOfSet DEF TypeInv, BuildType, EntriesOfPage
<1>4. ASSUME NEW c \in known, commits[c].kind = "tagged", ~ Read(c)'
      PROVE  Rank(c) >= offset + ChunkSize
  <2>1. c \in local /\ ~ Read(c) /\ Rank(c) >= offset
    BY <1>2, <1>3, <1>4 DEF Read, PagesInv, TypeInv, RepositoryType
  <2>2. ASSUME c \in Page PROVE FALSE
    <3> DEFINE e == [version |-> VersionOf(c), of |-> c]
    <3>1. e \in DOMAIN EntriesOfPage
      BY <1>4, <2>2, BagOfSet DEF EntriesOfPage
    <3>2. e.of = c
      OBVIOUS
    <3>3. QED
      BY <1>3, <1>4, <3>1, <3>2 DEF Read
  <2>3. Rank(c) \in Nat /\ offset \in Nat /\ ChunkSize \in Nat
    BY <1>1, RankType, ChunkAssumption DEF TypeOK
  <2>4. QED
    BY <2>1, <2>2, <2>3 DEF Page
<1>5. ASSUME NEW c \in known, commits[c].kind = "tagged", ~ Read(c)'
      PROVE  pc' = "page" /\ Rank(c)' >= offset'
  <2>1. Rank(c) >= offset + ChunkSize /\ c \in local
    BY <1>4, <1>5 DEF TypeInv, RepositoryType
  <2>2. Cardinality(Page) >= ChunkSize
    BY <1>1, <2>1, PageIsFull
  <2>3. Cardinality(Page) \in Nat /\ ChunkSize \in Nat
    BY <1>1, LocalIsFinite, ChunkAssumption DEF Page
  <2>4. Rank(c)' = Rank(c)
    BY <1>2 DEF Rank
  <2>5. QED
    BY <1>2, <2>1, <2>2, <2>3, <2>4
<1>6. pc' # "idle" /\ (pc' = "compare" => pc' # "page")
  BY <1>2
<1>7. QED
  BY <1>2, <1>5, <1>6 DEF PagesInv

LEMMA NextPagesInv ==
  ASSUME TypeInv, PagesInv, [Next]_vars
  PROVE  PagesInv'
<1> USE DEF repository, reading, history, Goto, Return
<1>1. CASE SomeoneCommits \/ SomeonePulls \/ FileIsDeleted \/ UNCHANGED vars
  <2>1. UNCHANGED <<pc, offset, entries, known>>
    BY <1>1 DEF SomeoneCommits, SomeonePulls, FileIsDeleted, vars
  <2>2. ASSUME NEW c \in known, pc = "page", commits'[c].kind = "tagged", ~ Read(c)
        PROVE  Rank(c)' >= offset
    <3>1. c \in local /\ commits[c].kind = "tagged"
      BY <2>2, KindsStay
    <3>2. Rank(c) >= offset /\ Rank(c) <= Rank(c)'
      BY <2>2, <3>1, RankGrows DEF PagesInv
    <3>3. Rank(c) \in Nat /\ offset \in Nat
      BY RankType, TypeParts DEF TypeOK
    <3>4. Rank(c)' \in Nat
      BY <3>1, RankGrows
    <3>5. QED
      BY <3>2, <3>3, <3>4
  <2>3. ASSUME NEW c \in known, pc = "compare", commits'[c].kind = "tagged"
        PROVE  Read(c)
    BY <2>3, KindsStay DEF PagesInv
  <2>4. \A c : Read(c)' <=> Read(c)
    BY <2>1 DEF Read
  <2>5. QED
    BY <2>1, <2>2, <2>3, <2>4 DEF PagesInv
<1>2. CASE CalculateVersionNumber
  <2>1. pc' = "page" /\ offset' = 0 /\ known' = local /\ local' = local
    BY <1>2 DEF CalculateVersionNumber, PagesInv
  <2>2. \A c : Rank(c)' = Rank(c) /\ Rank(c) \in Nat
    BY <2>1, RankType, TypeParts DEF Rank
  <2>3. QED
    BY <2>1, <2>2 DEF PagesInv
<1>3. CASE GetHistory
  BY <1>3, PageStep
<1>4. CASE UpToDate \/ WriteFails \/ Push \/ CommandFails \/ Stop
  BY <1>4 DEF UpToDate, WriteFails, Push, CommandFails, Stop, PagesInv
<1>5. CASE Differs \/ Exists \/ WriteToFile \/ Add \/ CommitFile \/ Pull
  BY <1>5 DEF Differs, Exists, WriteToFile, Add, CommitFile, Pull, PagesInv
<1>6. QED
  BY <1>1, <1>2, <1>3, <1>4, <1>5 DEF Next

(* No entry of the clone is lost, whatever the size of a page, however     *)
(* many pages there are, and whatever others commit and pull between two.  *)
THEOREM NothingIsLost == Spec => []NoEntryLost
<1>1. Init => PagesInv
  BY DEF Init, PagesInv
<1>2. TypeInv /\ PagesInv /\ [Next]_vars => PagesInv'
  BY NextPagesInv
<1>3. PagesInv => NoEntryLost
  BY DEF PagesInv, NoEntryLost, Read
<1>4. QED
  BY <1>1, <1>2, <1>3, SpecTypeInv, PTL DEF Spec
----------------------------------------------------------------------------
(* The changelog that the pages make.                                      *)

Tagged(S) == {d \in S : commits[d].kind = "tagged"}
UpdatesIn(S, c) == {u \in S : u > c /\ commits[u].kind = "update"}
Named(U) == IF U = {} THEN head ELSE commits[Min(U)].version

(* The entries of the commits of S, if the clone was all that is read.     *)
EntryOf(c) == [version |-> Named(UpdatesIn(local, c)), of |-> c]
EntriesOf(S) == {EntryOf(c) : c \in Tagged(S)}

(* While nobody adds to the clone: what was read is what the newest commits *)
(* of it say, and the group that is open belongs to the oldest update among *)
(* them.  The update that checks the changelog in, and is then the newest,  *)
(* names the commit that was the newest before.                             *)
ReadingInv ==
  /\ pc = "idle" => entries = EmptyBag
  /\ ~grown =>
       /\ pc \notin {"idle", "pull", "push"} => head = Max(local)
       /\ pc = "page" =>
            /\ entries = SetToBag(EntriesOf(Newest(offset)))
            /\ current = Named(UpdatesIn(Newest(offset), 0))
       /\ pc \notin {"idle", "page"} => entries = SetToBag(EntriesOf(local))
       /\ pc \in {"pull", "push"} => \A c \in Tagged(local) : UpdatesIn(local, c) # {}

LEMMA MinIs ==
  ASSUME NEW n \in Nat, NEW S \in SUBSET (1 .. n), NEW m \in S, \A y \in S : m <= y
  PROVE  Min(S) = m
<1>1. Min(S) \in S /\ \A y \in S : Min(S) <= y
  BY DEF Min
<1>2. Min(S) <= m /\ m <= Min(S)
  BY <1>1
<1>3. m \in 1 .. n /\ Min(S) \in 1 .. n
  BY <1>1
<1>4. QED
  BY <1>2, <1>3

LEMMA MinOfUnion ==
  ASSUME NEW n \in Nat, NEW U \in SUBSET (1 .. n), NEW W \in SUBSET (1 .. n),
         U # {}, \A u \in U, w \in W : u < w
  PROVE  Min(U \cup W) = Min(U)
<1>1. U \in SUBSET Nat
  OBVIOUS
<1>2. PICK m \in U : \A u \in U : m <= u
  BY <1>1, SmallestOf
<1>3. Min(U) = m
  BY <1>2, MinIs
<1>4. ASSUME NEW y \in U \cup W PROVE m <= y
  BY <1>1, <1>2, <1>4
<1>5. Min(U \cup W) = m
  BY <1>4, MinIs
<1>6. QED
  BY <1>3, <1>5

LEMMA DisjointBags ==
  ASSUME NEW A, NEW B, A \cap B = {}
  PROVE  SetToBag(A) (+) SetToBag(B) = SetToBag(A \cup B)
BY DEF SetToBag, (+)

(* A page follows what was read before, and leaves no gap.                 *)
LEMMA PageFollows ==
  ASSUME TypeOK
  PROVE  /\ Newest(offset + ChunkSize) = Newest(offset) \cup Page
         /\ Newest(offset) \cap Page = {}
         /\ \A p \in Page, d \in Newest(offset) : p < d
         /\ \A p \in Newest(offset + ChunkSize), d \in local :
              p < d => d \in Newest(offset + ChunkSize)
<1>1. offset \in Nat /\ ChunkSize \in Nat /\ offset + ChunkSize \in Nat
  BY ChunkAssumption DEF TypeOK
<1>2. \A d \in local : d \in Nat /\ Rank(d) \in Nat
  BY LocalType, RankType
<1>3. ASSUME NEW p \in Page, NEW d \in Newest(offset)
      PROVE  p < d
  <2>1. p \in local /\ d \in local /\ offset <= Rank(p) /\ Rank(d) < offset
    BY DEF Page, Newest
  <2>2. p # d
    BY <1>1, <1>2, <2>1
  <2>3. ~ (d < p)
    BY <1>1, <1>2, <2>1, RankDecreases
  <2>4. QED
    BY <1>2, <2>1, <2>2, <2>3
<1>4. ASSUME NEW p \in Newest(offset + ChunkSize), NEW d \in local, p < d
      PROVE  d \in Newest(offset + ChunkSize)
  <2>1. p \in local /\ Rank(p) < offset + ChunkSize
    BY DEF Newest
  <2>2. Rank(d) < Rank(p)
    BY <1>4, <2>1, RankDecreases
  <2>3. QED
    BY <1>1, <1>2, <2>1, <2>2 DEF Newest
<1>5. Newest(offset + ChunkSize) = Newest(offset) \cup Page
  BY <1>1, <1>2 DEF Newest, Page
<1>6. Newest(offset) \cap Page = {}
  BY <1>1, <1>2 DEF Newest, Page
<1>7. QED
  BY <1>3, <1>4, <1>5, <1>6

(* An entry of a page, and what comes below the page, goes to the group of *)
(* the first update after it, whether that is on the page or was above.    *)
LEMMA VersionIs ==
  ASSUME TypeOK, current = Named(UpdatesIn(Newest(offset), 0)),
         NEW c \in Nat, \A d \in Newest(offset) : c < d
  PROVE  VersionOf(c) = Named(UpdatesIn(Newest(offset + ChunkSize), c))
<1> DEFINE U == UpdatesAbove(c)
           W == UpdatesIn(Newest(offset), 0)
<1>1. Len(commits) \in Nat /\ U \in SUBSET (1 .. Len(commits)) /\ W \in SUBSET (1 .. Len(commits))
  BY LocalType DEF UpdatesAbove, UpdatesIn, Page, Newest
<1>2. \A d \in Newest(offset) : d > 0
  BY LocalType DEF Newest
<1>3. UpdatesIn(Newest(offset + ChunkSize), c) = U \cup W
  BY <1>2, PageFollows DEF UpdatesIn, UpdatesAbove
<1>4. \A u \in U, w \in W : u < w
  BY PageFollows DEF UpdatesAbove, UpdatesIn
<1>5. CASE U = {}
  BY <1>3, <1>5 DEF VersionOf
<1>6. CASE U # {}
  <2>1. Min(U \cup W) = Min(U)
    BY <1>1, <1>4, <1>6, MinOfUnion
  <2>2. U \cup W # {}
    BY <1>6
  <2>3. VersionOf(c) = commits[Min(U)].version
    BY <1>6 DEF VersionOf
  <2>4. QED
    BY <1>3, <2>1, <2>2, <2>3 DEF Named
<1>7. QED
  BY <1>5, <1>6

(* The entries of a page are those of the changelog.                       *)
LEMMA EntriesOfPageAre ==
  ASSUME TypeOK, current = Named(UpdatesIn(Newest(offset), 0))
  PROVE  EntriesOfPage = SetToBag(EntriesOf(Page))
<1>1. ASSUME NEW c \in Page
      PROVE  VersionOf(c) = Named(UpdatesIn(local, c))
  <2>1. c \in local /\ c \in Nat /\ c \in Newest(offset + ChunkSize)
    BY LocalType, PageFollows DEF Page
  <2>2. VersionOf(c) = Named(UpdatesIn(Newest(offset + ChunkSize), c))
    BY <2>1, VersionIs, PageFollows
  <2>3. UpdatesIn(Newest(offset + ChunkSize), c) = UpdatesIn(local, c)
    BY <2>1, PageFollows, LocalType DEF UpdatesIn, Newest
  <2>4. QED
    BY <2>2, <2>3
<1>2. \A c \in Tagged(Page) : [version |-> VersionOf(c), of |-> c] = EntryOf(c)
  BY <1>1 DEF EntryOf, Tagged
<1>3. {[version |-> VersionOf(c), of |-> c] : c \in Tagged(Page)} = EntriesOf(Page)
  BY <1>2 DEF EntriesOf
<1>4. QED
  BY <1>3 DEF EntriesOfPage, Tagged

LEMMA ReadPage ==
  ASSUME TypeInv, ReadingInv, GetHistory
  PROVE  ReadingInv'
<1> SUFFICES ASSUME ~grown' PROVE ReadingInv'
  BY DEF ReadingInv, GetHistory, Goto
<1>1. /\ pc = "page" /\ ~grown /\ offset' = offset + ChunkSize
      /\ entries' = entries (+) EntriesOfPage /\ current' = VersionOf(0)
      /\ UNCHANGED <<commits, local, head>>
      /\ pc' = IF Cardinality(Page) < ChunkSize THEN "compare" ELSE "page"
  BY DEF GetHistory, Goto, repository, history
<1>2. /\ TypeOK /\ head = Max(local)
      /\ entries = SetToBag(EntriesOf(Newest(offset)))
      /\ current = Named(UpdatesIn(Newest(offset), 0))
  BY <1>1, TypeParts DEF ReadingInv
<1>3. entries' = SetToBag(EntriesOf(Newest(offset + ChunkSize)))
  <2>1. EntriesOf(Newest(offset)) \cap EntriesOf(Page) = {}
    <3>1. SUFFICES ASSUME NEW c \in Tagged(Newest(offset)), NEW d \in Tagged(Page),
                          EntryOf(c) = EntryOf(d)
                   PROVE  FALSE
      BY DEF EntriesOf
    <3>2. c = d
      BY <3>1 DEF EntryOf
    <3>3. QED
      BY <1>2, <3>2, PageFollows DEF Tagged
  <2>2. EntriesOf(Newest(offset)) \cup EntriesOf(Page) = EntriesOf(Newest(offset + ChunkSize))
    BY <1>2, PageFollows DEF EntriesOf, Tagged
  <2>3. QED
    BY <1>1, <1>2, <2>1, <2>2, DisjointBags, EntriesOfPageAre
<1>4. current' = Named(UpdatesIn(Newest(offset + ChunkSize), 0))
  <2>1. \A d \in Newest(offset) : 0 < d
    BY <1>2, LocalType DEF Newest
  <2>2. QED
    BY <1>1, <1>2, <2>1, VersionIs
<1>5. ASSUME pc' = "compare" PROVE Newest(offset + ChunkSize) = local
  <2>1. Cardinality(Page) < ChunkSize /\ Cardinality(Page) \in Nat /\ ChunkSize \in Nat
    BY <1>1, <1>2, <1>5, LocalIsFinite, ChunkAssumption DEF Page
  <2>2. \A c \in local : ~ (Rank(c) >= offset + ChunkSize)
    BY <1>2, <2>1, PageIsFull
  <2>3. \A c \in local : Rank(c) \in Nat /\ offset + ChunkSize \in Nat
    BY <1>2, <2>1, RankType DEF TypeOK
  <2>4. QED
    BY <2>2, <2>3 DEF Newest
<1>6. EntriesOf(Newest(offset))' = EntriesOf(Newest(offset + ChunkSize))
  BY <1>1 DEF Newest, Rank, EntriesOf, EntryOf, Tagged, Named, UpdatesIn
<1>7. Named(UpdatesIn(Newest(offset), 0))' = Named(UpdatesIn(Newest(offset + ChunkSize), 0))
  BY <1>1 DEF Newest, Rank, Named, UpdatesIn
<1>8. EntriesOf(local)' = EntriesOf(local)
  BY <1>1 DEF EntriesOf, EntryOf, Tagged, Named, UpdatesIn
<1>9. SetToBag(EntriesOf(Newest(offset)))' = SetToBag(EntriesOf(Newest(offset + ChunkSize)))
  BY <1>6 DEF SetToBag
<1>10. SetToBag(EntriesOf(local))' = SetToBag(EntriesOf(local))
  BY <1>8 DEF SetToBag
<1>11. head' = Max(local)'
  BY <1>1, <1>2
<1>12. CASE pc' = "page"
  BY <1>3, <1>4, <1>7, <1>9, <1>11, <1>12 DEF ReadingInv
<1>13. CASE pc' = "compare"
  BY <1>3, <1>5, <1>10, <1>11, <1>13 DEF ReadingInv
<1>14. QED
  BY <1>1, <1>12, <1>13

(* What the changelog says stays while the clone and the newest commit do, *)
(* whatever is added elsewhere.                                            *)
LEMMA EntriesStay ==
  ASSUME TypeInv, [Next]_vars, UNCHANGED <<local, head, offset>>
  PROVE  /\ SetToBag(EntriesOf(local))' = SetToBag(EntriesOf(local))
         /\ SetToBag(EntriesOf(Newest(offset)))' = SetToBag(EntriesOf(Newest(offset)))
         /\ Named(UpdatesIn(Newest(offset), 0))' = Named(UpdatesIn(Newest(offset), 0))
         /\ (\A c \in Tagged(local) : UpdatesIn(local, c) # {})
              => (\A c \in Tagged(local) : UpdatesIn(local, c) # {})'
<1>1. \A c \in local : commits'[c] = commits[c]
  BY CloneGrows, GrowingHistory, TypeParts DEF TypeInv, RepositoryType
<1>2. Newest(offset)' = Newest(offset) /\ Newest(offset) \subseteq local
  BY DEF Newest, Rank
<1>3. \A c : UpdatesIn(local, c)' = UpdatesIn(local, c)
  BY <1>1 DEF UpdatesIn
<1>4. \A c : Named(UpdatesIn(local, c))' = Named(UpdatesIn(local, c))
  <2>1. TAKE c
  <2>2. Len(commits) \in Nat /\ UpdatesIn(local, c) \in SUBSET (1 .. Len(commits))
    BY LocalType, TypeParts DEF UpdatesIn
  <2>3. UpdatesIn(local, c) # {} => Min(UpdatesIn(local, c)) \in local
    BY <2>2, MinOf DEF UpdatesIn
  <2>4. QED
    BY <1>1, <1>3, <2>3 DEF Named
<1>5. \A c : EntryOf(c)' = EntryOf(c)
  BY <1>4 DEF EntryOf
<1>6. EntriesOf(local)' = EntriesOf(local) 
  BY <1>1, <1>5 DEF EntriesOf, Tagged
<1>7. EntriesOf(Newest(offset))' = EntriesOf(Newest(offset))
  BY <1>1, <1>2, <1>5 DEF EntriesOf, Tagged
<1>8. Named(UpdatesIn(Newest(offset), 0))' = Named(UpdatesIn(Newest(offset), 0))
  <2>1. UpdatesIn(Newest(offset), 0)' = UpdatesIn(Newest(offset), 0)
    BY <1>1, <1>2 DEF UpdatesIn
  <2>2. Len(commits) \in Nat /\ UpdatesIn(Newest(offset), 0) \in SUBSET (1 .. Len(commits))
    BY <1>2, LocalType, TypeParts DEF UpdatesIn
  <2>3. UpdatesIn(Newest(offset), 0) # {} => Min(UpdatesIn(Newest(offset), 0)) \in local
    BY <1>2, <2>2, MinOf DEF UpdatesIn
  <2>4. QED
    BY <1>1, <2>1, <2>3 DEF Named
<1>9. Tagged(local)' = Tagged(local)
  BY <1>1 DEF Tagged
<1>10. QED
  BY <1>3, <1>6, <1>7, <1>8, <1>9 DEF SetToBag

(* The commit that checks a changelog in is the first update after the     *)
(* entries that had none, and names the commit they were listed under.     *)
LEMMA ReadCommit ==
  ASSUME TypeInv, ReadingInv, CommitFile
  PROVE  ReadingInv'
<1> SUFFICES ASSUME ~grown' PROVE ReadingInv'
  BY DEF ReadingInv, CommitFile, Goto
<1>1. /\ pc = "commit" /\ pc' = "pull" /\ ~grown
      /\ commits' = Append(commits, Commit("update", head))
      /\ local' = local \cup {NewId}
      /\ UNCHANGED <<head, entries>>
  BY DEF CommitFile, Goto, reading, history
<1>2. entries = SetToBag(EntriesOf(local))
  BY <1>1 DEF ReadingInv
<1>3. commits \in Seq(CommitType) /\ Len(commits) \in Nat
  BY DEF TypeInv, RepositoryType
<1>4. NewId \in Nat /\ \A c \in local : c \in Nat /\ c < NewId
  <2>1. \A c \in local : c \in 1 .. Len(commits)
    BY LocalType, TypeParts
  <2>2. QED
    BY <1>3, <2>1 DEF NewId
<1>5. /\ \A c \in local : commits'[c] = commits[c]
      /\ commits'[NewId].kind = "update" /\ commits'[NewId].version = head
  <2>1. \A c \in local : c \in 1 .. Len(commits)
    BY LocalType, TypeParts
  <2>2. \A c \in local : commits'[c] = commits[c]
    BY <1>1, <1>3, <2>1
  <2>3. commits'[NewId] = Commit("update", head)
    BY <1>1, <1>3 DEF NewId
  <2>4. QED
    BY <2>2, <2>3 DEF Commit
<1>6. local' = local \cup {NewId} /\ head' = head
  BY <1>1
<1>7. Tagged(local)' = Tagged(local)
  <2>1. Tagged(local)' = {d \in local \cup {NewId} : commits'[d].kind = "tagged"}
    BY <1>6 DEF Tagged
  <2>2. commits'[NewId].kind # "tagged"
    BY <1>5
  <2>3. QED
    BY <1>5, <2>1, <2>2 DEF Tagged
<1>8. ASSUME NEW c \in local
       PROVE  /\ UpdatesIn(local, c)' = UpdatesIn(local, c) \cup {NewId}
              /\ EntryOf(c)' = EntryOf(c)
  <2> DEFINE U == UpdatesIn(local, c)
  <2>1. UpdatesIn(local, c)' = U \cup {NewId}
    <3>1. UpdatesIn(local, c)' = {u \in local \cup {NewId} : u > c /\ commits'[u].kind = "update"}
      BY <1>6 DEF UpdatesIn
    <3>2. NewId > c /\ commits'[NewId].kind = "update"
      BY <1>4, <1>5
    <3>3. QED
      BY <1>5, <3>1, <3>2 DEF UpdatesIn
  <2>2. U \in SUBSET (1 .. NewId) /\ {NewId} \in SUBSET (1 .. NewId)
    <3>1. local \in SUBSET (1 .. Len(commits)) /\ U \subseteq local
      BY LocalType, TypeParts DEF UpdatesIn
    <3>2. 1 .. Len(commits) \subseteq 1 .. NewId /\ NewId \in 1 .. NewId
      BY <1>3 DEF NewId
    <3>3. QED
      BY <3>1, <3>2
  <2>3. commits'[Min(U \cup {NewId})].version = Named(U)
    <3> HIDE DEF U
    <3>1. CASE U = {}
      <4>1. Min({NewId}) = NewId
        BY <1>4, <2>2, MinIs
      <4>2. U \cup {NewId} = {NewId}
        BY <3>1
      <4>3. QED
        BY <1>5, <3>1, <4>1, <4>2 DEF Named
    <3>2. CASE U # {}
      <4>1. \A u \in U : u \in local
        BY DEF U, UpdatesIn
      <4>2. \A u \in U, w \in {NewId} : u < w
        BY <1>4, <4>1
      <4>3. Min(U \cup {NewId}) = Min(U)
        BY <1>4, <2>2, <3>2, <4>2, MinOfUnion
      <4>4. Min(U) \in local
        BY <1>4, <2>2, <3>2, <4>1, MinOf
      <4>5. QED
        BY <1>5, <3>2, <4>3, <4>4 DEF Named
    <3>3. QED
      BY <3>1, <3>2
  <2>4. Named(UpdatesIn(local, c))' = Named(U)
    BY <2>1, <2>3 DEF Named
  <2>5. EntryOf(c)' = EntryOf(c)
    BY <2>4 DEF EntryOf
  <2>6. QED
    BY <2>1, <2>5
<1>9. EntriesOf(local)' = EntriesOf(local)
  <2>1. \A c \in Tagged(local) : EntryOf(c)' = EntryOf(c)
    BY <1>8 DEF Tagged
  <2>2. EntriesOf(local)' = {EntryOf(c)' : c \in Tagged(local)'}
    BY DEF EntriesOf
  <2>3. QED
    BY <1>7, <2>1, <2>2 DEF EntriesOf
<1>10. SetToBag(EntriesOf(local))' = SetToBag(EntriesOf(local))
  BY <1>9 DEF SetToBag
<1>11. (\A c \in Tagged(local) : UpdatesIn(local, c) # {})'
  BY <1>7, <1>8 DEF Tagged
<1>12. QED
  BY <1>1, <1>2, <1>10, <1>11 DEF ReadingInv

LEMMA NextReadingInv ==
  ASSUME TypeInv, PagesInv, ReadingInv, [Next]_vars
  PROVE  ReadingInv'
<1> USE DEF repository, reading, history, Goto, Return
<1>1. ASSUME UNCHANGED <<local, head, offset, entries, current>>, ~grown' => ~grown,
             pc' = pc \/ (pc \notin {"idle", "page", "pull", "push"} /\ pc' \in Steps \ {"idle", "page", "pull", "push"})
                      \/ (pc = "pull" /\ pc' = "push")
      PROVE  ReadingInv'
  BY <1>1, EntriesStay DEF ReadingInv
<1>2. CASE SomeoneCommits \/ SomeonePulls \/ Pull
  <2>1. SUFFICES ASSUME ~grown' PROVE ReadingInv'
    BY <1>2 DEF ReadingInv, SomeoneCommits, SomeonePulls, Pull
  <2>2. PullFromServer /\ remote \subseteq local => local' = local
    BY DEF PullFromServer, Diverged
  <2>3. /\ ~grown /\ UNCHANGED <<local, head, offset, entries, current>>
        /\ pc' = pc \/ (pc = "pull" /\ pc' = "push")
    <3>1. CASE SomeoneCommits
      BY <2>1, <3>1 DEF SomeoneCommits
    <3>2. CASE SomeonePulls
      BY <2>1, <3>2 DEF SomeonePulls
    <3>3. CASE Pull
      <4>1. ~ (grown \/ ~ (remote \subseteq local))
        BY <2>1, <3>3 DEF Pull
      <4>2. QED
        BY <2>2, <3>3, <4>1 DEF Pull
    <3>4. QED
      BY <1>2, <3>1, <3>2, <3>3
  <2>4. QED
    BY <1>1, <2>3
<1>3. CASE FileIsDeleted \/ UNCHANGED vars
  BY <1>1, <1>3 DEF FileIsDeleted, vars
<1>4. CASE CalculateVersionNumber
  <2>1. /\ pc' = "page" /\ ~grown' /\ head' = Max(local) /\ current' = head'
        /\ offset' = 0 /\ entries' = EmptyBag /\ local' = local
    BY <1>4 DEF CalculateVersionNumber, PagesInv, ReadingInv
  <2>2. Newest(offset)' = {}
    BY <2>1, RankType, TypeParts DEF Newest, Rank
  <2>3. EntriesOf(Newest(offset))' = {}
    BY <2>2 DEF EntriesOf, Tagged
  <2>4. Named(UpdatesIn(Newest(offset), 0))' = head'
    BY <2>2 DEF Named, UpdatesIn
  <2>5. QED
    BY <2>1, <2>3, <2>4 DEF ReadingInv, EmptyBag
<1>5. CASE GetHistory
  BY <1>5, ReadPage
<1>6. CASE CommitFile
  BY <1>6, ReadCommit
<1>7. CASE UpToDate \/ WriteFails \/ Push \/ CommandFails \/ Stop
  BY <1>7 DEF UpToDate, WriteFails, Push, CommandFails, Stop, ReadingInv
<1>8. CASE Differs \/ Exists \/ WriteToFile \/ Add
  BY <1>1, <1>8 DEF Differs, Exists, WriteToFile, Add, Steps
<1>9. QED
  BY <1>2, <1>3, <1>4, <1>5, <1>6, <1>7, <1>8 DEF Next

LEMMA SpecReadingInv == Spec => [](TypeInv /\ PagesInv /\ ReadingInv)
<1>1. Init => PagesInv /\ ReadingInv
  BY DEF Init, PagesInv, ReadingInv
<1>2. TypeInv /\ PagesInv /\ ReadingInv /\ [Next]_vars => (PagesInv /\ ReadingInv)'
  BY NextPagesInv, NextReadingInv
<1>3. QED
  BY <1>1, <1>2, SpecTypeInv, PTL DEF Spec

(* The changelog of the clone, in the terms of ReadingInv.                 *)
LEMMA ExpectedIs ==
  ASSUME head = Max(local) \/ \A c \in Tagged(local) : UpdatesIn(local, c) # {}
  PROVE  Expected = SetToBag(EntriesOf(local))
<1>1. \A c \in Tagged(local) :
        EntryOf(c) = [version |-> IF Updates(c) = {} THEN Max(local)
                                                    ELSE commits[Min(Updates(c))].version,
                      of |-> c]
  BY DEF EntryOf, Named, Updates, UpdatesIn
<1>2. QED
  BY <1>1 DEF Expected, EntriesOf, Tagged

(* Whatever the size of a page and wherever the updates and the tags are   *)
(* in the history, the pages make the changelog of the clone.              *)
THEOREM PagesAreTheChangelog == Spec => []PagesMakeTheChangelog
<1>1. ReadingInv => PagesMakeTheChangelog
  BY ExpectedIs DEF ReadingInv, PagesMakeTheChangelog
<1>2. QED
  BY <1>1, SpecReadingInv, PTL

(* The commit of a changelog does not change what the next one holds.      *)
THEOREM UpdatesSettle == Spec => []UpdateSettles
<1>1. IndInv /\ ReadingInv => UpdateSettles
  BY ExpectedIs DEF IndInv, WrittenInv, ReadingInv, UpdateSettles
<1>2. QED
  BY <1>1, SpecIndInv, SpecReadingInv, PTL
============================================================================
