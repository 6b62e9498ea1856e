\* Pages of two commits; others commit while there are fewer than four.
CONSTANTS
  ChunkSize = 2
  MaxCommits = 4
SPECIFICATION Spec
INVARIANT TypeOK
INVARIANT PagesMakeTheChangelog
INVARIANT NoEntryLost
INVARIANT UpdateSettles
INVARIANT FirstChangelogIsNotCheckedIn
PROPERTY SuccessMeansCheckedIn
