\* Two threads, a pipe of one chunk, up to two chunks each.
CONSTANTS
  t1 = t1
  t2 = t2
  home = home
  tools = tools
  Self = Self
  Threads = {t1, t2}
  Dirs = {tools}
  Home = home
  PipeSize = 1
  MaxOutput = 2
SPECIFICATION FairSpec
INVARIANT TypeOK
INVARIANT OutputIsComplete
INVARIANT NothingLeftBehind
INVARIANT DirectoryKeptUnlessOverlapped
INVARIANT ExitCodeIsAlwaysZero
INVARIANT UnreadOutputBlocks
PROPERTY CallsReturn
CHECK_DEADLOCK FALSE
