\* Five jobs, a task beside a chain, two pool threads.
CONSTANTS
  root = root
  a = a
  b = b
  c = c
  d = d
  Jobs = {root, a, b, c, d}
  Root = root
  Workers = {w1, w2}
  Main = main
  NoJob = NoJob
  Free = Free
  Edges <- TaskBesideChain
  MaxJobCount = 5
  MaxSpurious = 0
SPECIFICATION Spec
SYMMETRY Symmetry
INVARIANT EnqueueNeverRefused
