\* Five jobs, a chain and a job beside it, two pool threads.
CONSTANTS
  root = root
  a = a
  b = b
  c = c
  d = d
  Jobs = {root, a, b, c, d}
  Root = root
  Workers = {w1, w2}
  Main = main
  NoJob = NoJob
  Free = Free
  Edges <- FiveJobs
  MaxJobCount = 5
  MaxSpurious = 1
SPECIFICATION Spec
SYMMETRY Symmetry
INVARIANT TypeOK
INVARIANT DependencyOrder
INVARIANT WorkConserving
PROPERTY ImplementsTaskGraph
