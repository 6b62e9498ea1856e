\* Four jobs in a diamond, two pool threads, under fairness.
CONSTANTS
  root = root
  a = a
  b = b
  c = c
  d = d
  Jobs = {root, a, b, c}
  Root = root
  Workers = {w1, w2}
  Main = main
  NoJob = NoJob
  Free = Free
  Edges <- Diamond
  MaxJobCount = 4
  MaxSpurious = 1
SPECIFICATION FairSpec
PROPERTY WaitReturns
