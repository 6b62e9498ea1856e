\* Every graph of three projects, built in sequence and in parallel.
CONSTANTS
  app = app
  core = core
  gui = gui
  Projects = {app, core, gui}
  Target = app
  Host = Host
  Graphs <- AllGraphs
  Modes = {FALSE, TRUE}
SPECIFICATION Spec
INVARIANT TypeOK
INVARIANT SequentialOrder
INVARIANT ParallelOrderUnlessShared
INVARIANT SuccessMeansAllBuilt
