\* Every graph of three projects, built in parallel: a dependency that two
\* projects share.
CONSTANTS
  app = app
  core = core
  gui = gui
  Projects = {app, core, gui}
  Target = app
  Host = Host
  Graphs <- AllGraphs
  Modes = {TRUE}
SPECIFICATION Spec
INVARIANT DependenciesBuiltFirst
CHECK_DEADLOCK FALSE
