-------------------------- MODULE MCProjectGraph ---------------------------
(* ProjectGraph on every graph of its projects, the cyclic ones too.       *)
EXTENDS ProjectGraph

CONSTANTS app, core, gui

AllGraphs == [Projects -> SUBSET Projects]
============================================================================
