--------------------------- MODULE MCChildProcess ---------------------------
(* ChildProcess with model values for two threads and two directories, one *)
(* of which is the program's own.                                          *)
EXTENDS ChildProcess

CONSTANTS t1, t2, home, tools
=============================================================================
