--------------------------- MODULE MCJobScheduler --------------------------
(* JobScheduler on small graphs.  Each set of edges orders the jobs, so    *)
(* that every graph the main thread builds from it is acyclic.             *)
EXTENDS JobScheduler, TLC

CONSTANTS root, a, b, c, d

(* The root above two jobs that share a third: the shape of two tasks of   *)
(* one stage behind the stage before. *)
Diamond == {<<root, a>>, <<root, b>>, <<a, c>>, <<b, c>>}

(* The root above b and, beside it, a chain d, c, a: the shape of a task   *)
(* that runs in parallel with sequential ones. *)
TaskBesideChain == {<<root, b>>, <<root, d>>, <<d, c>>, <<c, a>>}

(* Five jobs in a chain root, d, c, a with a job b that may stand anywhere *)
(* beside it: between two jobs of the chain, or sharing their dependency.  *)
FiveJobs == TaskBesideChain \cup {<<d, b>>, <<b, a>>}

Symmetry == Permutations(Workers)
============================================================================
