------------------------- MODULE MCConcurrentQueue -------------------------
(* ConcurrentQueue with a ring of two slots and a few threads, symmetric   *)
(* in the threads of each side and in the elements.                        *)
EXTENDS ConcurrentQueue, TLC

Symmetry ==
  Permutations(Producers \ Consumers) \cup Permutations(Consumers \ Producers)
    \cup Permutations(Values)
============================================================================
