-------------------------- MODULE MCWorkerRegistry --------------------------
EXTENDS WorkerRegistry, TLC

Symmetry ==
  Permutations(Workers) \cup Permutations(Models) \cup Permutations(Requests)
=============================================================================
