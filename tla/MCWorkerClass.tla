--------------------------- MODULE MCWorkerClass ---------------------------
(* Finite instances of WorkerClass for TLC. *)
EXTENDS WorkerClass, TLC

\* Sockets and AcceptThreads are only compared for equality.
Symmetry == Permutations(Sockets) \cup Permutations(AcceptThreads)
=============================================================================
