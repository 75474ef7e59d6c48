--------------------------- MODULE MCMutationGuard ---------------------------
(* Constants for checking MutationGuard on small instances. *)
EXTENDS MutationGuard, TLC

CONSTANT Creation  \* the fingerprint of a request that names no resource

\* Every other request is about the same resource.
MCResourceOf == [h \in Hash |-> IF h = Creation THEN "none" ELSE CHOOSE r \in Resource : TRUE]

Symmetry == Permutations(Worker) \cup Permutations(Key) \cup Permutations(Hash \ {Creation})
=============================================================================
