---------------------------- MODULE MCLiveChannel ----------------------------
(* Constants for checking LiveChannel on small instances. *)
EXTENDS LiveChannel, TLC

\* Providers are interchangeable, and so are workers.
Symmetry == Permutations(Provider) \cup Permutations(Worker)
=============================================================================
