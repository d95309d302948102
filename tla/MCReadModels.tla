---------------------------- MODULE MCReadModels ----------------------------
(* Instances of ReadModels small enough for TLC. *)
EXTENDS ReadModels, TLC

CONSTANTS i1, i2, w1, w2, w3, r1

\* Process ids are interchangeable.
Symmetry == Permutations(Processes)
=============================================================================
