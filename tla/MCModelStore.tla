---------------------------- MODULE MCModelStore ----------------------------
(* Small instances of ModelStore for TLC. *)
EXTENDS ModelStore, TLC

\* Callers, models and artifacts are interchangeable, the licensed model apart.
Symmetry == Permutations(Call) \cup Permutations(File)
=============================================================================
