--------------------------- MODULE MCHubModelStore ---------------------------
(* Instances of HubModelStore for TLC: callers, and the artifacts of a model, *)
(* are alike.                                                                 *)
EXTENDS HubModelStore, TLC

Alike == Permutations(Call) \cup Permutations(File)
=============================================================================
