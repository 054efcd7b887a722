--------------------------- MODULE MCLlamaRuntime ---------------------------
(* Small instances of LlamaRuntime for TLC. *)
EXTENDS LlamaRuntime, TLC

\* Sessions and requests are interchangeable.
Symmetry == Permutations(Session) \cup Permutations(Request)

\* Bound: three sessions with a stream, or two sessions with two, meet one failure;
\* smaller crowds meet two.
Crowd == Cardinality({s \in Session : phase[s] # "unused"})
             + Cardinality({r \in Request : stage[r] # "none"}) + (IF faults > 1 THEN 1 ELSE 0) <= 4
=============================================================================
