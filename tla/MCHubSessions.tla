--------------------------- MODULE MCHubSessions ---------------------------
(* A small instance of HubSessions for TLC: a small dense model, and the
   experimental one of the catalog behind a licence, with its figures in GiB. *)
EXTENDS HubSessions, TLC

MCManifest ==
    <<[size |-> 1, experimental |-> FALSE, moe |-> FALSE, licence |-> FALSE, capabilities |-> {"text"},
       recommended |-> 1024, trained |-> 8192, maximum |-> 8192, minimumRam |-> None, recommendedRam |-> None,
       profile |-> "safe"],
      [size |-> 18, experimental |-> TRUE, moe |-> TRUE, licence |-> TRUE, capabilities |-> {"text", "tools"},
       recommended |-> 4096, trained |-> 32768, maximum |-> 32768, minimumRam |-> 20, recommendedRam |-> 24,
       profile |-> "experimental-moe"]>>

MCDevice == {[physical |-> 6, available |-> None], [physical |-> 32, available |-> 24]}

MCIntent ==
    <<[model |-> None, profile |-> None, context |-> None],
     [model |-> 11, profile |-> None, context |-> 100],
     [model |-> 2, profile |-> "balanced", context |-> 16384]>>

MCConfig ==
    [capabilities |-> {"text"}, context |-> None, minimumContext |-> 64, runtimes |-> {"llama.rn"},
     preferred |-> 12, fallback |-> TRUE, profile |-> None,
     aliases |-> [id \in {11, 12} |-> IF id = 11 THEN [model |-> 1, profile |-> "performance"]
                                             ELSE [model |-> 2, profile |-> "balanced"]]]

\* Nothing; no profile and no consent, and a long memory; a profile alone; one who
\* tried the experiment and ran out of memory.
MCStored ==
    {None,
     [settings |-> [profile |-> None, context |-> 16384, experimental |-> FALSE],
      failures |-> <<[model |-> 1, profile |-> "safe", memory |-> TRUE],
                     [model |-> 2, profile |-> "safe", memory |-> TRUE],
                     [model |-> 1, profile |-> "balanced", memory |-> FALSE]>>],
     [settings |-> [profile |-> "experimental-moe", context |-> None, experimental |-> None], failures |-> << >>],
     [settings |-> [profile |-> "experimental-moe", context |-> 2048, experimental |-> TRUE],
      failures |-> <<[model |-> 2, profile |-> "experimental-moe", memory |-> TRUE]>>]}

Symmetry == Permutations(Caller)
=============================================================================
