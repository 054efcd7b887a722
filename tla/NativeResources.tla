-------------------------- MODULE NativeResources --------------------------
(***************************************************************************)
(* What the llama.rn runtime promises about the native resources it owns,  *)
(* whatever its pool, sessions and release attempts do meanwhile:          *)
(* a context is loaded at most once and never revived, the number of live  *)
(* contexts never exceeds the limit (README of runtime-llama-rn: "one      *)
(* loaded model/profile context ... for phone memory safety"), and a model *)
(* lease is given back only when no context maps the model behind it any   *)
(* more ("A security-scoped model lease is released only after             *)
(* `context.release()` resolves").                                         *)
(* LlamaRuntime implements this specification.                             *)
(***************************************************************************)
EXTENDS Naturals, FiniteSets

CONSTANTS Context,            \* native contexts, one per successful load
          Key,                \* what a context is loaded from: model, lease, profile
          MaxLoadedContexts,
          None                \* "no key yet"

VARIABLES context,            \* Context -> "none" | "live" | "gone"
          modelOf,            \* Context -> the key it is loaded from, or None
          lease               \* Key -> "held" | "returned"

vars == <<context, modelOf, lease>>

LiveContexts == {c \in Context : context[c] = "live"}

Init == /\ context = [c \in Context |-> "none"]
        /\ modelOf = [c \in Context |-> None]
        /\ lease = [k \in Key |-> "held"]

\* A context is loaded under a lease that is still held and below the limit.
Load(c) == /\ context[c] = "none"
           /\ modelOf[c] \in Key
           /\ lease[modelOf[c]] = "held"
           /\ Cardinality(LiveContexts) < MaxLoadedContexts
           /\ context' = [context EXCEPT ![c] = "live"]
           /\ UNCHANGED <<modelOf, lease>>

Destroy(c) == /\ context[c] = "live"
              /\ context' = [context EXCEPT ![c] = "gone"]
              /\ UNCHANGED <<modelOf, lease>>

\* No live context maps the model whose lease is returned.
ReturnLease(k) == /\ lease[k] = "held"
                  /\ \A c \in LiveContexts : modelOf[c] # k
                  /\ lease' = [lease EXCEPT ![k] = "returned"]
                  /\ UNCHANGED <<context, modelOf>>

\* A caller chooses the model of a context that is not loaded.
Choose(c, k) == /\ context[c] = "none"
                /\ modelOf[c] = None
                /\ modelOf' = [modelOf EXCEPT ![c] = k]
                /\ UNCHANGED <<context, lease>>

Next == \/ \E c \in Context : Load(c) \/ Destroy(c)
        \/ \E k \in Key : ReturnLease(k)
        \/ \E c \in Context, k \in Key : Choose(c, k)

Spec == Init /\ [][Next]_vars
=============================================================================
