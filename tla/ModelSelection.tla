--------------------------- MODULE ModelSelection ---------------------------
(***************************************************************************)
(* Which model a request gets: packages/client/src/selection.ts and the    *)
(* resolve of client.ts over an in-process transport, and                  *)
(* services/modelcommons/selection.ts with which the Hub's screens choose. *)
(* Models are numbers, in the order of their ids.  Every way in which a    *)
(* selection fails is one of client.ts's RESOLUTION_FAILURE_CODES: None.   *)
(***************************************************************************)
EXTENDS DevicePolicy

First(a, b) == IF a # None THEN a ELSE b

\* supportedContext: the most context a model declares.
Supported(m) == First(Manifest[m].maximum, First(Manifest[m].trained, Manifest[m].recommended))

\* Not experimental first, then smaller, then by id.
Before(m, n) ==
    LET tier(x) == IF Manifest[x].experimental THEN 1 ELSE 0
        size(x) == Manifest[x].size IN
    \/ tier(m) < tier(n)
    \/ tier(m) = tier(n) /\ size(m) < size(n)
    \/ tier(m) = tier(n) /\ size(m) = size(n) /\ m < n

\* selectCompatibleModel among the READY models.  The context and the runtimes
\* are those the caller requires, None when it requires none.
Compatible(ready, id, capabilities, context, runtimes) ==
    LET fit == {m \in ready :
                  /\ id # None => m = id
                  /\ capabilities \subseteq (Manifest[m].capabilities \cap {"text"})
                  /\ context # None => Supported(m) >= context
                  /\ runtimes # None => "llama.rn" \in runtimes} IN
    IF fit = {} THEN None ELSE CHOOSE m \in fit : \A n \in fit \ {m} : Before(m, n)

-----------------------------------------------------------------------------
(* The Hub's own models *)

\* createHubAvailableModels: the READY ones.  A registry is [ready, accepted],
\* a policy [available, version, experimental, device, profile, context].
Executable(registry, policy) ==
    {m \in registry.ready :
        /\ Manifest[m].licence => m \in registry.accepted
        /\ policy.available /\ policy.version
        /\ Manifest[m].experimental => policy.experimental}

Allowed(resolution, experimental) ==
    /\ resolution.compatibility < NOT_RECOMMENDED
    /\ resolution.compatibility = EXPERIMENTAL => experimental

\* A mutant: the settings' profile is not asked.
EligibleByDefault(m, registry, policy) ==
    /\ m \in Executable(registry, policy) /\ "text" \in Manifest[m].capabilities
    /\ policy.device # None =>
          Allowed(Resolution(policy.device, m, None, policy.context), policy.experimental)

\* executionEligible
Eligible(m, registry, policy) ==
    /\ m \in Executable(registry, policy) /\ "text" \in Manifest[m].capabilities
    /\ policy.device # None =>
          Allowed(Resolution(policy.device, m, policy.profile, policy.context), policy.experimental)

\* selectHubTextRecord
HubText(registry, id, policy) ==
    Compatible({m \in Model : Eligible(m, registry, policy)}, id, {"text"}, None, None)

-----------------------------------------------------------------------------
(* client.ts *)

Larger(a, b) == IF a = None \/ (b # None /\ b > a) THEN b ELSE a

\* effectiveIntent and resolutionRequirements: the client's configuration adds
\* to what a call asks.
Effective(intent, config) ==
    [capabilities |-> intent.capabilities \cup config.capabilities,
     context |-> Larger(First(intent.context, config.context), config.minimumContext),
     runtimes |-> config.runtimes]

Chosen(m, profile) ==
    IF m = None THEN None ELSE [model |-> m, profile |-> First(profile, Manifest[m].profile)]

\* resolveBestCompatible
BestCompatible(ready, effective, profile) ==
    Chosen(Compatible(ready, None, effective.capabilities, effective.context, effective.runtimes), profile)

\* The id asked for, explicit or preferred, and the profile of its alias.
Requested(intent, config) == First(intent.model, config.preferred)
Aliased(intent, config) ==
    IF Requested(intent, config) \in DOMAIN config.aliases THEN config.aliases[Requested(intent, config)]
    ELSE [model |-> Requested(intent, config), profile |-> None]
RequestedProfile(intent, config) ==
    First(intent.profile, First(Aliased(intent, config).profile, config.profile))

\* A mutant: the fallback keeps the profile of the alias that failed.
FallbackKeepsProfile(intent, config) == RequestedProfile(intent, config)

FallbackProfile(intent, config) == First(intent.profile, config.profile)

\* resolve: an explicit or preferred model by its id or alias; only a preferred
\* one may be replaced by the best of the rest.
Resolved(ready, intent, config) ==
    LET effective == Effective(intent, config)
        direct == Chosen(Compatible(ready, Aliased(intent, config).model, effective.capabilities,
                                    effective.context, effective.runtimes),
                         RequestedProfile(intent, config)) IN
    IF \/ intent.model # None
       \/ config.preferred # None /\ (direct # None \/ ~config.fallback)
    THEN direct
    ELSE BestCompatible(ready, effective, FallbackProfile(intent, config))
=============================================================================
