---------------------------- MODULE HubSessions ----------------------------
(***************************************************************************)
(* How the Hub admits a session on a device where the runtime is in        *)
(* process: the settings and the memory of failures in                     *)
(* store/inferenceStore.ts, saved by every change and hydrated late, by a  *)
(* merge with whatever is there; the start-up and refresh of lifecycle.ts; *)
(* the registry of the model store, and the screens' copy of it; and a     *)
(* creation from the choice of a model (screen, provider or client) to     *)
(* HubHost.createSession in hubRuntime.ts, whose gates are passed one      *)
(* await after the other.                                                  *)
(***************************************************************************)
EXTENDS ModelSelection

CONSTANTS
    Device,         \* what the native snapshot may measure: [physical, available]
    Context,        \* contexts the user may set
    Caller,         \* concurrent creations
    Intent,         \* what a client may ask: sequence of [model, profile, context]
    Config,         \* a client's configuration
    Stored,         \* what an earlier run, or release, may have left in storage; None is nothing
    MaxFailures,    \* bound: failures remembered (20 in the code)
    MaxChanges      \* bound: changes by the user, the device and the store, and what is under way

VARIABLES
    memory,     \* what the device measures now
    registry,   \* READY models and accepted licences, as the model store has them
    shown,      \* the copy of the registry that the screens read
    stored,     \* what storage holds, None if nothing
    hydrating,  \* what was read of it at the start and is still to be merged: a set, empty when merged
    settings,   \* [profile, context, experimental]
    failures,   \* runtimeFailures: sequence of [model, profile, memory]
    device,     \* deviceProfile: None or [physical, available, runtime, failures]
    available,  \* runtimeAvailable
    lifecycle,  \* the start-up or refresh under way (one at a time): None or its [device, registry]
    call,       \* the creations
    changes

vars == <<memory, registry, shown, stored, hydrating, settings, failures, device, available, lifecycle, call, changes>>
\* The state of useHubStore, and what of it is in storage.
store == <<shown, stored, hydrating, settings, failures, device, available>>

Registry == [ready : SUBSET Model, accepted : SUBSET Model]
Record == [model : Model, profile : Profile, memory : BOOLEAN]
Settings == [profile : Profile, context : Context, experimental : BOOLEAN]

\* What is stored has any of its fields, None where one is missing or invalid.
Persisted ==
    [settings : [profile : Profile \cup {None}, context : Context \cup {None}, experimental : BOOLEAN \cup {None}],
     failures : Seq(Record)]
DeviceProfile == [physical : Measure, available : Measure, runtime : BOOLEAN, failures : Seq(Record)]
Defaults == [profile |-> "balanced", context |-> 2048, experimental |-> FALSE]

\* A context, when there is one, is a positive number.
Contexts == (Nat \ {0}) \cup {None}

ASSUME BoundsAssumption == MaxFailures \in Nat \ {0} /\ MaxChanges \in Nat
ASSUME ContextAssumption == 2048 \in Context /\ Context \subseteq Nat \ {0}
ASSUME DeviceAssumption == Device \subseteq [physical : Measure, available : Measure]
ASSUME StoredAssumption == Stored \subseteq Persisted \cup {None}
ASSUME IntentAssumption ==
    \A i \in DOMAIN Intent :
        Intent[i] \in [model : Nat \cup {None}, profile : Profile \cup {None}, context : Contexts]
ASSUME ConfigAssumption ==
    /\ Config.context \in Contexts /\ Config.minimumContext \in Contexts
    /\ Config.preferred \in Nat \cup {None} /\ Config.profile \in Profile \cup {None}
    /\ Config.capabilities \subseteq STRING /\ Config.fallback \in BOOLEAN
    /\ \A id \in DOMAIN Config.aliases :
          Config.aliases[id] \in [model : Nat, profile : Profile \cup {None}]
ASSUME AbsentAssumption == None \notin DeviceProfile \cup BOOLEAN

\* catalog.ts: every manifest bounds its context; the sparse model has the profile
\* made for it, and only experimental models have that one.
ASSUME CatalogAssumption ==
    \A m \in Model :
        /\ Manifest[m].maximum # None
        /\ Manifest[m].moe => Manifest[m].profile = "experimental-moe"
        /\ Manifest[m].profile = "experimental-moe" => Manifest[m].experimental

\* A creation that has not begun.
Idle == [at |-> "idle", intent |-> None, configured |-> FALSE, model |-> None, profile |-> None,
         context |-> None, consent |-> FALSE, dimensions |-> None]

Init ==
    /\ memory \in Device
    /\ registry \in [ready : {Model}, accepted : SUBSET {m \in Model : Manifest[m].licence}]
    /\ shown = [ready |-> {}, accepted |-> {}]
    /\ settings = Defaults
    /\ stored \in Stored /\ hydrating = {stored}
    /\ failures = << >> /\ device = None /\ available = FALSE
    /\ lifecycle = None
    /\ call = [c \in Caller |-> Idle]
    /\ changes = 0

-----------------------------------------------------------------------------
(* The store *)

\* partialize: every change of the store is saved, with all the fields.
Saves == stored' = [settings |-> settings', failures |-> failures']

\* A list of failures also goes to the device profile.
Remember(list) ==
    /\ failures' = list
    /\ device' = IF device = None THEN None ELSE [device EXCEPT !.failures = list]

\* slice(-20): the oldest failures make room.
Last(list) == SubSeq(list, Len(list) - MaxFailures + 1, Len(list))
Newest(list) == IF Len(list) > MaxFailures THEN Last(list) ELSE list

\* sanitizePersistedState: no experimental profile without the consent; what is
\* missing stays as it is, except the failures.
Sanitized(s) ==
    [settings |->
        [profile |-> IF s.settings.profile = "experimental-moe" /\ s.settings.experimental # TRUE THEN "safe"
                     ELSE First(s.settings.profile, settings.profile),
         context |-> First(s.settings.context, settings.context),
         experimental |-> First(s.settings.experimental, settings.experimental)],
     failures |-> Newest(s.failures)]

\* The merge.  With a record, its failures replace the ones there are.  Without
\* one, settings and failures stay, and the device profile forgets them.  The
\* mark of a start-up that already ended is lost.
Hydrate ==
    /\ hydrating # {} /\ hydrating' = {}
    /\ IF None \in hydrating
       THEN /\ UNCHANGED <<settings, failures>>
            /\ device' = IF device = None THEN None ELSE [device EXCEPT !.failures = << >>]
       ELSE \E s \in hydrating : settings' = Sanitized(s).settings /\ Remember(Sanitized(s).failures)
    /\ available' = FALSE
    /\ UNCHANGED <<memory, registry, shown, stored, lifecycle, call, changes>>

\* Storage cannot be read, or not parsed.
HydrationFails ==
    /\ hydrating # {} /\ hydrating' = {}
    /\ UNCHANGED <<memory, registry, shown, stored, settings, failures, device, available, lifecycle, call, changes>>

\* Bound: what was changed and lost, is remembered and is under way adds up.
Busy == {c \in Caller : call[c].at # "idle"}
Room ==
    changes + Least(Len(failures), 1) + Cardinality(Model \ registry.ready)
        + Cardinality(Busy) + Cardinality({lifecycle} \ {None}) < MaxChanges

Change == Room /\ changes < MaxChanges /\ changes' = changes + 1

\* The user changes the settings.
Sets(new) ==
    /\ Change
    /\ settings' = new /\ UNCHANGED failures /\ Saves
    /\ UNCHANGED <<memory, registry, shown, hydrating, device, available, lifecycle, call>>

SetProfileId(p) ==
    /\ p = "experimental-moe" => settings.experimental
    /\ Sets([settings EXCEPT !.profile = p])

SetContext(n) == Sets([settings EXCEPT !.context = n])

\* A mutant: the profile that needs the consent stays.
SetExperimentalOnly(b) == Sets([settings EXCEPT !.experimental = b])

SetExperimentalEnabled(b) ==
    Sets([settings EXCEPT !.experimental = b, !.profile = IF ~b /\ @ = "experimental-moe" THEN "safe" ELSE @])

\* A mutant: the device profile is not told.
RecordAlone(f) == failures' = Newest(Append(failures, f)) /\ UNCHANGED device

RecordRuntimeFailure(f) == Remember(Newest(Append(failures, f)))

\* The failures of other models, or with other profiles.
Without(list, m, p) ==
    LET kept[i \in 0 .. Len(list)] ==
            IF i = 0 THEN << >>
            ELSE IF list[i].model # m \/ list[i].profile # p THEN Append(kept[i - 1], list[i])
            ELSE kept[i - 1] IN
    kept[Len(list)]

ClearRuntimeFailure(m, p) == Remember(Without(failures, m, p))

-----------------------------------------------------------------------------
(* Start-up and refresh: the device is measured, then the runtime probed *)

SetDeviceProfile(measured, runtime) ==
    device' = [physical |-> measured.physical, available |-> measured.available,
               runtime |-> runtime, failures |-> failures]

\* collectDeviceProfile and, at a start-up, modelStore.initialize.
Collects(starting) ==
    /\ Room /\ lifecycle = None
    /\ lifecycle' = [device |-> memory, registry |-> IF starting THEN registry ELSE None]
    /\ UNCHANGED <<memory, registry, store, call, changes>>

\* A start-up shows both before it has a runtime: the registry as it was.
Opens ==
    /\ lifecycle # None /\ lifecycle.registry # None
    /\ lifecycle' = [lifecycle EXCEPT !.registry = None]
    /\ shown' = lifecycle.registry /\ SetDeviceProfile(lifecycle.device, FALSE)
    /\ UNCHANGED <<settings, failures>> /\ Saves
    /\ UNCHANGED <<memory, registry, hydrating, available, call, changes>>

\* The runtime is probed: it is there, or it is not.
Probed(runtime) ==
    /\ lifecycle # None /\ lifecycle.registry = None /\ lifecycle' = None
    /\ SetDeviceProfile(lifecycle.device, runtime) /\ available' = runtime
    /\ UNCHANGED <<settings, failures>> /\ Saves
    /\ UNCHANGED <<memory, registry, shown, hydrating, call, changes>>

\* The store or the runtime could not be opened: nothing more is known.  A
\* start-up says so in the store.
StartFails ==
    /\ lifecycle # None /\ lifecycle' = None
    /\ UNCHANGED <<settings, failures>> /\ (Saves \/ UNCHANGED stored)
    /\ UNCHANGED <<memory, registry, shown, hydrating, device, available, call, changes>>

\* The application is killed and started again.  Storage is read before it is
\* written.  The model store finds files of models missing.
Restarts ==
    /\ Change
    /\ \E ready \in SUBSET registry.ready : registry' = [registry EXCEPT !.ready = ready]
    /\ hydrating' = {stored} /\ shown' = [ready |-> {}, accepted |-> {}]
    /\ settings' = Defaults /\ failures' = << >> /\ device' = None /\ available' = FALSE
    /\ lifecycle' = None /\ call' = [c \in Caller |-> Idle]
    /\ UNCHANGED <<memory, stored>>

-----------------------------------------------------------------------------
(* The device and the model store *)

MemoryChanges(d) ==
    /\ Change /\ memory' = d
    /\ UNCHANGED <<registry, store, lifecycle, call>>

\* acceptLicense
Accepted(m) ==
    /\ Change /\ Manifest[m].licence
    /\ registry' = [registry EXCEPT !.accepted = @ \cup {m}]
    /\ UNCHANGED <<memory, store, lifecycle, call>>

\* download
Installed(m) ==
    /\ Change
    /\ Manifest[m].licence => m \in registry.accepted
    /\ registry' = [registry EXCEPT !.ready = @ \cup {m}]
    /\ UNCHANGED <<memory, store, lifecycle, call>>

\* The screen of models shows the registry when an operation of its own ends.
Syncs ==
    /\ shown' = registry /\ UNCHANGED <<settings, failures>> /\ Saves
    /\ UNCHANGED <<memory, registry, hydrating, device, available, lifecycle, call, changes>>

-----------------------------------------------------------------------------
(* A creation *)

Measured(d, list) == [physical |-> d.physical, available |-> d.available, runtime |-> TRUE, failures |-> list]

\* What the screens judge by, over the registry shown.
Policy ==
    [available |-> available, version |-> device # None /\ device.runtime,
     experimental |-> settings.experimental, device |-> device,
     profile |-> settings.profile, context |-> settings.context]

\* What the host judges by: the runtime is there.
HostPolicy == [available |-> TRUE, version |-> TRUE, experimental |-> settings.experimental]

\* A client without a configuration.
NoConfig == [capabilities |-> {}, context |-> None, minimumContext |-> None, runtimes |-> None,
             preferred |-> None, fallback |-> FALSE, aliases |-> << >>, profile |-> None]

Asks(m, profile, context) == [model |-> m, profile |-> profile, context |-> context, capabilities |-> {"text"}]
ConfigOf(c) == IF call[c].configured THEN Config ELSE NoConfig

Begins(c, intent, configured) ==
    /\ Room /\ call[c].at = "idle"
    /\ call' = [call EXCEPT ![c] = [Idle EXCEPT !.at = "resolving", !.intent = intent, !.configured = configured]]
    /\ UNCHANGED <<memory, registry, store, lifecycle, changes>>

\* streamHubChat sends what the screen selected, with the settings.
ChatBegins(c) ==
    LET m == HubText(shown, None, Policy) IN
    m # None /\ Begins(c, Asks(m, settings.profile, settings.context), FALSE)

ClientBegins(c, i) == Begins(c, Asks(Intent[i].model, Intent[i].profile, Intent[i].context), TRUE)

\* The client resolves against the models the host lists.
Resolves(c) ==
    /\ call[c].at = "resolving"
    /\ LET r == Resolved(Executable(registry, HostPolicy), call[c].intent, ConfigOf(c)) IN
       call' = [call EXCEPT ![c] =
            IF r = None THEN Idle
            ELSE [@ EXCEPT !.at = "resolved", !.model = r.model, !.profile = r.profile,
                           !.context = Effective(call[c].intent, ConfigOf(c)).context]]
    /\ UNCHANGED <<memory, registry, store, lifecycle, changes>>

\* The runtime does not answer: nothing is listed, or the creation is refused.
RuntimeMissing(c) ==
    /\ call[c].at \in {"resolving", "gated"}
    /\ call' = [call EXCEPT ![c] = Idle]
    /\ UNCHANGED <<memory, registry, store, lifecycle, changes>>

Enters(c, at) == [call EXCEPT ![c] = [@ EXCEPT !.at = at]]

\* HubHost.createSession up to its first await: READY, licence, consent.
Gates(c) ==
    /\ call[c].at = "resolved"
    /\ call' = IF call[c].model \in Executable(registry, HostPolicy)
               THEN [call EXCEPT ![c] = [@ EXCEPT !.at = "gated", !.consent = settings.experimental]]
               ELSE [call EXCEPT ![c] = Idle]
    /\ UNCHANGED <<memory, registry, store, lifecycle, changes>>

\* A mutant: the host measures for itself instead of asking the store.
HostDeviceMeasured == Measured(memory, << >>)

\* The profile in the store, else a measure of its own that remembers nothing;
\* the runtime that answered is there whatever the profile says.
HostDevice == IF device # None THEN [device EXCEPT !.runtime = TRUE] ELSE Measured(memory, << >>)

\* The resolver's verdict, with the consent read before the await.
Admits(c) ==
    /\ call[c].at = "gated"
    /\ LET r == Resolution(HostDevice, call[c].model, call[c].profile, call[c].context) IN
       call' = IF Allowed(r, call[c].consent)
               THEN [call EXCEPT ![c] = [@ EXCEPT !.at = "admitted", !.dimensions = r.dimensions]]
               ELSE [call EXCEPT ![c] = Idle]
    /\ UNCHANGED <<memory, registry, store, lifecycle, changes>>

\* verifyReadyModel
Verified(c) ==
    /\ call[c].at = "admitted" /\ call[c].model \in registry.ready
    /\ call' = Enters(c, "loading")
    /\ UNCHANGED <<memory, registry, store, lifecycle, changes>>

\* The model is not READY any more, or does not verify: then it is FAILED in the
\* model store, if that can be written, and the screens are not told.
VerifyFails(c) ==
    /\ call[c].at = "admitted"
    /\ call' = [call EXCEPT ![c] = Idle]
    /\ registry' \in {registry, [registry EXCEPT !.ready = @ \ {call[c].model}]}
    /\ UNCHANGED <<memory, store, lifecycle, changes>>

\* The runtime loaded the model: the failures of this pair are forgotten.
Loads(c) ==
    /\ call[c].at = "loading" /\ Initializable(call[c].dimensions)
    /\ ClearRuntimeFailure(call[c].model, call[c].profile) /\ UNCHANGED settings /\ Saves
    /\ call' = [call EXCEPT ![c] = Idle]
    /\ UNCHANGED <<memory, registry, shown, hydrating, available, lifecycle, changes>>

LoadFails(c, oom) ==
    /\ call[c].at = "loading"
    /\ RecordRuntimeFailure([model |-> call[c].model, profile |-> call[c].profile, memory |-> oom])
    /\ UNCHANGED settings /\ Saves
    /\ call' = [call EXCEPT ![c] = Idle]
    /\ UNCHANGED <<memory, registry, shown, hydrating, available, lifecycle, changes>>

-----------------------------------------------------------------------------
Next ==
    \/ Hydrate \/ HydrationFails
    \/ \E p \in Profile : SetProfileId(p)
    \/ \E n \in Context : SetContext(n)
    \/ \E b \in BOOLEAN : SetExperimentalEnabled(b) \/ Collects(b) \/ Probed(b)
    \/ Opens \/ StartFails \/ Restarts \/ Syncs
    \/ \E d \in Device : MemoryChanges(d)
    \/ \E m \in Model : Accepted(m) \/ Installed(m)
    \/ \E c \in Caller :
        \/ ChatBegins(c)
        \/ \E i \in DOMAIN Intent : ClientBegins(c, i)
        \/ Resolves(c) \/ RuntimeMissing(c) \/ Gates(c) \/ Admits(c) \/ Verified(c) \/ VerifyFails(c) \/ Loads(c)
        \/ \E oom \in BOOLEAN : LoadFails(c, oom)

Spec == Init /\ [][Next]_vars

-----------------------------------------------------------------------------
(* Properties *)

Asked == [model : Nat \cup {None}, profile : Profile \cup {None}, context : Contexts, capabilities : {{"text"}}]
Sizes == [ctx : Nat, batch : Nat, ubatch : Nat]
Call == [at : {"idle", "resolving", "resolved", "gated", "admitted", "loading"}, intent : Asked \cup {None},
         configured : BOOLEAN, model : Model \cup {None}, profile : Profile \cup {None}, context : Contexts,
         consent : BOOLEAN, dimensions : Sizes \cup {None}]

TypeOK ==
    /\ memory \in Device /\ lifecycle \in [device : Device, registry : Registry \cup {None}] \cup {None}
    /\ registry \in Registry /\ shown \in Registry
    /\ stored \in Persisted \cup {None}
    /\ hydrating \subseteq Persisted \cup {None} /\ \A s, t \in hydrating : s = t
    /\ settings \in Settings
    /\ failures \in Seq(Record)
    /\ device \in DeviceProfile \cup {None}
    /\ available \in BOOLEAN
    /\ call \in [Caller -> Call]
    /\ changes \in 0 .. MaxChanges

\* How far a creation is says what is known of it.
CallInv ==
    \A c \in Caller :
        /\ call[c].at # "idle" => call[c].intent \in Asked
        /\ call[c].at \notin {"idle", "resolving"} =>
              /\ call[c].model \in Model /\ call[c].profile \in Profile
              /\ call[c].context = Effective(call[c].intent, ConfigOf(c)).context
        /\ call[c].at \in {"admitted", "loading"} => call[c].dimensions \in Sizes

\* The device profile does not remember what the store does.
Forgotten == device # None /\ device.failures # failures

\* The experimental profile is set without the consent.
Unconsented == settings.profile = "experimental-moe" /\ ~settings.experimental

\* However start-up, refresh, hydration, settings and failed loads interleave,
\* the device profile remembers the failures of the store or none of them, no
\* more than the cap; memory and consent come apart only once hydrated; what is
\* admitted as an experiment was consented to; and no screen shows a licence as
\* accepted that is not.
HubInductive ==
    /\ TypeOK /\ CallInv
    /\ Forgotten => device.failures = << >>
    /\ Forgotten \/ Unconsented => hydrating = {}
    /\ Len(failures) <= MaxFailures
    /\ \A c \in Caller :
          /\ call[c].at \in {"admitted", "loading"}
          /\ call[c].profile = "experimental-moe" \/ Manifest[call[c].model].experimental
          => call[c].consent
    /\ shown.accepted \subseteq registry.accepted
    /\ lifecycle # None /\ lifecycle.registry # None => lifecycle.registry.accepted \subseteq registry.accepted

\* The merge is the one step that parts them: the failures are forgotten where
\* nothing was stored, the consent is lost where it was stored without a profile.
OnlyHydrationParts ==
    [][/\ Forgotten' => Forgotten \/ (None \in hydrating /\ hydrating' = {})
       /\ Unconsented' =>
             \/ Unconsented
             \/ \E s \in hydrating \ {None} :
                   /\ hydrating' = {}
                   /\ s.settings.profile = None /\ s.settings.experimental = FALSE]_vars

Admissible(m, profile, context, list) ==
    Allowed(Resolution([HostDevice EXCEPT !.failures = list], m, profile, context), settings.experimental)

\* The screen, the client and the host agree, however old the registry is that
\* the screen shows: if nothing else changes, a model a screen calls ready is
\* resolved by the client to itself and admitted by the host with the same
\* profile, or refused, just when the model store has it READY no more.
ScreensAgree ==
    LET m == HubText(shown, None, Policy)
        ready == Executable(registry, HostPolicy)
        r == Resolved(ready, Asks(m, settings.profile, settings.context), NoConfig) IN
    m # None =>
        IF m \in ready
        THEN /\ r = [model |-> m, profile |-> settings.profile]
             /\ Admissible(m, settings.profile, settings.context, HostDevice.failures)
        ELSE r = None

\* The model behind the provider's automatic ids is admitted with the profile the
\* provider asks for, unless just that profile is remembered to have run out of
\* memory.
AliasesAgree ==
    LET m == HubText(registry, None,
                [available |-> TRUE, version |-> TRUE, experimental |-> settings.experimental,
                 device |-> HostDevice, profile |-> None, context |-> None]) IN
    m # None =>
        \/ Admissible(m, Manifest[m].profile, None, HostDevice.failures)
        \/ \E f \in Range(HostDevice.failures) : f.model = m /\ f.memory /\ f.profile = Manifest[m].profile

\* No memory of failures closes "safe" on a model it was open to.
SafeStaysOpen ==
    \A m \in Model : Admissible(m, "safe", settings.context, << >>)
                        => Admissible(m, "safe", settings.context, failures)

\* Who judges a model twice judges it the same: the screens, the provider's ids,
\* and the host before and after a failure of "safe".
GatesAgree == ScreensAgree /\ AliasesAgree /\ SafeStaysOpen

\* A profile that ran out of memory with a model is not admitted with it again
\* while the failure is remembered, if the device was profiled and the merge of an
\* empty storage did not make it forget.  (What was admitted before the failure
\* still goes on to load.)
NoBlindRepeat ==
    [][\A c \in Caller :
          /\ device # None /\ ~Forgotten
          /\ call[c].at = "gated" /\ call'[c].at = "admitted" /\ call[c].profile # "safe"
          => \A f \in Range(failures) :
                f.memory => f.model # call[c].model \/ f.profile # call[c].profile]_vars

\* A client gets the model it names, a stand-in only for a preferred one, with its
\* own profile, and at least the context it asks within what the model declares.
ServesWhatWasAsked ==
    \A c \in Caller : call[c].at \notin {"idle", "resolving"} =>
        LET intent == call[c].intent
            config == ConfigOf(c)
            target(id) == IF id \in DOMAIN config.aliases THEN config.aliases[id].model ELSE id IN
        /\ intent.model # None => call[c].model = target(intent.model)
        /\ intent.model = None /\ config.preferred # None =>
              \/ call[c].model = target(config.preferred)
              \/ /\ config.fallback
                 /\ call[c].profile = First(intent.profile, First(config.profile, Manifest[call[c].model].profile))
        /\ intent.profile # None => call[c].profile = intent.profile
        /\ \A asked \in {intent.context, config.minimumContext} \ {None} :
              /\ Supported(call[c].model) >= asked
              /\ call[c].at \in {"admitted", "loading"} => call[c].dimensions.ctx >= asked
        /\ call[c].at \in {"admitted", "loading"} => Initializable(call[c].dimensions)
=============================================================================
