---------------------------- MODULE DevicePolicy ----------------------------
(***************************************************************************)
(* Which settings a model may be loaded with on a device:                  *)
(* packages/device-profile/src/profiles.ts and resolver.ts, and the check  *)
(* of packages/runtime-llama-rn/src/mapping.ts on the settings it loads.   *)
(* Memory is counted in GiB; None is an unknown measure, an absent request *)
(* or an absent bound.  Artifacts are installed: free disk is not asked.   *)
(***************************************************************************)
EXTENDS Integers, Sequences, FiniteSets, FiniteSetsExt, Functions

CONSTANTS
    Manifest,   \* manifest of each model: [size, experimental, moe, licence, capabilities,
                \*   recommended, trained, maximum, minimumRam, recommendedRam, profile]
    None

Model == DOMAIN Manifest
Profile == {"safe", "balanced", "performance", "experimental-moe"}
Measure == Nat \cup {None}

\* Models are numbers.
ASSUME NoneAssumption == None \notin Nat \cup Profile
ASSUME ManifestAssumption ==
    /\ Model \subseteq Nat
    /\ \A m \in Model : Manifest[m] \in
          [size : Nat, experimental : BOOLEAN, moe : BOOLEAN, licence : BOOLEAN, capabilities : SUBSET STRING,
           recommended : Nat, trained : Measure, maximum : Measure, minimumRam : Measure, recommendedRam : Measure,
           profile : Profile]

Below(measure, bound) == measure # None /\ bound # None /\ measure < bound
AtLeast(measure, bound) == measure # None /\ measure >= bound

\* createRuntimeProfiles: context, batch and micro-batch of each profile.
Dimensions(device) ==
    LET constrained == Below(device.physical, 8) \/ Below(device.available, 4)
        roomy == AtLeast(device.physical, 16) /\ AtLeast(device.available, 8)
        d(ctx, batch, ubatch) == [ctx |-> ctx, batch |-> batch, ubatch |-> ubatch] IN
    [p \in Profile |->
        CASE p = "safe"        -> IF constrained THEN d(768, 64, 32) ELSE d(2048, 128, 32)
          [] p = "balanced"    -> IF constrained THEN d(1024, 64, 32) ELSE d(4096, 256, 128)
          [] p = "performance" -> IF roomy THEN d(8192, 512, 256) ELSE d(4096, 256, 128)
          [] p = "experimental-moe" -> IF roomy THEN d(4096, 256, 128) ELSE d(2048, 64, 32)]

Least(a, b) == IF a < b THEN a ELSE b

\* The dimensions never exceed the context.
Clamped(dimensions, ctx) ==
    [ctx |-> ctx, batch |-> Least(dimensions.batch, ctx),
     ubatch |-> Least(Least(dimensions.ubatch, dimensions.batch), ctx)]

\* A mutant: a failure locks "safe" as well.
LockedWholly(profile, ooms) == \E f \in ooms : f.profile = profile

\* A profile that ran out of memory is locked; "safe" is always there to retry.
Locked(profile, ooms) == profile # "safe" /\ \E f \in ooms : f.profile = profile

SUPPORTED == 0
WARNING == 1
EXPERIMENTAL == 2
NOT_RECOMMENDED == 3
UNSUPPORTED == 4

\* priorOomFailures
Ooms(device, m) == {f \in Range(device.failures) : f.model = m /\ f.memory}

\* The profile asked for, else the model's own.
Wanted(m, requested) ==
    IF requested # None THEN requested
    ELSE IF Manifest[m].moe THEN "experimental-moe" ELSE Manifest[m].profile

\* After a failure nobody asked to repeat, "safe".
Settled(device, m, requested) ==
    IF Ooms(device, m) # {} /\ requested = None THEN "safe" ELSE Wanted(m, requested)

ContextOf(device, profile, context) == IF context # None THEN context ELSE Dimensions(device)[profile].ctx

\* What speaks against a request.
Against(device, m, requested, context) ==
    LET manifest == Manifest[m]
        profile == Settled(device, m, requested)
        asked == ContextOf(device, Wanted(m, requested), context) IN
    {n \in {WARNING, EXPERIMENTAL, NOT_RECOMMENDED, UNSUPPORTED} :
        \/ /\ n = UNSUPPORTED
           /\ \/ ~device.runtime
              \/ Below(manifest.maximum, asked)
              \/ Below(device.physical, manifest.minimumRam)
        \/ /\ n = NOT_RECOMMENDED
           /\ \/ Below(device.available, manifest.minimumRam)
              \/ Locked(profile, Ooms(device, m))
              \/ manifest.moe /\ Below(device.physical, 24)
        \/ /\ n = EXPERIMENTAL
           /\ profile = "experimental-moe" \/ manifest.experimental
        \/ /\ n = WARNING
           /\ \/ asked > manifest.recommended
              \/ Below(device.physical, manifest.recommendedRam)
              \/ device.available = None
              \/ Ooms(device, m) # {}}

\* resolveRuntimeProfile: the profile and dimensions for a request, and how bad
\* an idea they are: the worst of everything that speaks against them.
Resolution(device, m, requested, context) ==
    LET profile == Settled(device, m, requested) IN
    [profile |-> profile,
     compatibility |-> Max({SUPPORTED} \cup Against(device, m, requested, context)),
     dimensions |-> Clamped(Dimensions(device)[profile], ContextOf(device, profile, context))]

\* contextParams: what the runtime takes.
Initializable(dimensions) ==
    /\ dimensions.ctx > 0 /\ dimensions.batch > 0 /\ dimensions.ubatch > 0
    /\ dimensions.ubatch <= dimensions.batch
=============================================================================
