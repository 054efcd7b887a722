\* Both platforms, inference beside them, a failure, a death and a damaged file.
SPECIFICATION Spec
CONSTANTS
    Model = {m1}
    File = {f1, f2}
    Call = {c1, c2}
    Platform = {"android", "ios"}
    None = None
    MaxFaults = 2
    MaxCrashes = 1
    MaxDamages = 1
SYMMETRY Alike
INVARIANTS
    RecordsMatchFiles
    VerifiedMeansIntact
    NeverStuck
PROPERTIES
    InferenceUndisturbed
