SPECIFICATION ReleaseSpec
CHECK_DEADLOCK FALSE
CONSTANTS
    d1 = d1
    d2 = d2
    r1 = r1
    r2 = r2
    None = None
    Digests = {d1, d2}
    Versions = {1, 2}
    Content <- MCContent
    Passing <- MCPassing
    Provenance <- MCProvenance
    Reports = {r1, r2}
    EditsDuringGate = FALSE
    Editable = {"candidate"}
    MaxEdits = 1
    MaxRuns = 3
    MaxSigned = 1
    Manifests = {"m1", "m2", "failed"}
    WellFormed = {"m1", "m2"}
    PathOrder <- MCPathOrder
    PortablePaths = {"a", "A", "b"}
    LowerCase <- MCLowerCase
    Contents = {"c1", "c2", "empty", "secret"}
    Size <- MCSize
    Private = {"secret"}
    Authorities = {"s1", "s2"}
    SubmitterKeys = {"k1"}
    PublicKeys = {"k1", "k2"}
    MaxArtifacts = 2
    MaxArtifactSize = 2
    MaxBundleSize = 3
    NoBundle = NoBundle
    MaxAlterations = 2
SYMMETRY MCSymmetry
INVARIANTS
    ReadyIsAgreed
    ReadyIsFromSource
    ReplayVerifiesWhatWasBuilt
