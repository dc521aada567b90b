SPECIFICATION Spec
CHECK_DEADLOCK FALSE
CONSTANTS
    d1 = d1
    d2 = d2
    r1 = r1
    r2 = r2
    None = None
    Digests = {d1, d2}
    Versions = {1, 2}
    Content <- MCContent
    Passing <- MCPassing
    Provenance <- MCProvenance
    Reports = {r1, r2}
    EditsDuringGate = TRUE
    Editable = {"candidate"}
    MaxEdits = 2
    MaxRuns = 1
    MaxSigned = 1
SYMMETRY MCSymmetry
INVARIANT
    InputsAreSource
