\* A harness that ignores SIGTERM and forks; one descendant shares its pipes, one does not.
SPECIFICATION Spec
CONSTANTS
    harness = harness
    d1 = d1
    d2 = d2
    Child = harness
    Descendants = {d1, d2}
    Stubborn = {harness, d1}
    Holders = {harness, d1}
    maxOutputBytes = 3
    MaxWritten = 5
CHECK_DEADLOCK FALSE
INVARIANTS
    ResolvedMeansWhole
    ResolvedUndisturbed
PROPERTIES
    Settles
