\* A harness that heeds SIGTERM; its descendant does not.
SPECIFICATION Spec
CONSTANTS
    harness = harness
    d1 = d1
    d2 = d2
    Child = harness
    Descendants = {d1}
    Stubborn = {d1}
    Holders = {harness, d1}
    maxOutputBytes = 1
    MaxWritten = 2
CHECK_DEADLOCK FALSE
PROPERTIES
    DescendantsTerminated
