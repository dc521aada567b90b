SPECIFICATION Spec
CONSTANTS
    j1 = j1
    j2 = j2
    p1 = p1
    p2 = p2
    k1 = k1
    c1 = c1
    c2 = c2
    i1 = i1
    i2 = i2
    i3 = i3
    payload = payload
    None = None
    JobIds = {j1}
    ProcedureIds = {p1, p2}
    Keys = {k1}
    Payloads = {payload}
    Procedures <- MCKeyedProcedure
    Clients = {c1, c2}
    Inodes = {i1, i2, i3}
    Targets = {"granted", "running", "cancelled"}
    Serialized = FALSE
    MaxEvents = 3
SYMMETRY MCSymmetry
PROPERTIES
    TerminalJobsImmutable
