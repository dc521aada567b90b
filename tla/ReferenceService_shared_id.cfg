SPECIFICATION Spec
CONSTANTS
    t1 = t1
    t2 = t2
    t3 = t3
    c1 = c1
    c2 = c2
    cli1 = cli1
    cli2 = cli2
    mcp = mcp
    None = None
    Tasks = {t1, t2}
    JobIds = {t1, t2}
    ProcedureIds = {t1, t2}
    Keys = {t1, t2}
    Payloads = {}
    Deferred = {}
    Unsupported = {}
    Clients = {c1, c2}
    Processes = {mcp}
    Serialized = TRUE
    ProcessOf <- MCOneProcess
INVARIANTS
    ReportsTruthful
