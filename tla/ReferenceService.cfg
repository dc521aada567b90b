SPECIFICATION Spec
CONSTANTS
    t1 = t1
    t2 = t2
    t3 = t3
    c1 = c1
    c2 = c2
    cli1 = cli1
    cli2 = cli2
    mcp = mcp
    None = None
    Tasks = {t1, t2, t3}
    JobIds = {t1, t2, t3}
    ProcedureIds = {t1, t2, t3}
    Keys = {t1, t2, t3}
    Payloads = {}
    Deferred = {t2}
    Unsupported = {t3}
    Clients = {c1, c2}
    Processes = {cli1, cli2}
    Serialized = TRUE
    ProcessOf <- MCOwnProcess
INVARIANTS
    ExecutedAtMostOnce
    ReportsTruthful
    ReportsLostOnlyByCrash
PROPERTIES
    UsesController
