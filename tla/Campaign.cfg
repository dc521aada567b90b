SPECIFICATION CampaignSpec
CONSTANTS
    h1 = h1
    h2 = h2
    TaskIds = {"task"}
    Hosts = {"linux-x64"}
    Harnesses = {h1, h2}
    Seeds = {1337}
    RepeatRuns = 2
    RequiredEvidence <- MCRequired
    Runs <- MCRuns
    Stored <- MCStored
    Evaluators = {"e1"}
    PassRate <- MCPassRate
    SeedAgreement <- MCSeedAgreement
    MaxOrphans = 1
    MaxUnknown = 1
    SoakMinutes = 3
    MaxRuns = 4
    Bounded <- MCBounded
    Plan <- MCPlan
    Host = "linux-x64"
    codex = codex
    claude = claude
    Filters = {codex, claude}
    NoFilter = NoFilter
    NoSlot = NoSlot
    NoFile = NoFile
    Cut = Cut
    Pids = {p1, p2}
    p1 = p1
    p2 = p2
    MaxAppended = 2
SYMMETRY MCSymmetry
INVARIANTS
    CampaignTypeOK
    StatusIsDeserved
    PassIsEarned
    LoaderAgrees
    CompletedStay
    RunOnce
    AlwaysResumable
    OnlyLeftoversCollide
CHECK_DEADLOCK FALSE
