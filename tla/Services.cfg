SPECIFICATION ServicesSpec
CONSTANTS
    b1 = b1
    b2 = b2
    name1 = name1
    name2 = name2
    shard = shard
    c1 = c1
    c2 = c2
    a1 = a1
    a2 = a2
    e1 = e1
    e2 = e2
    None = None
    Blobs = {b1, b2}
    Names = {name1, name2}
    Shards = {shard}
    ShardOf <- MCShardOf
    Clients = {c1, c2}
    Appenders = {a1, a2}
    Events = {e1, e2}
    Genesis = Genesis
    MaxLines = 2
    MaxAlterations = 2
    Grants <- MCGrants
    Requests <- MCRequests
    Approvals <- MCApprovals
    NoApproval = NoApproval
    Usages <- MCUsages
    Scopes = {"project"}
    Capabilities = {"build"}
    Destinations = {"mgds"}
    Lifetimes = {1, 2}
    MaxTime = 2
    MaxLeases = 2
    MaxSessions = 1
    MaxSecrets = 2
INVARIANTS
    ServicesTypeOK
    ObjectsWhole
    ListedRetrievable
    ChainUnbroken
    EntryFixesHistory
    OneHolder
    BudgetHeld
    KeepsContract
PROPERTIES
    ImplementsContentStore
    RefusalsAreFinal
SYMMETRY MCSymmetry
