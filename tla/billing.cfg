SPECIFICATION Spec
CONSTANTS
    None = None
    MaxEvents = 2
    Statuses <- MixedStatuses
    Plans <- TwoPlans
    FirstPlan = "basic"
    Requests = {"r"}
    Kinds <- AllKinds
    Workers = 1
    MaxAttempts = 2
    Failures = {"ingest", "evict", "job", "crash", "request"}
CHECK_DEADLOCK FALSE
INVARIANTS
    TypeOK
    TenantFollowsSubscription
    
