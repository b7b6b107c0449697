SPECIFICATION BootSpec
CONSTANTS
    Workers = {w1}
    Pods = {"p1"}
    PodInfo <- MCPodInfo
    Workloads <- MCWorkloads
    Permanent <- MCWorkloads
    Phases = {"Pending", "Running"}
    Stamps = {FALSE}
    Template = {"deploymentName", "containerName"}
    Numerals = {}
    MaxBacklog = 1
    MaxFailures = 1
    MaxCancels = 1
    Nil = Nil
INVARIANTS
    BootTypeOK
    GateLosesNothing
    CachedWasAnswered
    UnknownIsMissing
    HandledMeansAccounted
    PermanentStaysDeployed
CHECK_DEADLOCK FALSE
