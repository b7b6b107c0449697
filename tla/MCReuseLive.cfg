SPECIFICATION FairSpec
CONSTANTS
    Workers = {w1, w2}
    Pods = {"p1"}
    PodInfo <- MCPodInfo
    Workloads <- MCWorkloads
    Permanent = {}
    Phases = {"Pending", "Running"}
    Stamps = {FALSE}
    Template = {"deploymentName", "containerName"}
    Numerals = {}
    MaxBacklog = 1
    MaxFailures = 1
    MaxCancels = 0
    Nil = Nil
INVARIANTS
    TypeOK
    HandledMeansReported
PROPERTIES
    CreatedHandled
    DeletedHandled
