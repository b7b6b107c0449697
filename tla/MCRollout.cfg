SPECIFICATION Spec
SYMMETRY WorkerSymmetry
CONSTANTS
    Workers = {w1, w2}
    Pods = {"p1", "p2"}
    PodInfo <- MCPodInfo
    Workloads <- MCWorkloads
    Permanent = {}
    Phases = {"Running"}
    Stamps = {FALSE}
    Template = {"namespace", "deploymentName", "containerName"}
    Numerals = {}
    MaxBacklog = 1
    MaxFailures = 1
    MaxCancels = 0
    Nil = Nil
INVARIANTS
    CreateDeleteExclusive
    CachedWasApplied
    CreatedAccountedFor
    DeletedAccountedFor
    HandledMeansReported
