SPECIFICATION Spec
SYMMETRY WorkerSymmetry
CONSTANTS
    Workers = {w1, w2}
    Pods = {"job", "bare"}
    PodInfo <- MCPodInfo
    Workloads <- MCWorkloads
    Permanent <- MCPermanent
    Phases = {"Pending", "Running", "Succeeded"}
    Stamps = {TRUE, FALSE}
    Template = {"namespace", "deploymentName"}
    Numerals = {"17"}
    MaxBacklog = 1
    MaxFailures = 0
    MaxCancels = 1
    Nil = Nil
INVARIANTS
    CreatedAccountedFor
    PermanentStaysDeployed
    StableIdentity
