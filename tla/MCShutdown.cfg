SPECIFICATION Spec
CONSTANTS
    Workers = {w1}
    Pods = {"p1"}
    PodInfo <- MCPodInfo
    Workloads <- MCWorkloads
    Permanent = {}
    Phases = {"Running"}
    Stamps = {FALSE}
    Template = {"namespace", "deploymentName", "containerName"}
    Numerals = {}
    MaxBacklog = 1
    MaxFailures = 0
    MaxCancels = 1
    Nil = Nil
INVARIANT ShutdownDrains
