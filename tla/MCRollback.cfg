SPECIFICATION Spec
CONSTANTS
    Workers = {w1}
    Pods = {"p1", "p2", "p3"}
    PodInfo <- MCPodInfo
    Workloads <- MCWorkloads
    Permanent = {}
    Phases = {"Running"}
    Stamps = {FALSE}
    Template = {"namespace", "deploymentName", "containerName"}
    Numerals = {}
    MaxBacklog = 1
    MaxFailures = 0
    MaxCancels = 0
    Nil = Nil
INVARIANT SuppressedIsRedundant
