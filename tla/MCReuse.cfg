SPECIFICATION Spec
SYMMETRY WorkerSymmetry
CONSTANTS
    Workers = {w1, w2}
    Pods = {"p1", "p2"}
    PodInfo <- MCMainOnly
    Workloads <- MCWorkloads
    Permanent = {}
    Phases = {"Pending", "Running"}
    Stamps = {FALSE}
    Template = {"deploymentName", "containerName"}
    Numerals = {}
    MaxBacklog = 1
    MaxFailures = 1
    MaxCancels = 0
    Nil = Nil
INVARIANTS
    SingleFlight
    CreatedAccountedFor
    DeletedAccountedFor
    HandledMeansReported
PROPERTY KeepsContract
