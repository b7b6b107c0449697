SPECIFICATION Spec
SYMMETRY PodSymmetry
CONSTANTS
    Pods = {p1, p2, p3}
    Times = {1, 2, 3}
    ContainerLists <- MCContainerLists
    Nil = Nil
INVARIANTS
    TypeOK
    SnapshotComplete
    UniqueTargetWins
