SPECIFICATION Spec
CONSTANTS
    Objects = {"pod", "a", "b", "c", "node"}
    Pod = "pod"
    Fetchable = {"a", "b", "c"}
    OwnerLists <- MCOwnerLists
    Annotations <- MCAnnotations
    Risks <- MCRisks
    MaxCustomTags = 3
INVARIANTS
    TypeOK
    Complete
    NearestWins
PROPERTY Terminates
