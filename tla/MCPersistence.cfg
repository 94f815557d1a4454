SPECIFICATION Spec
CONSTANTS
    Groups = {g1}
    Adapters = {"file", "indexeddb"}
    Overlapping = {"indexeddb"}
    SaveFirst = TRUE
    MaxGenerations = 2
    MaxKeyPackages = 3
    MaxCrashes = 2
INVARIANTS
    NoGenerationReused
    PublishedStaysValid
    ReopenedIsCurrent
CHECK_DEADLOCK FALSE
