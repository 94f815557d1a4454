SPECIFICATION Spec
CONSTANTS
    Groups = {g1, g2}
    Ids = {i1, i2}
    ProposalRefs = {r1, r2}
    Epochs = {1, 11}
    Leaves = {0, 10}
    VcEpochs = {x1, x2}
    Values = {v1, v2}
    MaxCalls = 4
    Scopes <- Related
SYMMETRY Symmetric
INVARIANTS ProvidersConform
CHECK_DEADLOCK FALSE
