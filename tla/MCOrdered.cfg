CONSTANTS
    Clients = {a, b, c, d}
    Founders = {a, b}
    Ordered = TRUE
    MaxProposals = 2
    MaxEpochs = 3
    MaxMessages = 0
SYMMETRY Symmetry
SPECIFICATION OrderedSpec
CHECK_DEADLOCK FALSE
INVARIANTS BystandersAgree OneCommitterConverges
PROPERTIES RefusedOnlyForLostProposals
