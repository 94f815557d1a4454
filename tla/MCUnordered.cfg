CONSTANTS
    Clients = {a, b, c}
    Founders = {a, b}
    Ordered = FALSE
    MaxProposals = 2
    MaxEpochs = 3
    MaxMessages = 1
SYMMETRY Symmetry
SPECIFICATION Spec
CHECK_DEADLOCK FALSE
INVARIANTS EpochAgreement OnlyMembersRead
PROPERTIES DeliveredOnce
