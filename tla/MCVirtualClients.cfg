SPECIFICATION Spec
CONSTANTS
    Emulators = {0, 1}
    Groups = {"g", "h"}
    MaxEmulation = 2
    MaxForward = 2
    Tolerance = 1
    MaxGeneration = 4
    MaxPast = 1
    BatchSize = 2
    Plans <- MCPlans
INVARIANTS OperationSecretsOnce SiblingsFollow MessagesAttributed WelcomesOpen
CHECK_DEADLOCK FALSE
