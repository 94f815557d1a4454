SPECIFICATION Spec
CONSTANTS
    None = None
    Suite = Suite
    Users = {a, b, c}
    Creator = a
    Params <- MCParams
    PathParams <- MCPathParams
    Contexts <- MCContexts
    Founding <- MCFounding
    Life = 1
    MaxEpoch = 2
    MaxTime = 1
    MaxStore = 1
CHECK_DEADLOCK FALSE
INVARIANTS
    RefusalsExplained
    RequirementsKept
    CredentialsUnderstood
SYMMETRY MCSymmetry
