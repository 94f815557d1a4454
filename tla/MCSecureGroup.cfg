SPECIFICATION Spec
CONSTANTS
    Clients <- MCClients
    Founders <- MCFounders
    Stored <- MCStored
    Scenarios <- MCScenarios
    Encrypting = {"b"}
    MaxPast = 1
    RingSize = 2
    MaxQueue = 2
INVARIANTS Agreement AcceptedWasSent MembersCanFollow InvitedCanJoin
CHECK_DEADLOCK FALSE
