CONSTANTS
    Users = {u, v}
    Readers = {r}
    Packages = {k, l}
    Messages = {m}
    NoPackage = none
    MaxLog = 3
    MaxPublished = 2
    MaxWelcomes = 2
    MaxRestarts = 1
    MaxInFlight = 2
SPECIFICATION MCSpec
INVARIANTS NoGap SingleUseInOrder WelcomeOnce
PROPERTIES EveryMessageFetched
