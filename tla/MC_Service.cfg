SPECIFICATION Spec
CONSTANTS
    Kids = {"k1", "k2"}
    NoKid = "none"
    Tokens <- TheTokens
    Bearers <- TheBearers
    Lifespan = 1
    MaxTime = 1
    Configs <- TheConfigs
    Databases = {"d1", "d2"}
    Clients = {"user", "probe"}
    RoutesOf <- TheRoutes
    NoSettings = NoSettings
    NoEngine = NoEngine
    MaxApps = 2
CONSTRAINT Apart
INVARIANTS
    TypeOK
    EngineIsOwn
    StartedIsComplete
    OwnIdEverywhere
    LoggedOnce
    ErrorsAreProblems
PROPERTIES
    ReadyIsTrue
    CallerIsVerified
    NewKeyAccepted
