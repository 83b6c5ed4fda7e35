\* Three services declared in an order other than their sorted names.
CONSTANTS
    proj = proj
    backend = backend
    ProjectName = proj
    NetworkNames = {proj, "default", backend}
    NetworkModes = {Unset, "default", "host"}
    SetChoices = {"restart", "links", "net"}
    DeployChoices <- MCDeployChoices
    Unset = Unset
    NoAttach = NoAttach
    NoDeploy = NoDeploy
    NoUpdate = NoUpdate
    Services = {"api", "db", "web"}
    NameOrder <- MCNameOrder3
    LoadedConfigs <- MCOrderConfigs
SPECIFICATION WSpec
INVARIANTS WarningsFollowDeclaredOrder
\* CheckProjectWarnings returns once every service is scanned.
CHECK_DEADLOCK FALSE
