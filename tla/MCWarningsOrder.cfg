\* Three services declared in every order, each with a few small configurations.
CONSTANTS
    proj = proj
    backend = backend
    ProjectName = proj
    NetworkNames = {proj, "default", backend}
    NetworkModes = {Unset, "default", "host"}
    SetChoices = {"restart", "links", "net"}
    DeployChoices <- MCDeployChoices
    Unset = Unset
    NoAttach = NoAttach
    NoDeploy = NoDeploy
    NoUpdate = NoUpdate
    Services = {"api", "db", "web"}
    NameOrder <- MCNameOrder3
    LoadedConfigs <- MCOrderConfigs
SPECIFICATION WSpec
INVARIANTS WarningsMatchSpec OutputOrdered
\* CheckProjectWarnings returns once every service is scanned.
CHECK_DEADLOCK FALSE
