\* One service, every combination of the fields the rules read.
CONSTANTS
    proj = proj
    backend = backend
    Services = {"web"}
    NameOrder <- MCNameOrder1
    ProjectName = proj
    NetworkNames = {proj, "default", backend}
    NetworkModes = {Unset, "default", "host"}
    SetChoices = {"restart", "links", "net"}
    DeployChoices <- MCDeployChoices
    Unset = Unset
    NoAttach = NoAttach
    NoDeploy = NoDeploy
    NoUpdate = NoUpdate
SPECIFICATION WSpec
INVARIANTS WarningsMatchSpec OutputOrdered
\* CheckProjectWarnings returns once every service is scanned.
CHECK_DEADLOCK FALSE
