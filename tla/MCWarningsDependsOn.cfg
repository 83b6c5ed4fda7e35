\* One service: depends_on written by the user next to links (spec 4.1).
CONSTANTS
    proj = proj
    backend = backend
    ProjectName = proj
    NetworkNames = {proj, "default", backend}
    NetworkModes = {Unset, "default", "host"}
    SetChoices = {"restart", "links", "net"}
    DeployChoices <- MCDeployChoices
    Unset = Unset
    NoAttach = NoAttach
    NoDeploy = NoDeploy
    NoUpdate = NoUpdate
    Services = {"web"}
    NameOrder <- MCNameOrder1
SPECIFICATION WSpec
INVARIANTS DependsOnWarnedPerSpec
\* CheckProjectWarnings returns once every service is scanned.
CHECK_DEADLOCK FALSE
