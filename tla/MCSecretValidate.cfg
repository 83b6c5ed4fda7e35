\* Every list of at most two specs and two mounts over one name (and the
\* empty name), absolute, relative and empty paths, and uid/gid strings at
\* the edges of the parse: unset, a sign, out of range, and both sides of
\* the int64 and uint64 bounds; int as wide as ParseUint's result (a 64-bit
\* build), scaled from 64 to 6 bits.
CONSTANTS
    db = db
    api = api
    etcDb = etcDb
    relDb = relDb
    SecretNames = {db}
    Targets <- MCTargets
    AbsTargets <- MCAbsTargets
    Contents = {"bytes"}
    Files = {}
    AbsFiles = {}
    Ids <- MCEdgeIds
    Modes = {}
    WorkingDir = WorkingDir
    NoMode = NoMode
    NoDef = NoDef
    ReadError = ReadError
    Empty = Empty
    ParseBits = 6
    IntBits = 6
    MaxSpecs = 2
    MaxMounts = 2
SPECIFICATION VSpec
INVARIANTS ValidateVerdictCorrect
\* ValidateSecretsAndMounts returns: the final states have no successor.
CHECK_DEADLOCK FALSE
