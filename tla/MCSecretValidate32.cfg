\* One spec and one mount, with every uid and gid string of at most two
\* characters: values 0..99 cross the scaled int64 bound (32) and the
\* scaled uint64 bound (64); int half as wide as ParseUint's result (a
\* 32-bit build: GOARCH=386 or arm).
CONSTANTS
    db = db
    api = api
    etcDb = etcDb
    relDb = relDb
    SecretNames <- MCSecretNames
    Targets <- MCTargets
    AbsTargets <- MCAbsTargets
    Contents = {"bytes"}
    Files = {}
    AbsFiles = {}
    Ids <- MCAllIds
    Modes = {}
    WorkingDir = WorkingDir
    NoMode = NoMode
    NoDef = NoDef
    ReadError = ReadError
    Empty = Empty
    ParseBits = 6
    IntBits = 3
    MaxSpecs = 1
    MaxMounts = 1
SPECIFICATION VSpec
INVARIANTS ValidateVerdictCorrect
\* ValidateSecretsAndMounts returns: the final states have no successor.
CHECK_DEADLOCK FALSE
