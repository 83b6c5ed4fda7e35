\* One service referencing the same secret twice, at one target or at two.
CONSTANTS
    db = db
    api = api
    etcDb = etcDb
    relDb = relDb
    absFile = absFile
    relFile = relFile
    SecretNames <- MCSecretNames
    Contents <- MCContents
    Targets <- MCTargets
    AbsTargets <- MCAbsTargets
    Files <- MCFiles
    AbsFiles <- MCAbsFiles
    Ids <- MCIds
    Modes <- MCModes
    WorkingDir = WorkingDir
    NoMode = NoMode
    NoDef = NoDef
    ReadError = ReadError
    Empty = Empty
    MaxRefs = 2
SPECIFICATION Spec
SYMMETRY Symmetry
INVARIANTS SpecNamesUnique
\* secretSpecsFromCompose returns: the final states have no successor.
CHECK_DEADLOCK FALSE
