\* Every project with two secret names (defined, external, file-backed,
\* missing), every disk state of one absolute and one relative file,
\* and every list of at most two references.
CONSTANTS
    db = db
    api = api
    etcDb = etcDb
    relDb = relDb
    absFile = absFile
    relFile = relFile
    SecretNames <- MCSecretNames
    Contents <- MCContents
    Targets <- MCTargets
    AbsTargets <- MCAbsTargets
    Files <- MCFiles
    AbsFiles <- MCAbsFiles
    Ids <- MCIds
    Modes <- MCModes
    WorkingDir = WorkingDir
    NoMode = NoMode
    NoDef = NoDef
    ReadError = ReadError
    Empty = Empty
    MaxRefs = 2
SPECIFICATION Spec
SYMMETRY Symmetry
INVARIANTS OutputMatchesRefs
PROPERTIES ResolveRefines
\* secretSpecsFromCompose returns: the final states have no successor.
CHECK_DEADLOCK FALSE
