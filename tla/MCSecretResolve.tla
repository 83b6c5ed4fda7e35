------------------------- MODULE MCSecretResolve -------------------------
EXTENDS SecretResolve, TLC

CONSTANTS db, api                 \* secret names
CONSTANTS etcDb, relDb            \* an absolute and a relative mount target
CONSTANTS absFile, relFile        \* an absolute and a relative secret file

MCSecretNames == {db, api}
MCTargets == {etcDb, relDb}
MCAbsTargets == {etcDb}
MCFiles == {absFile, relFile}
MCAbsFiles == {absFile}
MCContents == {"inline", "bytes"}
MCIds == {Empty, "1000"}
MCModes == {256}

\* Secret names are only compared and copied: permuting them is sound.
Symmetry == Permutations(MCSecretNames)
=============================================================================
