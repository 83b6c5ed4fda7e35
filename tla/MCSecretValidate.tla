------------------------- MODULE MCSecretValidate -------------------------
EXTENDS SecretValidate, TLC

CONSTANTS db, api, etcDb, relDb

MCSecretNames == {db, api}
MCTargets == {etcDb, relDb}
MCAbsTargets == {etcDb}

\* uid/gid strings: unset, a valid uid, a negative one, one out of range.
MCIdSamples == {Empty, <<"7">>, <<"-", "1">>, <<"9", "9">>}

\* Every uid/gid string of at most two characters over the digits and "-".
\* The samples and the two-digit strings on both sides of the scaled int64
\* bound (32) and below the scaled uint64 bound (64), with 64 itself.
MCEdgeIds == MCIdSamples \cup {<<"3", "1">>, <<"3", "2">>, <<"6", "3">>, <<"6", "4">>}

MCAllIds == {Empty} \cup {<<c>> : c \in Digits \cup {"-"}}
                    \cup {<<c, d>> : c \in Digits \cup {"-"}, d \in Digits}
=============================================================================
