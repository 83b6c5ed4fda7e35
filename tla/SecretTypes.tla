---------------------------- MODULE SecretTypes ----------------------------
(***************************************************************************)
(* Data shared by the secret resolver (pkg/client/compose/secret.go) and   *)
(* the secret validator (pkg/api/secret.go): the project's secret          *)
(* definitions, a service's secret references, and the SecretSpec and      *)
(* SecretMount values the resolver produces and the validator checks.      *)
(*                                                                         *)
(* Names, payloads, paths and uid/gid strings are members of small         *)
(* constant sets: the code only compares, copies and concatenates them.    *)
(***************************************************************************)
EXTENDS Naturals, Sequences

CONSTANTS
    SecretNames,  \* secret names a reference may use (defined or not)
    Contents,     \* secret payloads, inline or read from a file
    Targets,      \* mount targets a user may write in a reference
    AbsTargets,   \* those of Targets that are absolute paths
    Files,        \* file paths a secret definition may carry
    AbsFiles,     \* those of Files that are absolute paths
    WorkingDir,   \* the project's working directory
    Ids,          \* uid/gid strings a reference may carry (Empty = unset)
    Modes,        \* file modes a reference may carry
    NoMode,       \* a reference or mount without a mode (nil pointer)
    NoDef,        \* lookup miss in the project's secrets map
    ReadError,    \* what reading a file that cannot be read yields
    Empty         \* the empty string "" (a Go string field left unset)

ASSUME SecretTypesAssumption ==
    /\ AbsTargets \subseteq Targets
    /\ AbsFiles \subseteq Files
    /\ Empty \notin Targets \cup Files
    /\ Empty \in Ids
    /\ NoMode \notin Modes
    /\ ReadError \notin Contents

(***************************************************************************)
(* types.SecretConfig: the fields secretSpecsFromCompose reads.  File Empty *)
(* means no file.                                                          *)
(***************************************************************************)
SecretDef == [external : BOOLEAN, content : Contents, file : Files \cup {Empty}]

(* types.ServiceSecretConfig: target Empty: no target given.              *)
ServiceSecret == [source : SecretNames, target : Targets \cup {Empty},
                  uid : Ids, gid : Ids, mode : Modes \cup {NoMode}]

(***************************************************************************)
(* "/run/secrets/" + source: an absolute path, distinct for distinct      *)
(* sources.  The pair stands for the concatenated string.                  *)
(***************************************************************************)
DefaultPath(source) == <<"/run/secrets/", source>>

DefaultPaths == {DefaultPath(n) : n \in SecretNames}

(* filepath.IsAbs on a container path.                                     *)
IsAbs(path) == path \in AbsTargets \cup DefaultPaths

(* filepath.Join(workingDir, file) when the file path is relative.         *)
ResolvePath(file) == IF file \in AbsFiles THEN file ELSE <<WorkingDir, file>>

FilePaths == {ResolvePath(f) : f \in Files}

(* api.SecretSpec and api.SecretMount.                                     *)
SecretSpec == [Name : SecretNames \cup {Empty}, Content : Contents]

SecretMount == [SecretName : SecretNames \cup {Empty},
                ContainerPath : Targets \cup DefaultPaths \cup {Empty},
                Uid : Ids, Gid : Ids, Mode : Modes \cup {NoMode}]
=============================================================================
