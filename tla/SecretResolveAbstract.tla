----------------------- MODULE SecretResolveAbstract -----------------------
(***************************************************************************)
(* What secret resolution promises (spec section 4.2), as one atomic step: *)
(* either every reference resolves and the result holds one spec and one   *)
(* mount per reference, in input order, or the first reference that fails *)
(* decides the error and nothing is returned.                              *)
(***************************************************************************)
EXTENDS SecretTypes

VARIABLES secrets, serviceSecrets, fs, secretSpecs, secretMounts, status, err

avars == <<secrets, serviceSecrets, fs, secretSpecs, secretMounts, status, err>>

(* The error a reference causes, in the order the spec lists the steps:   *)
(* lookup, external, file read; each is asked only when the one before it *)
(* passed.                                                                 *)
RefError(ref) ==
    LET def == secrets[ref.source] IN
    IF def = NoDef THEN "not_found"
    ELSE IF def.external THEN "external"
    ELSE IF def.file # Empty /\ fs[ResolvePath(def.file)] = ReadError THEN "read"
    ELSE "none"

(* Inline content by default; the file's bytes replace it.                *)
ResolvedSpec(ref) ==
    LET def == secrets[ref.source] IN
    [Name |-> ref.source,
     Content |-> IF def.file = Empty THEN def.content ELSE fs[ResolvePath(def.file)]]

ResolvedMount(ref) ==
    [SecretName |-> ref.source,
     ContainerPath |-> IF ref.target = Empty THEN DefaultPath(ref.source) ELSE ref.target,
     Uid |-> ref.uid, Gid |-> ref.gid, Mode |-> ref.mode]

FailingRefs == {k \in 1..Len(serviceSecrets) : RefError(serviceSecrets[k]) # "none"}

FirstFailing == CHOOSE k \in FailingRefs : \A l \in FailingRefs : k <= l

AInit ==
    /\ secrets \in [SecretNames -> SecretDef \cup {NoDef}]
    /\ serviceSecrets \in Seq(ServiceSecret)
    /\ fs \in [FilePaths -> Contents \cup {ReadError}]
    /\ secretSpecs = <<>>
    /\ secretMounts = <<>>
    /\ status = "running"
    /\ err = "none"

Succeed ==
    /\ FailingRefs = {}
    /\ status' = "ok"
    /\ err' = "none"
    /\ secretSpecs' = [k \in 1..Len(serviceSecrets) |-> ResolvedSpec(serviceSecrets[k])]
    /\ secretMounts' = [k \in 1..Len(serviceSecrets) |-> ResolvedMount(serviceSecrets[k])]

FailFirst ==
    /\ FailingRefs # {}
    /\ status' = "failed"
    /\ err' = RefError(serviceSecrets[FirstFailing])
    /\ secretSpecs' = <<>>
    /\ secretMounts' = <<>>

Resolve ==
    /\ status = "running"
    /\ Succeed \/ FailFirst
    /\ UNCHANGED <<secrets, serviceSecrets, fs>>

ASpec == AInit /\ [][Resolve]_avars
=============================================================================
