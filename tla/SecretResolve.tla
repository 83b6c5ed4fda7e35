--------------------------- MODULE SecretResolve ---------------------------
(***************************************************************************)
(* secretSpecsFromCompose (pkg/client/compose/secret.go): the loop over a  *)
(* service's secret references that looks each one up in the project's    *)
(* secrets, rejects external ones, reads file-backed ones, and appends one *)
(* SecretSpec and one SecretMount per reference.  Any failure returns      *)
(* nil, nil and an error.                                                  *)
(*                                                                         *)
(* One step is one iteration of the loop, or the final return.  The       *)
(* inputs (the project's secrets, the references, the files on disk) are   *)
(* variables fixed by Init so that one run covers every small input.       *)
(***************************************************************************)
EXTENDS SecretTypes

CONSTANT MaxRefs  \* longest list of references a run enumerates

ASSUME MaxRefsAssumption == MaxRefs \in Nat

VARIABLES
    secrets,         \* types.Secrets: name -> definition, NoDef when absent
    serviceSecrets,  \* []types.ServiceSecretConfig, the loop's input
    fs,              \* file contents by resolved path, ReadError if unreadable
    i,               \* index of the next reference the loop handles
    secretSpecs,     \* the specs appended so far / returned
    secretMounts,    \* the mounts appended so far / returned
    status,          \* "running" inside the loop, then "ok" or "failed"
    err              \* the error returned: "none", "external", "read", "not_found"

inputs == <<secrets, serviceSecrets, fs>>
vars == <<secrets, serviceSecrets, fs, i, secretSpecs, secretMounts, status, err>>

Errors == {"external", "read", "not_found"}

RefSeqs == UNION {[1..n -> ServiceSecret] : n \in 0..MaxRefs}

TypeOK ==
    /\ secrets \in [SecretNames -> SecretDef \cup {NoDef}]
    /\ serviceSecrets \in Seq(ServiceSecret)
    /\ fs \in [FilePaths -> Contents \cup {ReadError}]
    /\ i \in 1..(Len(serviceSecrets) + 1)
    /\ secretSpecs \in Seq(SecretSpec)
    /\ secretMounts \in Seq(SecretMount)
    /\ status \in {"running", "ok", "failed"}
    /\ err \in Errors \cup {"none"}

Init ==
    /\ secrets \in [SecretNames -> SecretDef \cup {NoDef}]
    /\ serviceSecrets \in RefSeqs
    /\ fs \in [FilePaths -> Contents \cup {ReadError}]
    /\ i = 1
    /\ secretSpecs = <<>>
    /\ secretMounts = <<>>
    /\ status = "running"
    /\ err = "none"

-----------------------------------------------------------------------------
(* The reference the loop is at and the definition it names.              *)
Ref == serviceSecrets[i]
Def == secrets[Ref.source]

(* Content of a found, non-external definition: the inline content,       *)
(* replaced by the file's bytes when a file is given.                      *)
FileContent(def) == fs[ResolvePath(def.file)]

SpecContent(def) == IF def.file # Empty THEN FileContent(def) ELSE def.content

(* The mount built for a reference: target defaults to /run/secrets/src.  *)
MountTarget(ref) == IF ref.target = Empty THEN DefaultPath(ref.source) ELSE ref.target

(* Mutant: uid and gid copied into each other's field.                    *)
MountForSwapped(ref) == [SecretName |-> ref.source, ContainerPath |-> MountTarget(ref),
                         Uid |-> ref.gid, Gid |-> ref.uid, Mode |-> ref.mode]

MountFor(ref) == [SecretName |-> ref.source, ContainerPath |-> MountTarget(ref),
                  Uid |-> ref.uid, Gid |-> ref.gid, Mode |-> ref.mode]

(* Mutant: the partial specs and mounts are returned with the error.      *)
FailKeepPartial(e) ==
    /\ status' = "failed"
    /\ err' = e
    /\ UNCHANGED <<inputs, i, secretSpecs, secretMounts>>

(* return nil, nil, error                                                  *)
Fail(e) ==
    /\ status' = "failed"
    /\ err' = e
    /\ secretSpecs' = <<>>
    /\ secretMounts' = <<>>
    /\ UNCHANGED <<inputs, i>>

Looping == status = "running" /\ i <= Len(serviceSecrets)

(* The reference names no project secret.                                  *)
NotFound ==
    /\ Looping
    /\ Def = NoDef
    /\ Fail("not_found")

(* The project secret is external.                                         *)
External ==
    /\ Looping
    /\ Def # NoDef
    /\ Def.external
    /\ Fail("external")

(* os.ReadFile of the secret's file fails.                                 *)
ReadFails ==
    /\ Looping
    /\ Def # NoDef
    /\ ~Def.external
    /\ Def.file # Empty
    /\ FileContent(Def) = ReadError
    /\ Fail("read")

(* The whole iteration succeeds: append the spec and the mount.            *)
ResolveRef ==
    /\ Looping
    /\ Def # NoDef
    /\ ~Def.external
    /\ Def.file # Empty => FileContent(Def) # ReadError
    /\ secretSpecs' = Append(secretSpecs, [Name |-> Ref.source,
                                           Content |-> SpecContent(Def)])
    /\ secretMounts' = Append(secretMounts, MountFor(Ref))
    /\ i' = i + 1
    /\ UNCHANGED <<inputs, status, err>>

(* The loop is over: return secretSpecs, secretMounts, nil.                *)
Return ==
    /\ status = "running"
    /\ i > Len(serviceSecrets)
    /\ status' = "ok"
    /\ UNCHANGED <<inputs, i, secretSpecs, secretMounts, err>>

Next == NotFound \/ External \/ ReadFails \/ ResolveRef \/ Return

Spec == Init /\ [][Next]_vars

-----------------------------------------------------------------------------
(***************************************************************************)
(* Loop invariant of secretSpecsFromCompose: the specs and mounts built so *)
(* far pair up one to one with the references already handled, in order:   *)
(* spec k is named after reference k and carries the file's bytes when the *)
(* definition has a file and its inline content otherwise, and mount k     *)
(* binds that same name at the reference's target (or /run/secrets/<name>) *)
(* with the reference's uid, gid and mode.  On return every reference has *)
(* its pair; on failure nothing is returned.                               *)
(***************************************************************************)
OutputMatchesRefs ==
    /\ Len(secretMounts) = Len(secretSpecs)
    /\ status = "running" => Len(secretSpecs) = i - 1
    /\ status = "ok" => Len(secretSpecs) = Len(serviceSecrets)
    /\ status = "failed" => secretSpecs = <<>> /\ secretMounts = <<>>
    /\ \A k \in 1..Len(secretSpecs) :
         LET ref == serviceSecrets[k]
             def == secrets[ref.source]
         IN  /\ def # NoDef
             /\ secretSpecs[k].Name = ref.source
             /\ secretSpecs[k].Content =
                  IF def.file = Empty THEN def.content ELSE fs[ResolvePath(def.file)]
             /\ secretMounts[k].SecretName = secretSpecs[k].Name
             /\ secretMounts[k].ContainerPath =
                  IF ref.target = Empty THEN DefaultPath(ref.source) ELSE ref.target
             /\ secretMounts[k].Uid = ref.uid
             /\ secretMounts[k].Gid = ref.gid
             /\ secretMounts[k].Mode = ref.mode

(***************************************************************************)
(* The resolver implements the atomic contract of spec section 4.2: seen   *)
(* only at its return, the loop gives the all-or-nothing result, and when  *)
(* it fails the error is the one of the FIRST failing reference, checked  *)
(* in the order lookup, external, file read.                               *)
(***************************************************************************)
Abstract == INSTANCE SecretResolveAbstract WITH
    secretSpecs <- IF status = "running" THEN <<>> ELSE secretSpecs,
    secretMounts <- IF status = "running" THEN <<>> ELSE secretMounts

ResolveRefines == Abstract!ASpec

(***************************************************************************)
(* Spec section 3: Secret Spec names are unique within one resolution      *)
(* pass.  secretSpecsFromCompose appends one spec per reference (section   *)
(* 4.2 step 5 allows it), so a service that mounts one secret at two       *)
(* targets returns two specs of that name, which ValidateSecretsAndMounts  *)
(* then rejects as a duplicate.                                            *)
(***************************************************************************)
SpecNamesUnique ==
    status = "ok" =>
        \A k, l \in 1..Len(secretSpecs) :
            k # l => secretSpecs[k].Name # secretSpecs[l].Name
=============================================================================
