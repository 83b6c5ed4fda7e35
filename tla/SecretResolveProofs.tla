------------------------ MODULE SecretResolveProofs ------------------------
(***************************************************************************)
(* Proofs about the secret resolver loop, for every value of the           *)
(* constants: the loop keeps its types, and OutputMatchesRefs is an        *)
(* invariant: what it has built pairs up with the references it has       *)
(* handled.  Last, the loop refines the atomic contract of               *)
(* SecretResolveAbstract (ResolveRefinesContract).                         *)
(***************************************************************************)
EXTENDS SecretResolve, TLAPS

USE SecretTypesAssumption, MaxRefsAssumption

(* Facts about the reference and definition the loop is at.              *)
LEMMA RefFacts ==
    ASSUME TypeOK, Looping
    PROVE  /\ i \in 1..Len(serviceSecrets)
           /\ Ref \in ServiceSecret
           /\ Def \in SecretDef \cup {NoDef}
<1>1. i \in 1..Len(serviceSecrets)
  BY DEF TypeOK, Looping
<1>2. Ref \in ServiceSecret
  BY <1>1 DEF TypeOK, Ref
<1>3. Ref.source \in SecretNames
  BY <1>2 DEF ServiceSecret
<1>. QED  BY <1>1, <1>2, <1>3 DEF TypeOK, Def

(* The spec and mount one successful iteration appends are well typed.    *)
LEMMA NewEntryTypes ==
    ASSUME TypeOK, Looping, Def # NoDef,
           Def.file # Empty => FileContent(Def) # ReadError
    PROVE  /\ [Name |-> Ref.source, Content |-> SpecContent(Def)] \in SecretSpec
           /\ MountFor(Ref) \in SecretMount
<1>1. Ref \in ServiceSecret /\ Def \in SecretDef
  BY RefFacts
<1>2. SpecContent(Def) \in Contents
  <2>1. CASE Def.file = Empty
    BY <1>1, <2>1 DEF SpecContent, SecretDef
  <2>2. CASE Def.file # Empty
    <3>1. ResolvePath(Def.file) \in FilePaths
      BY <1>1, <2>2 DEF SecretDef, FilePaths
    <3>2. FileContent(Def) \in Contents \cup {ReadError}
      BY <3>1 DEF TypeOK, FileContent
    <3>. QED  BY <2>2, <3>2 DEF SpecContent
  <2>. QED  BY <2>1, <2>2
<1>3. MountTarget(Ref) \in Targets \cup DefaultPaths \cup {Empty}
  BY <1>1 DEF MountTarget, ServiceSecret, DefaultPaths
<1>. QED  BY <1>1, <1>2, <1>3 DEF SecretSpec, SecretMount, MountFor, ServiceSecret

(* The inductive invariant: the type invariant and the loop invariant.    *)
IInv == TypeOK /\ OutputMatchesRefs

LEMMA InitIInv == Init => IInv
<1>. SUFFICES ASSUME Init PROVE IInv
  OBVIOUS
<1>1. serviceSecrets \in Seq(ServiceSecret)
  BY DEF Init, RefSeqs
<1>2. TypeOK
  BY <1>1 DEF Init, TypeOK
<1>3. OutputMatchesRefs
  BY DEF Init, OutputMatchesRefs
<1>. QED  BY <1>2, <1>3 DEF IInv

(* Every failing iteration returns nothing.                               *)
LEMMA FailIInv ==
    ASSUME IInv, Looping, NEW e \in Errors, Fail(e)
    PROVE  IInv'
<1>1. TypeOK'
  BY DEF IInv, TypeOK, Looping, Fail, inputs
<1>2. OutputMatchesRefs'
  BY DEF IInv, Fail, OutputMatchesRefs, inputs
<1>. QED  BY <1>1, <1>2 DEF IInv

LEMMA ResolveRefIInv == IInv /\ ResolveRef => IInv'
<1>. SUFFICES ASSUME IInv, ResolveRef PROVE IInv'
  OBVIOUS
<1>. USE DEF IInv
<1>1. /\ i \in 1..Len(serviceSecrets)
      /\ Ref \in ServiceSecret
      /\ Def \in SecretDef
  BY RefFacts DEF ResolveRef
<1>2. /\ [Name |-> Ref.source, Content |-> SpecContent(Def)] \in SecretSpec
      /\ MountFor(Ref) \in SecretMount
  BY NewEntryTypes DEF ResolveRef
<1>3. TypeOK'
  BY <1>1, <1>2 DEF TypeOK, ResolveRef, inputs
<1>4. Len(secretSpecs) = i - 1 /\ Len(secretMounts) = i - 1
  BY DEF ResolveRef, Looping, OutputMatchesRefs
<1>5. /\ Len(secretSpecs') = i /\ Len(secretMounts') = i
      /\ \A k \in 1..(i - 1) : secretSpecs'[k] = secretSpecs[k]
                               /\ secretMounts'[k] = secretMounts[k]
      /\ secretSpecs'[i] = [Name |-> Ref.source, Content |-> SpecContent(Def)]
      /\ secretMounts'[i] = MountFor(Ref)
  BY <1>1, <1>4 DEF ResolveRef, TypeOK
<1>6. ASSUME NEW k \in 1..Len(secretSpecs')
      PROVE  LET ref == serviceSecrets'[k]
                 def == secrets'[ref.source]
             IN  /\ def # NoDef
                 /\ secretSpecs'[k].Name = ref.source
                 /\ secretSpecs'[k].Content =
                      IF def.file = Empty THEN def.content ELSE fs'[ResolvePath(def.file)]
                 /\ secretMounts'[k].SecretName = secretSpecs'[k].Name
                 /\ secretMounts'[k].ContainerPath =
                      IF ref.target = Empty THEN DefaultPath(ref.source) ELSE ref.target
                 /\ secretMounts'[k].Uid = ref.uid
                 /\ secretMounts'[k].Gid = ref.gid
                 /\ secretMounts'[k].Mode = ref.mode
  <2>1. CASE k = i
    <3>1. serviceSecrets'[k] = Ref /\ secrets' = secrets /\ fs' = fs
      BY <2>1 DEF ResolveRef, inputs, Ref
    <3>2. Def # NoDef
      BY <1>1 DEF ResolveRef
    <3>3. secretSpecs'[k] = [Name |-> Ref.source, Content |-> SpecContent(Def)]
          /\ secretMounts'[k] = MountFor(Ref)
      BY <1>5, <2>1
    <3>. QED  BY <3>1, <3>2, <3>3 DEF Def, SpecContent, FileContent, MountFor, MountTarget
  <2>2. CASE k # i
    <3>1. k \in 1..Len(secretSpecs)
      BY <1>4, <1>5, <2>2 DEF TypeOK
    <3>2. secretSpecs'[k] = secretSpecs[k] /\ secretMounts'[k] = secretMounts[k]
      BY <1>4, <1>5, <3>1
    <3>3. serviceSecrets' = serviceSecrets /\ secrets' = secrets /\ fs' = fs
      BY DEF ResolveRef, inputs
    <3>. QED  BY <3>1, <3>2, <3>3 DEF OutputMatchesRefs
  <2>. QED  BY <2>1, <2>2
<1>7. OutputMatchesRefs'
  BY <1>5, <1>6 DEF OutputMatchesRefs, ResolveRef, Looping, inputs
<1>. QED  BY <1>3, <1>7

LEMMA ReturnIInv == IInv /\ Return => IInv'
<1>. SUFFICES ASSUME IInv, Return PROVE IInv'
  OBVIOUS
<1>1. i = Len(serviceSecrets) + 1
  BY DEF IInv, TypeOK, Return
<1>2. TypeOK'
  BY DEF IInv, TypeOK, Return, inputs
<1>3. OutputMatchesRefs'
  BY <1>1 DEF IInv, OutputMatchesRefs, Return, inputs
<1>. QED  BY <1>2, <1>3 DEF IInv

LEMMA NextIInv == IInv /\ [Next]_vars => IInv'
<1>. SUFFICES ASSUME IInv, [Next]_vars PROVE IInv'
  OBVIOUS
<1>1. CASE NotFound
  BY <1>1, FailIInv DEF NotFound, Errors
<1>2. CASE External
  BY <1>2, FailIInv DEF External, Errors
<1>3. CASE ReadFails
  BY <1>3, FailIInv DEF ReadFails, Errors
<1>4. CASE ResolveRef
  BY <1>4, ResolveRefIInv
<1>5. CASE Return
  BY <1>5, ReturnIInv
<1>6. CASE UNCHANGED vars
  BY <1>6 DEF vars, IInv, TypeOK, OutputMatchesRefs
<1>. QED  BY <1>1, <1>2, <1>3, <1>4, <1>5, <1>6 DEF Next

(***************************************************************************)
(* The resolver's state always has its types.                             *)
(***************************************************************************)
THEOREM TypeCorrect == Spec => []TypeOK
<1>1. IInv => TypeOK
  BY DEF IInv
<1>. QED  BY InitIInv, NextIInv, <1>1, PTL DEF Spec

(***************************************************************************)
(* secretSpecsFromCompose returns one spec and one mount per reference, in *)
(* order, named after the reference, with the file's bytes overriding the  *)
(* inline content and /run/secrets/<name> as the default target, and      *)
(* nothing when it fails.                                                  *)
(***************************************************************************)
THEOREM OutputMatchesRefsInvariant == Spec => []OutputMatchesRefs
<1>1. IInv => OutputMatchesRefs
  BY DEF IInv
<1>. QED  BY InitIInv, NextIInv, <1>1, PTL DEF Spec

-----------------------------------------------------------------------------
(***************************************************************************)
(* The refinement ResolveRefines.  While the loop runs, the abstract       *)
(* result is empty, so every iteration that appends is a stutter of the   *)
(* abstract spec; the failing iterations and the return are its one step.  *)
(* For that step to be the abstract one, every reference the loop has     *)
(* passed must be one the contract does not fail on.                      *)
(***************************************************************************)
PassedRefsOk ==
    status = "running" =>
        /\ err = "none"
        /\ \A k \in 1..(i - 1) : Abstract!RefError(serviceSecrets[k]) = "none"

RInv == IInv /\ PassedRefsOk

LEMMA InitRInv == Init => RInv
BY InitIInv DEF Init, RInv, PassedRefsOk

(* The error the contract gives the reference the loop is at, by the      *)
(* branch the loop takes.                                                  *)
LEMMA RefErrorAtLoop ==
    ASSUME TypeOK, Looping
    PROVE  /\ Def = NoDef => Abstract!RefError(Ref) = "not_found"
           /\ Def # NoDef /\ Def.external => Abstract!RefError(Ref) = "external"
           /\ Def # NoDef /\ ~Def.external /\ Def.file # Empty
                /\ FileContent(Def) = ReadError => Abstract!RefError(Ref) = "read"
           /\ Def # NoDef /\ ~Def.external
                /\ (Def.file # Empty => FileContent(Def) # ReadError)
                => Abstract!RefError(Ref) = "none"
BY DEF Abstract!RefError, Abstract!ResolvePath, ResolvePath, Def, Ref, FileContent

LEMMA NextRInv == RInv /\ [Next]_vars => RInv'
<1>. SUFFICES ASSUME RInv, [Next]_vars PROVE RInv'
  OBVIOUS
<1>1. IInv'
  BY NextIInv DEF RInv
<1>2. CASE NotFound \/ External \/ ReadFails
  BY <1>1, <1>2 DEF NotFound, External, ReadFails, Fail, RInv, PassedRefsOk
<1>3. CASE ResolveRef
  <2>1. i \in 1..Len(serviceSecrets)
    BY <1>3, RefFacts DEF ResolveRef, RInv, IInv
  <2>2. Abstract!RefError(serviceSecrets[i]) = "none"
    BY <1>3, RefErrorAtLoop DEF ResolveRef, RInv, IInv, Ref
  <2>3. \A k \in 1..i : Abstract!RefError(serviceSecrets[k]) = "none"
    BY <1>3, <2>1, <2>2 DEF ResolveRef, Looping, RInv, PassedRefsOk
  <2>4. \A k \in 1..(i' - 1) : Abstract!RefError(serviceSecrets[k])' = "none"
    BY <1>3, <2>1, <2>3 DEF ResolveRef, inputs, Abstract!RefError
  <2>. QED  BY <1>1, <1>3, <2>4 DEF ResolveRef, Looping, RInv, PassedRefsOk
<1>4. CASE Return
  BY <1>1, <1>4 DEF Return, RInv, PassedRefsOk
<1>5. CASE UNCHANGED vars
  BY <1>1, <1>5 DEF vars, RInv, PassedRefsOk, Abstract!RefError
<1>. QED  BY <1>2, <1>3, <1>4, <1>5 DEF Next

(* A reference that fails after only passing ones is the first failing.   *)
LEMMA FirstFailingIs ==
    ASSUME TypeOK, NEW n \in 1..Len(serviceSecrets),
           Abstract!RefError(serviceSecrets[n]) # "none",
           \A k \in 1..(n - 1) : Abstract!RefError(serviceSecrets[k]) = "none"
    PROVE  /\ n \in Abstract!FailingRefs
           /\ Abstract!FirstFailing = n
<1>1. n \in Abstract!FailingRefs
  BY DEF Abstract!FailingRefs
<1>2. \A l \in Abstract!FailingRefs : n <= l
  BY DEF Abstract!FailingRefs, TypeOK
<1>3. /\ Abstract!FirstFailing \in Abstract!FailingRefs
      /\ \A l \in Abstract!FailingRefs : Abstract!FirstFailing <= l
  BY <1>1, <1>2 DEF Abstract!FirstFailing
<1>4. Abstract!FailingRefs \subseteq Nat
  BY DEF Abstract!FailingRefs, TypeOK
<1>. QED  BY <1>1, <1>2, <1>3, <1>4

(* An iteration that fails is the contract's FailFirst step.              *)
LEMMA FailRefines ==
    ASSUME RInv, Looping, NEW e, Fail(e), Abstract!RefError(Ref) = e, e # "none"
    PROVE  Abstract!Resolve
<1>1. i \in 1..Len(serviceSecrets) /\ TypeOK
  BY RefFacts DEF RInv, IInv
<1>2. \A k \in 1..(i - 1) : Abstract!RefError(serviceSecrets[k]) = "none"
  BY DEF Looping, RInv, PassedRefsOk
<1>3. i \in Abstract!FailingRefs /\ Abstract!FirstFailing = i
  BY <1>1, <1>2, FirstFailingIs DEF Ref
<1>4. Abstract!FailFirst
  BY <1>3 DEF Abstract!FailFirst, Fail, Ref
<1>. QED  BY <1>4 DEF Abstract!Resolve, Fail, Looping, inputs

(* The return is the contract's Succeed step.                             *)
LEMMA ReturnRefines ==
    ASSUME RInv, Return
    PROVE  Abstract!Resolve
<1>. USE DEF RInv, IInv
<1>1. i = Len(serviceSecrets) + 1 /\ err = "none"
  BY DEF Return, TypeOK, PassedRefsOk
<1>2. Abstract!FailingRefs = {}
  BY <1>1 DEF Return, PassedRefsOk, Abstract!FailingRefs
<1>3. Len(secretSpecs) = Len(serviceSecrets) /\ Len(secretMounts) = Len(serviceSecrets)
  BY <1>1 DEF Return, OutputMatchesRefs
<1>4. ASSUME NEW k \in 1..Len(serviceSecrets)
      PROVE  /\ secretSpecs[k] = Abstract!ResolvedSpec(serviceSecrets[k])
             /\ secretMounts[k] = Abstract!ResolvedMount(serviceSecrets[k])
  <2>1. secretSpecs[k] \in SecretSpec /\ secretMounts[k] \in SecretMount
    BY <1>3 DEF TypeOK
  <2>2. LET ref == serviceSecrets[k]
            def == secrets[ref.source]
        IN  /\ secretSpecs[k].Name = ref.source
            /\ secretSpecs[k].Content =
                 IF def.file = Empty THEN def.content ELSE fs[ResolvePath(def.file)]
            /\ secretMounts[k].SecretName = ref.source
            /\ secretMounts[k].ContainerPath =
                 IF ref.target = Empty THEN DefaultPath(ref.source) ELSE ref.target
            /\ secretMounts[k].Uid = ref.uid
            /\ secretMounts[k].Gid = ref.gid
            /\ secretMounts[k].Mode = ref.mode
    BY <1>3 DEF OutputMatchesRefs
  <2>3. secretSpecs[k] = Abstract!ResolvedSpec(serviceSecrets[k])
    BY <2>1, <2>2 DEF SecretSpec, Abstract!ResolvedSpec, Abstract!ResolvePath, ResolvePath
  <2>4. secretMounts[k] = Abstract!ResolvedMount(serviceSecrets[k])
    BY <2>1, <2>2 DEF SecretMount, Abstract!ResolvedMount, Abstract!DefaultPath, DefaultPath
  <2>. QED  BY <2>3, <2>4
<1>5. /\ secretSpecs = [k \in 1..Len(serviceSecrets) |-> Abstract!ResolvedSpec(serviceSecrets[k])]
      /\ secretMounts = [k \in 1..Len(serviceSecrets) |-> Abstract!ResolvedMount(serviceSecrets[k])]
  BY <1>3, <1>4 DEF TypeOK
<1>6. Abstract!Succeed
  BY <1>1, <1>2, <1>5 DEF Abstract!Succeed, Return
<1>. QED  BY <1>6 DEF Abstract!Resolve, Return, inputs

(* Every step of the loop is a step of the contract or leaves its          *)
(* variables, under the mapping, as they are.                             *)
LEMMA StepRefines == RInv /\ [Next]_vars => [Abstract!Resolve]_Abstract!avars
<1>. SUFFICES ASSUME RInv, [Next]_vars PROVE [Abstract!Resolve]_Abstract!avars
  OBVIOUS
<1>0. TypeOK
  BY DEF RInv, IInv
<1>1. CASE NotFound
  BY <1>0, <1>1, FailRefines, RefErrorAtLoop DEF NotFound
<1>2. CASE External
  BY <1>0, <1>2, FailRefines, RefErrorAtLoop DEF External
<1>3. CASE ReadFails
  BY <1>0, <1>3, FailRefines, RefErrorAtLoop DEF ReadFails
<1>4. CASE ResolveRef
  <2>1. status = "running" /\ status' = "running"
    BY <1>4 DEF ResolveRef, Looping
  <2>. QED  BY <1>4, <2>1 DEF ResolveRef, inputs, Abstract!avars
<1>5. CASE Return
  BY <1>5, ReturnRefines
<1>6. CASE UNCHANGED vars
  BY <1>6 DEF vars, Abstract!avars
<1>. QED  BY <1>1, <1>2, <1>3, <1>4, <1>5, <1>6 DEF Next

(***************************************************************************)
(* secretSpecsFromCompose implements the all-or-nothing contract of spec  *)
(* section 4.2: seen at its return, the loop either resolves every         *)
(* reference, in order, or fails with the error of the FIRST failing      *)
(* reference (lookup before external before the file read) and returns    *)
(* nothing.                                                                *)
(***************************************************************************)
THEOREM ResolveRefinesContract == Spec => ResolveRefines
<1>1. Init => Abstract!AInit
  <2>. SUFFICES ASSUME Init PROVE Abstract!AInit
    OBVIOUS
  <2>1. serviceSecrets \in Seq(ServiceSecret)
    BY DEF Init, RefSeqs
  <2>. QED  BY <2>1 DEF Init, Abstract!AInit, Abstract!ServiceSecret, ServiceSecret,
                      Abstract!SecretDef, SecretDef, Abstract!FilePaths, FilePaths,
                      Abstract!ResolvePath, ResolvePath
<1>2. Spec => []RInv
  BY InitRInv, NextRInv, PTL DEF Spec
<1>. QED  BY <1>1, <1>2, StepRefines, PTL DEF Spec, ResolveRefines, Abstract!ASpec
=============================================================================
