--------------------------- MODULE SecretValidate ---------------------------
(***************************************************************************)
(* ValidateSecretsAndMounts (pkg/api/secret.go): one loop over the secret  *)
(* specs that validates each and collects its name, then one loop over the *)
(* mounts that validates each (SecretMount.Validate, which parses uid and  *)
(* gid with GetNumericUid / GetNumericGid) and checks that it names a      *)
(* collected secret.  The first failure ends the call.                     *)
(*                                                                         *)
(* uid and gid strings are sequences of one-character strings, and         *)
(* strconv.ParseUint and the int(...) conversion are modelled by what they *)
(* do on them.  Go's widths (ParseUint to 64 bits; int of 64 or 32 bits    *)
(* depending on the build) are scaled down to ParseBits and IntBits so     *)
(* that TLC can enumerate every value around the boundaries.               *)
(***************************************************************************)
EXTENDS SecretTypes

CONSTANTS
    ParseBits,  \* bitSize passed to strconv.ParseUint (64 in the code)
    IntBits,    \* width of Go's int in the build: ParseBits or half of it
    MaxSpecs,   \* longest list of specs a run enumerates
    MaxMounts   \* longest list of mounts a run enumerates

ASSUME ValidateAssumption ==
    /\ ParseBits \in Nat \ {0, 1}
    /\ IntBits \in {ParseBits, ParseBits \div 2}
    /\ MaxSpecs \in Nat /\ MaxMounts \in Nat

VARIABLES
    specsIn,    \* the secrets argument
    mountsIn,   \* the mounts argument
    phase,      \* "secrets", "mounts" (the two loops), "done" (returned)
    j,          \* index in the loop of the current phase
    secretMap,  \* names of the secrets validated so far
    verdict     \* [kind, at]: "pending", "ok" (at 0), or the error at entry at

vvars == <<specsIn, mountsIn, phase, j, secretMap, verdict>>

ErrorKinds == {"invalid_secret", "duplicate", "invalid_mount", "dangling"}

-----------------------------------------------------------------------------
(* strconv.ParseUint(s, 10, ParseBits) and int(...), on digit sequences.  *)
DigitChars == <<"0", "1", "2", "3", "4", "5", "6", "7", "8", "9">>

Digits == {DigitChars[k] : k \in 1..10}

DigitValue(c) == (CHOOSE k \in 1..10 : DigitChars[k] = c) - 1

(* The number a non-empty string of digits denotes.                       *)
DecimalValue(s) ==
    LET v[k \in 0..Len(s)] == IF k = 0 THEN 0 ELSE 10 * v[k - 1] + DigitValue(s[k])
    IN  v[Len(s)]

(* ParseUint fails on "", on any non-digit (no sign, no underscores with  *)
(* base 10) and when the value does not fit in bitSize bits.               *)
ParseUintOk(s) ==
    /\ Len(s) > 0
    /\ \A k \in 1..Len(s) : s[k] \in Digits
    /\ DecimalValue(s) < 2^ParseBits

(* int(x): the low IntBits bits of x read in two's complement.            *)
ToInt(x) == LET r == x % 2^IntBits
            IN  IF r >= 2^(IntBits - 1) THEN r - 2^IntBits ELSE r

(* Mutant: the int(...) sign check is left out.                           *)
NumericIdOkUnchecked(id) == IF id = Empty THEN TRUE ELSE ParseUintOk(id)

(* GetNumericUid / GetNumericGid succeed: unset, or parses and int(...)   *)
(* of the value is not negative.                                           *)
NumericIdOk(id) ==
    IF id = Empty THEN TRUE
    ELSE /\ ParseUintOk(id)
         /\ ToInt(DecimalValue(id)) >= 0

(* SecretMount.Validate                                                    *)
MountValid(m) ==
    /\ m.SecretName # Empty
    /\ NumericIdOk(m.Uid)
    /\ NumericIdOk(m.Gid)
    /\ m.ContainerPath # Empty => IsAbs(m.ContainerPath)

-----------------------------------------------------------------------------
SpecSeqs == UNION {[1..n -> SecretSpec] : n \in 0..MaxSpecs}
MountSeqs == UNION {[1..n -> SecretMount] : n \in 0..MaxMounts}

VTypeOK ==
    /\ specsIn \in Seq(SecretSpec)
    /\ mountsIn \in Seq(SecretMount)
    /\ phase \in {"secrets", "mounts", "done"}
    /\ j \in Nat \ {0}
    /\ phase = "secrets" => j <= Len(specsIn) + 1
    /\ phase = "mounts" => j <= Len(mountsIn) + 1
    /\ secretMap \subseteq SecretNames
    /\ verdict \in [kind : {"pending", "ok"} \cup ErrorKinds, at : Nat]

(* The loops' state at the call; the arguments are set by the caller.     *)
VLoopInit ==
    /\ phase = "secrets"
    /\ j = 1
    /\ secretMap = {}
    /\ verdict = [kind |-> "pending", at |-> 0]

VInit ==
    /\ specsIn \in SpecSeqs
    /\ mountsIn \in MountSeqs
    /\ VLoopInit

(* return fmt.Errorf(...) for the entry at j.                              *)
Stop(kind) ==
    /\ phase' = "done"
    /\ verdict' = [kind |-> kind, at |-> j]
    /\ UNCHANGED <<specsIn, mountsIn, j, secretMap>>

InSecrets == phase = "secrets" /\ j <= Len(specsIn)
InMounts == phase = "mounts" /\ j <= Len(mountsIn)

(* secret.Validate() fails: the name is empty.                             *)
SecretInvalid ==
    /\ InSecrets
    /\ specsIn[j].Name = Empty
    /\ Stop("invalid_secret")

(* The name is already in secretMap.                                       *)
SecretDuplicate ==
    /\ InSecrets
    /\ specsIn[j].Name # Empty
    /\ specsIn[j].Name \in secretMap
    /\ Stop("duplicate")

(* Mutant: a name already in secretMap is accepted again.                  *)
SecretAcceptNoDupCheck ==
    /\ InSecrets
    /\ specsIn[j].Name # Empty
    /\ secretMap' = secretMap \cup {specsIn[j].Name}
    /\ j' = j + 1
    /\ UNCHANGED <<specsIn, mountsIn, phase, verdict>>

SecretAccept ==
    /\ InSecrets
    /\ specsIn[j].Name # Empty
    /\ specsIn[j].Name \notin secretMap
    /\ secretMap' = secretMap \cup {specsIn[j].Name}
    /\ j' = j + 1
    /\ UNCHANGED <<specsIn, mountsIn, phase, verdict>>

SecretsDone ==
    /\ phase = "secrets"
    /\ j > Len(specsIn)
    /\ phase' = "mounts"
    /\ j' = 1
    /\ UNCHANGED <<specsIn, mountsIn, secretMap, verdict>>

(* mount.Validate() fails.                                                 *)
MountInvalid ==
    /\ InMounts
    /\ ~MountValid(mountsIn[j])
    /\ Stop("invalid_mount")

(* The mount names no validated secret.                                    *)
MountDangling ==
    /\ InMounts
    /\ MountValid(mountsIn[j])
    /\ mountsIn[j].SecretName \notin secretMap
    /\ Stop("dangling")

MountAccept ==
    /\ InMounts
    /\ MountValid(mountsIn[j])
    /\ mountsIn[j].SecretName \in secretMap
    /\ j' = j + 1
    /\ UNCHANGED <<specsIn, mountsIn, phase, secretMap, verdict>>

MountsDone ==
    /\ phase = "mounts"
    /\ j > Len(mountsIn)
    /\ phase' = "done"
    /\ verdict' = [kind |-> "ok", at |-> 0]
    /\ UNCHANGED <<specsIn, mountsIn, j, secretMap>>

VNext ==
    \/ SecretInvalid \/ SecretDuplicate \/ SecretAccept \/ SecretsDone
    \/ MountInvalid \/ MountDangling \/ MountAccept \/ MountsDone

VSpec == VInit /\ [][VNext]_vvars

-----------------------------------------------------------------------------
(***************************************************************************)
(* The contract of section 4.3, stated from the spec and not from the      *)
(* loops: the call fails on the first secret whose name is empty or        *)
(* repeats an earlier one; otherwise on the first mount that has an empty  *)
(* name, a relative path, or a uid or gid that is not a non-negative       *)
(* 64-bit integer (here: a ParseBits-bit signed integer), or that names no *)
(* secret; otherwise it succeeds.  A uid is checked by its decimal value,  *)
(* whatever the width of int in the build.                                 *)
(***************************************************************************)
IdIsNonNegativeInt(id) ==
    IF id = Empty THEN TRUE
    ELSE /\ Len(id) > 0
         /\ \A k \in 1..Len(id) : id[k] \in Digits
         /\ DecimalValue(id) < 2^(ParseBits - 1)

MountWellFormed(m) ==
    /\ m.SecretName # Empty
    /\ m.ContainerPath \in AbsTargets \cup DefaultPaths \cup {Empty}
    /\ IdIsNonNegativeInt(m.Uid)
    /\ IdIsNonNegativeInt(m.Gid)

BadSecrets == {k \in 1..Len(specsIn) :
                 \/ specsIn[k].Name = Empty
                 \/ \E l \in 1..(k - 1) : specsIn[l].Name = specsIn[k].Name}

BadMounts == {k \in 1..Len(mountsIn) :
                \/ ~MountWellFormed(mountsIn[k])
                \/ \A l \in 1..Len(specsIn) : specsIn[l].Name # mountsIn[k].SecretName}

Least(S) == CHOOSE k \in S : \A l \in S : k <= l

ExpectedVerdict ==
    IF BadSecrets # {}
    THEN LET k == Least(BadSecrets) IN
         [kind |-> IF specsIn[k].Name = Empty THEN "invalid_secret" ELSE "duplicate",
          at |-> k]
    ELSE IF BadMounts # {}
    THEN LET k == Least(BadMounts) IN
         [kind |-> IF MountWellFormed(mountsIn[k]) THEN "dangling" ELSE "invalid_mount",
          at |-> k]
    ELSE [kind |-> "ok", at |-> 0]

ValidateVerdictCorrect == phase = "done" => verdict = ExpectedVerdict
=============================================================================
