------------------------ MODULE SecretValidateProofs ------------------------
(***************************************************************************)
(* Proofs about ValidateSecretsAndMounts for every value of the constants: *)
(* the two loops keep their types and their index within the list they    *)
(* walk, and the verdict they return is that of the first bad secret, else *)
(* of the first bad mount, else nil.                                       *)
(***************************************************************************)
EXTENDS SecretValidate, FiniteSetTheorems, WellFoundedInduction, TLAPS

USE SecretTypesAssumption, ValidateAssumption

LEMMA VInitTypeOK == VInit => VTypeOK
<1>. SUFFICES ASSUME VInit PROVE VTypeOK
  OBVIOUS
<1>1. specsIn \in Seq(SecretSpec) /\ mountsIn \in Seq(SecretMount)
  BY DEF VInit, SpecSeqs, MountSeqs
<1>. QED  BY <1>1 DEF VInit, VLoopInit, VTypeOK

(* Every error return leaves the loops' state as it is and ends the call. *)
LEMMA StopTypeOK ==
    ASSUME VTypeOK, NEW kind \in ErrorKinds, Stop(kind)
    PROVE  VTypeOK'
BY DEF VTypeOK, Stop

LEMMA VNextTypeOK == VTypeOK /\ [VNext]_vvars => VTypeOK'
<1>. SUFFICES ASSUME VTypeOK, [VNext]_vvars PROVE VTypeOK'
  OBVIOUS
<1>1. CASE SecretInvalid
  BY <1>1, StopTypeOK DEF SecretInvalid, ErrorKinds
<1>2. CASE SecretDuplicate
  BY <1>2, StopTypeOK DEF SecretDuplicate, ErrorKinds
<1>3. CASE SecretAccept
  <2>1. j \in 1..Len(specsIn)
    BY <1>3 DEF SecretAccept, InSecrets, VTypeOK
  <2>2. specsIn[j] \in SecretSpec
    BY <2>1 DEF VTypeOK
  <2>3. specsIn[j].Name \in SecretNames \cup {Empty}
    BY <2>2 DEF SecretSpec
  <2>4. specsIn[j].Name \in SecretNames
    BY <1>3, <2>3 DEF SecretAccept
  <2>. QED  BY <1>3, <2>1, <2>4 DEF SecretAccept, InSecrets, VTypeOK
<1>4. CASE SecretsDone
  BY <1>4 DEF SecretsDone, VTypeOK
<1>5. CASE MountInvalid
  BY <1>5, StopTypeOK DEF MountInvalid, ErrorKinds
<1>6. CASE MountDangling
  BY <1>6, StopTypeOK DEF MountDangling, ErrorKinds
<1>7. CASE MountAccept
  BY <1>7 DEF MountAccept, InMounts, VTypeOK
<1>8. CASE MountsDone
  BY <1>8 DEF MountsDone, VTypeOK
<1>9. CASE UNCHANGED vvars
  BY <1>9 DEF vvars, VTypeOK
<1>. QED  BY <1>1, <1>2, <1>3, <1>4, <1>5, <1>6, <1>7, <1>8, <1>9 DEF VNext

(***************************************************************************)
(* ValidateSecretsAndMounts keeps its types: the map holds only non-empty *)
(* secret names, and each loop's index stays within 1..Len+1 of the list   *)
(* it walks, the mount loop starting again at 1.                           *)
(***************************************************************************)
THEOREM VTypeCorrect == VSpec => []VTypeOK
BY VInitTypeOK, VNextTypeOK, PTL DEF VSpec

-----------------------------------------------------------------------------
(***************************************************************************)
(* The loops' verdict.  ExpectedVerdict judges a mount by the spec's       *)
(* MountWellFormed; the loops judge it by SecretMount.Validate.  The two   *)
(* agree on a 64-bit build only through what ParseUint computes on a digit *)
(* string, which the validate runs check.  The loops themselves find the   *)
(* first bad secret, else the first bad mount, whatever the constants.     *)
(***************************************************************************)
Names(n) == {specsIn[l].Name : l \in 1..n}

BadMountsV == {k \in 1..Len(mountsIn) :
                 \/ ~MountValid(mountsIn[k])
                 \/ mountsIn[k].SecretName \notin Names(Len(specsIn))}

LoopVerdict ==
    IF BadSecrets # {}
    THEN LET k == Least(BadSecrets) IN
         [kind |-> IF specsIn[k].Name = Empty THEN "invalid_secret" ELSE "duplicate",
          at |-> k]
    ELSE IF BadMountsV # {}
    THEN LET k == Least(BadMountsV) IN
         [kind |-> IF MountValid(mountsIn[k]) THEN "dangling" ELSE "invalid_mount",
          at |-> k]
    ELSE [kind |-> "ok", at |-> 0]

(* ValidateSecretsAndMounts returns the first failure of its two loops.    *)
ValidateLoopCorrect == phase = "done" => verdict = LoopVerdict

(* What each loop has established about the entries before j.              *)
VCtl ==
    /\ phase = "secrets" =>
         /\ secretMap = Names(j - 1)
         /\ \A l \in 1..(j - 1) : l \notin BadSecrets
         /\ verdict.kind = "pending"
    /\ phase = "mounts" =>
         /\ BadSecrets = {}
         /\ secretMap = Names(Len(specsIn))
         /\ \A l \in 1..(j - 1) : l \notin BadMountsV
         /\ verdict.kind = "pending"
    /\ phase = "done" => verdict = LoopVerdict

VInv == VTypeOK /\ VCtl

(* The least element of a set of numbers that has one.                     *)
LEMMA LeastIs ==
    ASSUME NEW S \in SUBSET Nat, NEW k \in S, \A l \in S : k <= l
    PROVE  Least(S) = k
<1>1. \E x \in S : \A l \in S : x <= l
  OBVIOUS
<1>2. Least(S) \in S /\ \A l \in S : Least(S) <= l
  BY <1>1 DEF Least
<1>3. Least(S) \in Nat /\ Least(S) <= k /\ k <= Least(S)
  BY <1>2
<1>. QED  BY <1>3

(* The loops' verdict is a function of the arguments alone.                *)
LEMMA LoopVerdictStable ==
    ASSUME specsIn' = specsIn, mountsIn' = mountsIn
    PROVE  LoopVerdict' = LoopVerdict
BY DEF LoopVerdict, BadSecrets, BadMountsV, Names, Least

LEMMA InitVInv == VInit => VInv
<1>. SUFFICES ASSUME VInit PROVE VInv
  OBVIOUS
<1>1. Names(0) = {}
  BY DEF Names
<1>. QED  BY <1>1, VInitTypeOK DEF VInit, VLoopInit, VInv, VCtl

(* The secret loop stops at the first bad secret.                          *)
LEMMA FirstBadSecret ==
    ASSUME VInv, InSecrets, j \in BadSecrets
    PROVE  Least(BadSecrets) = j
<1>0. Len(specsIn) \in Nat /\ j \in Nat \ {0}
  BY DEF VInv, VTypeOK
<1>1. BadSecrets \subseteq 1..Len(specsIn)
  BY DEF BadSecrets
<1>2. \A l \in 1..(j - 1) : l \notin BadSecrets
  BY DEF VInv, VCtl, InSecrets
<1>3. \A l \in BadSecrets : j <= l
  BY <1>0, <1>1, <1>2
<1>. QED  BY <1>0, <1>1, <1>3, LeastIs

(* The mount loop stops at the first bad mount.                            *)
LEMMA FirstBadMount ==
    ASSUME VInv, InMounts, j \in BadMountsV
    PROVE  Least(BadMountsV) = j
<1>0. Len(mountsIn) \in Nat /\ j \in Nat \ {0}
  BY DEF VInv, VTypeOK
<1>1. BadMountsV \subseteq 1..Len(mountsIn)
  BY DEF BadMountsV
<1>2. \A l \in 1..(j - 1) : l \notin BadMountsV
  BY DEF VInv, VCtl, InMounts
<1>3. \A l \in BadMountsV : j <= l
  BY <1>0, <1>1, <1>2
<1>. QED  BY <1>0, <1>1, <1>3, LeastIs

(* An error return sets the verdict the loops owe, and ends the call.      *)
LEMMA StopVInv ==
    ASSUME VInv, [VNext]_vvars, NEW kind, Stop(kind),
           verdict' = LoopVerdict
    PROVE  VInv'
<1>1. VTypeOK'
  BY VNextTypeOK DEF VInv
<1>2. LoopVerdict' = LoopVerdict
  BY LoopVerdictStable DEF Stop
<1>. QED  BY <1>1, <1>2 DEF Stop, VInv, VCtl

LEMMA SecretInvalidVInv ==
    ASSUME VInv, [VNext]_vvars, SecretInvalid
    PROVE  VInv'
<1>1. j \in BadSecrets
  BY DEF SecretInvalid, InSecrets, BadSecrets, VInv, VTypeOK
<1>2. Least(BadSecrets) = j
  BY <1>1, FirstBadSecret DEF SecretInvalid
<1>3. LoopVerdict = [kind |-> "invalid_secret", at |-> j]
  BY <1>1, <1>2 DEF LoopVerdict, SecretInvalid
<1>. QED  BY <1>3, StopVInv DEF SecretInvalid, Stop

LEMMA SecretDuplicateVInv ==
    ASSUME VInv, [VNext]_vvars, SecretDuplicate
    PROVE  VInv'
<1>1. PICK l \in 1..(j - 1) : specsIn[l].Name = specsIn[j].Name
  BY DEF SecretDuplicate, VInv, VCtl, InSecrets, Names
<1>2. j \in BadSecrets
  BY <1>1 DEF SecretDuplicate, InSecrets, BadSecrets, VInv, VTypeOK
<1>3. Least(BadSecrets) = j
  BY <1>2, FirstBadSecret DEF SecretDuplicate
<1>4. LoopVerdict = [kind |-> "duplicate", at |-> j]
  BY <1>2, <1>3 DEF LoopVerdict, SecretDuplicate
<1>. QED  BY <1>4, StopVInv DEF SecretDuplicate, Stop

LEMMA SecretAcceptVInv ==
    ASSUME VInv, [VNext]_vvars, SecretAccept
    PROVE  VInv'
<1>1. VTypeOK'
  BY VNextTypeOK DEF VInv
<1>2. j \in 1..Len(specsIn)
  BY DEF SecretAccept, InSecrets, VInv, VTypeOK
<1>3. secretMap' = Names(j)
  <2>1. secretMap = Names(j - 1)
    BY DEF SecretAccept, InSecrets, VInv, VCtl
  <2>2. secretMap' = secretMap \cup {specsIn[j].Name}
    BY DEF SecretAccept
  <2>3. ASSUME NEW x \in secretMap' PROVE x \in Names(j)
    BY <1>2, <2>1, <2>2 DEF Names
  <2>4. ASSUME NEW x \in Names(j) PROVE x \in secretMap'
    <3>1. PICK l \in 1..j : x = specsIn[l].Name
      BY DEF Names
    <3>. QED  BY <1>2, <2>1, <2>2, <3>1 DEF Names
  <2>. QED  BY <2>3, <2>4
<1>4. j \notin BadSecrets
  <2>1. \A l \in 1..(j - 1) : specsIn[l].Name # specsIn[j].Name
    BY DEF SecretAccept, InSecrets, VInv, VCtl, Names
  <2>. QED  BY <2>1 DEF SecretAccept, BadSecrets
<1>5. \A l \in 1..j : l \notin BadSecrets
  BY <1>2, <1>4 DEF SecretAccept, InSecrets, VInv, VCtl
<1>6. j' - 1 = j
  BY <1>2 DEF SecretAccept
<1>7. Names(j - 1)' = Names(j)
  BY <1>6 DEF SecretAccept, Names
<1>8. BadSecrets' = BadSecrets
  BY DEF SecretAccept, BadSecrets
<1>9. phase' = "secrets" /\ verdict' = verdict
  BY DEF SecretAccept, InSecrets
<1>10. verdict.kind = "pending"
  BY DEF SecretAccept, InSecrets, VInv, VCtl
<1>. QED  BY <1>1, <1>3, <1>5, <1>6, <1>7, <1>8, <1>9, <1>10 DEF VInv, VCtl

LEMMA SecretsDoneVInv ==
    ASSUME VInv, [VNext]_vvars, SecretsDone
    PROVE  VInv'
<1>1. VTypeOK'
  BY VNextTypeOK DEF VInv
<1>2. j = Len(specsIn) + 1
  BY DEF SecretsDone, VInv, VTypeOK
<1>3. BadSecrets = {}
  <2>1. \A l \in 1..Len(specsIn) : l \notin BadSecrets
    BY <1>2 DEF SecretsDone, VInv, VCtl
  <2>. QED  BY <2>1 DEF BadSecrets
<1>4. secretMap = Names(Len(specsIn))
  BY <1>2 DEF SecretsDone, VInv, VCtl
<1>5. BadSecrets' = BadSecrets /\ Names(Len(specsIn))' = Names(Len(specsIn))
      /\ BadMountsV' = BadMountsV
  BY DEF SecretsDone, BadSecrets, Names, BadMountsV
<1>6. verdict.kind = "pending"
  BY DEF SecretsDone, VInv, VCtl
<1>. QED  BY <1>1, <1>3, <1>4, <1>5, <1>6 DEF SecretsDone, VInv, VCtl

LEMMA MountInvalidVInv ==
    ASSUME VInv, [VNext]_vvars, MountInvalid
    PROVE  VInv'
<1>1. BadSecrets = {}
  BY DEF MountInvalid, InMounts, VInv, VCtl
<1>2. j \in BadMountsV
  BY DEF MountInvalid, InMounts, BadMountsV, VInv, VTypeOK
<1>3. Least(BadMountsV) = j
  BY <1>2, FirstBadMount DEF MountInvalid
<1>4. LoopVerdict = [kind |-> "invalid_mount", at |-> j]
  BY <1>1, <1>2, <1>3 DEF LoopVerdict, MountInvalid
<1>. QED  BY <1>4, StopVInv DEF MountInvalid, Stop

LEMMA MountDanglingVInv ==
    ASSUME VInv, [VNext]_vvars, MountDangling
    PROVE  VInv'
<1>1. BadSecrets = {} /\ secretMap = Names(Len(specsIn))
  BY DEF MountDangling, InMounts, VInv, VCtl
<1>2. j \in BadMountsV
  BY <1>1 DEF MountDangling, InMounts, BadMountsV, VInv, VTypeOK
<1>3. Least(BadMountsV) = j
  BY <1>2, FirstBadMount DEF MountDangling
<1>4. LoopVerdict = [kind |-> "dangling", at |-> j]
  BY <1>1, <1>2, <1>3 DEF LoopVerdict, MountDangling
<1>. QED  BY <1>4, StopVInv DEF MountDangling, Stop

LEMMA MountAcceptVInv ==
    ASSUME VInv, [VNext]_vvars, MountAccept
    PROVE  VInv'
<1>1. VTypeOK'
  BY VNextTypeOK DEF VInv
<1>2. j \in 1..Len(mountsIn) /\ j' - 1 = j
  BY DEF MountAccept, InMounts, VInv, VTypeOK
<1>3. BadSecrets = {} /\ secretMap = Names(Len(specsIn))
      /\ verdict.kind = "pending"
  BY DEF MountAccept, InMounts, VInv, VCtl
<1>4. j \notin BadMountsV
  BY <1>3 DEF MountAccept, BadMountsV
<1>5. \A l \in 1..j : l \notin BadMountsV
  BY <1>2, <1>4 DEF MountAccept, InMounts, VInv, VCtl
<1>6. BadSecrets' = BadSecrets /\ Names(Len(specsIn))' = Names(Len(specsIn))
      /\ BadMountsV' = BadMountsV
  BY DEF MountAccept, BadSecrets, Names, BadMountsV
<1>. QED  BY <1>1, <1>2, <1>3, <1>5, <1>6 DEF MountAccept, InMounts, VInv, VCtl

LEMMA MountsDoneVInv ==
    ASSUME VInv, [VNext]_vvars, MountsDone
    PROVE  VInv'
<1>1. VTypeOK'
  BY VNextTypeOK DEF VInv
<1>2. BadSecrets = {} /\ j = Len(mountsIn) + 1
  BY DEF MountsDone, VInv, VCtl, VTypeOK
<1>3. BadMountsV = {}
  <2>1. \A l \in 1..Len(mountsIn) : l \notin BadMountsV
    BY <1>2 DEF MountsDone, VInv, VCtl
  <2>. QED  BY <2>1 DEF BadMountsV
<1>4. LoopVerdict = [kind |-> "ok", at |-> 0]
  BY <1>2, <1>3 DEF LoopVerdict
<1>5. LoopVerdict' = LoopVerdict
  BY LoopVerdictStable DEF MountsDone
<1>. QED  BY <1>1, <1>4, <1>5 DEF MountsDone, VInv, VCtl

LEMMA NextVInv == VInv /\ [VNext]_vvars => VInv'
<1>. SUFFICES ASSUME VInv, [VNext]_vvars PROVE VInv'
  OBVIOUS
<1>1. CASE UNCHANGED vvars
  <2>1. VTypeOK'
    BY VNextTypeOK DEF VInv
  <2>2. LoopVerdict' = LoopVerdict
    BY <1>1, LoopVerdictStable DEF vvars
  <2>3. Names(j - 1)' = Names(j - 1) /\ Names(Len(specsIn))' = Names(Len(specsIn))
        /\ BadSecrets' = BadSecrets /\ BadMountsV' = BadMountsV
    BY <1>1 DEF vvars, Names, BadSecrets, BadMountsV
  <2>. QED  BY <1>1, <2>1, <2>2, <2>3 DEF vvars, VInv, VCtl
<1>. QED
  BY <1>1, SecretInvalidVInv, SecretDuplicateVInv, SecretAcceptVInv,
     SecretsDoneVInv, MountInvalidVInv, MountDanglingVInv, MountAcceptVInv,
     MountsDoneVInv DEF VNext

(***************************************************************************)
(* ValidateSecretsAndMounts returns the error of the first secret whose    *)
(* name is empty or repeats an earlier one, else of the first mount that   *)
(* SecretMount.Validate rejects or that names no secret, else nil: the     *)
(* early returns of its two loops skip no bad entry and report the first.  *)
(***************************************************************************)
THEOREM ValidateLoopCorrectInvariant == VSpec => []ValidateLoopCorrect
<1>1. VInv => ValidateLoopCorrect
  BY DEF VInv, VCtl, ValidateLoopCorrect
<1>. QED  BY <1>1, InitVInv, NextVInv, PTL DEF VSpec

-----------------------------------------------------------------------------
(***************************************************************************)
(* What ParseUint computes.  DecimalValue is the recursive function v of  *)
(* its LET; the lemmas below show that v exists and is a natural number    *)
(* on a digit string, by taking the least index where that would fail.    *)
(***************************************************************************)
DVDef(s, v) ==
    v = [k \in 0..Len(s) |-> IF k = 0 THEN 0 ELSE 10 * v[k - 1] + DigitValue(s[k])]

DV(s) == CHOOSE v : DVDef(s, v)

(* A prefix 0..m of v.                                                     *)
Partial(s, m, g) ==
    /\ g \in [0..m -> Nat]
    /\ g[0] = 0
    /\ \A k \in 1..m : g[k] = 10 * g[k - 1] + DigitValue(s[k])

LEMMA DecimalValueIsDV ==
    ASSUME NEW s
    PROVE  DecimalValue(s) = DV(s)[Len(s)]
BY DEF DecimalValue, DV, DVDef

LEMMA DigitValueRange ==
    ASSUME NEW c \in Digits
    PROVE  DigitValue(c) \in 0..9
<1>1. \E k \in 1..10 : DigitChars[k] = c
  BY DEF Digits
<1>. QED  BY <1>1 DEF DigitValue

(* Every non-empty set of naturals has a least element.                    *)
LEMMA LeastNat ==
    ASSUME NEW T \in SUBSET Nat, T # {}
    PROVE  \E x \in T : \A y \in T : x <= y
<1>1. PICK x \in T : \A y \in T : ~(<<y, x>> \in OpToRel(<, Nat))
  BY NatLessThanWellFounded, WFMin
<1>2. ASSUME NEW y \in T PROVE ~(y < x)
  BY <1>1, Zenon DEF OpToRel
<1>. QED  BY <1>2

LEMMA PartialExists ==
    ASSUME NEW s, \A k \in 1..Len(s) : s[k] \in Digits
    PROVE  \A m \in 0..Len(s) : \E g : Partial(s, m, g)
<1>. DEFINE T == {m \in 0..Len(s) : ~\E g : Partial(s, m, g)}
<1>1. \E g : Partial(s, 0, g)
  <2>. WITNESS [k \in {0} |-> 0]
  <2>. QED  BY DEF Partial
<1>2. ASSUME NEW m \in 1..Len(s), \E g : Partial(s, m - 1, g)
      PROVE  \E g : Partial(s, m, g)
  <2>1. PICK g : Partial(s, m - 1, g)
    BY <1>2
  <2>2. DigitValue(s[m]) \in Nat
    BY DigitValueRange
  <2>. DEFINE h == [k \in 0..m |-> IF k < m THEN g[k] ELSE 10 * g[m - 1] + DigitValue(s[m])]
  <2>3. g \in [0..(m - 1) -> Nat] /\ g[0] = 0
    BY <2>1 DEF Partial
  <2>4. h \in [0..m -> Nat]
    BY <2>2, <2>3
  <2>5. h[0] = 0
    BY <2>3
  <2>6. ASSUME NEW k \in 1..m PROVE h[k] = 10 * h[k - 1] + DigitValue(s[k])
    <3>1. CASE k < m
      BY <2>1, <3>1 DEF Partial
    <3>2. CASE k = m
      BY <3>2
    <3>. QED  BY <3>1, <3>2
  <2>7. Partial(s, m, h)
    BY <2>4, <2>5, <2>6 DEF Partial
  <2>. QED  BY <2>7
<1>3. T = {}
  <2>. SUFFICES ASSUME T # {} PROVE FALSE
    OBVIOUS
  <2>0. T \in SUBSET Nat
    OBVIOUS
  <2>1. PICK x \in T : \A y \in T : x <= y
    BY <2>0, LeastNat
  <2>2. x # 0
    BY <1>1, <2>1
  <2>3. \E g : Partial(s, x - 1, g)
    BY <2>1, <2>2
  <2>. QED  BY <1>2, <2>1, <2>2, <2>3
<1>. QED  BY <1>3

(* On a digit string, the recursive function of DecimalValue exists and   *)
(* every value of it is a natural number.                                  *)
LEMMA DVNat ==
    ASSUME NEW s, \A k \in 1..Len(s) : s[k] \in Digits
    PROVE  /\ DVDef(s, DV(s))
           /\ \A k \in 0..Len(s) : DV(s)[k] \in Nat
<1>1. DVDef(s, DV(s))
  <2>1. PICK g : Partial(s, Len(s), g)
    BY PartialExists
  <2>2. DVDef(s, g)
    BY <2>1 DEF Partial, DVDef
  <2>. QED  BY <2>2 DEF DV
<1>. DEFINE T == {k \in 0..Len(s) : DV(s)[k] \notin Nat}
<1>2. T = {}
  <2>. SUFFICES ASSUME T # {} PROVE FALSE
    OBVIOUS
  <2>0. T \in SUBSET Nat
    OBVIOUS
  <2>1. PICK x \in T : \A y \in T : x <= y
    BY <2>0, LeastNat
  <2>2. DV(s)[0] = 0
    BY <1>1 DEF DVDef
  <2>3. x # 0 /\ DV(s)[x - 1] \in Nat
    BY <2>1, <2>2
  <2>4. DV(s)[x] = 10 * DV(s)[x - 1] + DigitValue(s[x])
    BY <1>1, <2>3 DEF DVDef
  <2>5. DigitValue(s[x]) \in Nat
    BY <2>3, DigitValueRange
  <2>. QED  BY <2>1, <2>3, <2>4, <2>5
<1>. QED  BY <1>1, <1>2

LEMMA DecimalValueNat ==
    ASSUME NEW s, \A k \in 1..Len(s) : s[k] \in Digits
    PROVE  DecimalValue(s) \in Nat
BY DVNat, DecimalValueIsDV

LEMMA PowCard ==
    ASSUME NEW n \in Nat
    PROVE  IsFiniteSet(SUBSET (1..n)) /\ 2^n = Cardinality(SUBSET (1..n))
<1>1. IsFiniteSet(1..n) /\ Cardinality(1..n) = n
  BY FS_Interval
<1>. QED  BY <1>1, FS_SUBSET

(* 2^n is the number of subsets of 1..n: a positive natural that at most   *)
(* doubles from n to n+1.                                                  *)
LEMMA PowTwo ==
    ASSUME NEW n \in Nat
    PROVE  /\ 2^n \in Nat /\ 2^n >= 1
           /\ 2^(n + 1) \in Nat /\ 2^n <= 2^(n + 1)
<1>0. IsFiniteSet(SUBSET (1..n)) /\ 2^n = Cardinality(SUBSET (1..n))
  BY PowCard
<1>1. IsFiniteSet(SUBSET (1..(n + 1))) /\ 2^(n + 1) = Cardinality(SUBSET (1..(n + 1)))
  <2>1. n + 1 \in Nat
    OBVIOUS
  <2>. QED  BY <2>1, PowCard
<1>2. 2^n \in Nat /\ 2^(n + 1) \in Nat
  BY <1>0, <1>1, FS_CardinalityType
<1>3. 2^n # 0
  <2>1. SUBSET (1..n) # {}
    OBVIOUS
  <2>. QED  BY <1>0, <2>1, FS_EmptySet
<1>4. 2^n <= 2^(n + 1)
  <2>1. SUBSET (1..n) \subseteq SUBSET (1..(n + 1))
    OBVIOUS
  <2>. QED  BY <1>0, <1>1, <2>1, FS_Subset
<1>. QED  BY <1>2, <1>3, <1>4

(* GetNumericUid on a build whose int is as wide as ParseUint's result:   *)
(* int(...) of the parsed value is not negative exactly when the value is *)
(* below 2^(ParseBits-1), the spec's non-negative-integer rule.            *)
LEMMA NumericIdAgrees ==
    ASSUME IntBits = ParseBits, NEW id
    PROVE  NumericIdOk(id) <=> IdIsNonNegativeInt(id)
<1>1. CASE id = Empty
  BY <1>1 DEF NumericIdOk, IdIsNonNegativeInt
<1>2. CASE id # Empty /\ ~(Len(id) > 0 /\ \A k \in 1..Len(id) : id[k] \in Digits)
  BY <1>2 DEF NumericIdOk, IdIsNonNegativeInt, ParseUintOk
<1>3. CASE id # Empty /\ Len(id) > 0 /\ \A k \in 1..Len(id) : id[k] \in Digits
  <2>. DEFINE d == DecimalValue(id)
              H == 2^(ParseBits - 1)
              M == 2^ParseBits
  <2>1. d \in Nat
    BY <1>3, DecimalValueNat
  <2>2. H \in Nat /\ M \in Nat /\ 1 <= H /\ H <= M
    <3>1. ParseBits - 1 \in Nat /\ (ParseBits - 1) + 1 = ParseBits
      OBVIOUS
    <3>. QED  BY <3>1, PowTwo
  <2>3. d < M => ToInt(d) = IF d >= H THEN d - M ELSE d
    BY <2>1, <2>2 DEF ToInt
  <2>4. NumericIdOk(id) <=> d < M /\ ToInt(d) >= 0
    BY <1>3 DEF NumericIdOk, ParseUintOk
  <2>5. IdIsNonNegativeInt(id) <=> d < H
    BY <1>3 DEF IdIsNonNegativeInt
  <2>. QED  BY <2>1, <2>2, <2>3, <2>4, <2>5
<1>. QED  BY <1>1, <1>2, <1>3

(* On such a build SecretMount.Validate is the spec's well-formedness.     *)
LEMMA MountAgrees ==
    ASSUME IntBits = ParseBits, NEW m \in SecretMount
    PROVE  MountValid(m) <=> MountWellFormed(m)
<1>1. (NumericIdOk(m.Uid) <=> IdIsNonNegativeInt(m.Uid))
      /\ (NumericIdOk(m.Gid) <=> IdIsNonNegativeInt(m.Gid))
  BY NumericIdAgrees
<1>2. (m.ContainerPath # Empty => IsAbs(m.ContainerPath))
      <=> m.ContainerPath \in AbsTargets \cup DefaultPaths \cup {Empty}
  BY DEF SecretMount, IsAbs
<1>. QED  BY <1>1, <1>2 DEF MountValid, MountWellFormed

(* On such a build the mounts the loop rejects are the ones the spec does, *)
(* and the loops owe the spec's verdict.                                   *)
LEMMA VerdictsAgree ==
    ASSUME IntBits = ParseBits, VTypeOK
    PROVE  ExpectedVerdict = LoopVerdict
<1>1. ASSUME NEW k \in 1..Len(mountsIn)
      PROVE  /\ MountValid(mountsIn[k]) <=> MountWellFormed(mountsIn[k])
             /\ (\A l \in 1..Len(specsIn) : specsIn[l].Name # mountsIn[k].SecretName)
                  <=> mountsIn[k].SecretName \notin Names(Len(specsIn))
  <2>1. mountsIn[k] \in SecretMount
    BY DEF VTypeOK
  <2>2. MountValid(mountsIn[k]) <=> MountWellFormed(mountsIn[k])
    BY <2>1, MountAgrees
  <2>. QED  BY <2>2 DEF Names
<1>2. BadMounts = BadMountsV
  BY <1>1 DEF BadMounts, BadMountsV
<1>3. BadMountsV # {} => Least(BadMountsV) \in 1..Len(mountsIn)
  <2>. SUFFICES ASSUME BadMountsV # {} PROVE Least(BadMountsV) \in BadMountsV
    BY DEF BadMountsV
  <2>1. PICK x \in BadMountsV : \A l \in BadMountsV : x <= l
    <3>1. BadMountsV \in SUBSET Nat
      BY DEF BadMountsV
    <3>. QED  BY <3>1, LeastNat
  <2>. QED  BY <2>1 DEF Least
<1>. QED  BY <1>1, <1>2, <1>3 DEF ExpectedVerdict, LoopVerdict

(***************************************************************************)
(* On a build whose int is as wide as ParseUint's result (64-bit Go),      *)
(* ValidateSecretsAndMounts returns the spec's verdict: the first secret   *)
(* whose name is empty or repeats an earlier one, else the first mount    *)
(* with an empty name, a relative path, a uid or gid that is not a         *)
(* non-negative int, or no secret of its name, else nil.  On a 32-bit     *)
(* build it does not (the validate_32 run).                                *)
(***************************************************************************)
THEOREM ValidateVerdictCorrect64 ==
    ASSUME IntBits = ParseBits
    PROVE  VSpec => []ValidateVerdictCorrect
<1>1. VTypeOK /\ ValidateLoopCorrect => ValidateVerdictCorrect
  BY VerdictsAgree DEF ValidateLoopCorrect, ValidateVerdictCorrect
<1>. QED  BY <1>1, VTypeCorrect, ValidateLoopCorrectInvariant, PTL
=============================================================================
