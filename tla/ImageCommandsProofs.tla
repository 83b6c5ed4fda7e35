------------------------- MODULE ImageCommandsProofs -------------------------
(***************************************************************************)
(* Proofs about rm and inspect for every number of images and every set of *)
(* machines: the three invariants the image_commands run checks.           *)
(***************************************************************************)
EXTENDS ImageCommands, TLAPS

(* The report the code prints for image k, from that image's call results. *)
Expected(k) ==
    IF cmd = "rm"
    THEN IF calls[k].ok THEN RmReport(k, calls[k]) ELSE Failed(k)
    ELSE IF local[k].ok THEN InspectReport(k, "local", local[k])
    ELSE IF remote[k].ok THEN InspectReport(k, "remote", remote[k])
    ELSE Failed(k)

(* The results each command's calls can give, as chosen by CInit.          *)
InputsOK ==
    /\ cmd \in {"rm", "inspect"}
    /\ cmd = "rm" => calls \in [1..NImages -> CallsOf(RmAnswers)]
    /\ cmd = "inspect" =>
         /\ local \in [1..NImages -> CallsOf(InspectAnswers)]
         /\ remote \in [1..NImages -> CallsOf(InspectAnswers)]

(***************************************************************************)
(* The inductive invariant: the output so far is exactly the reports of   *)
(* images 1..i-1, each computed from its own call results, and nil is      *)
(* returned only once the loop has passed every image.                     *)
(***************************************************************************)
CInv ==
    /\ InputsOK
    /\ pc \in {"start", "loop", "done"}
    /\ i \in 1..NImages + 1
    /\ out = [k \in 1..i - 1 |-> Expected(k)]
    /\ pc \in {"start", "loop"} => ret = "none"
    /\ ret = "ok" => i = NImages + 1

USE ImageAssumption

LEMMA CInitInv == CInit => CInv
<1>. SUFFICES ASSUME CInit PROVE CInv
  OBVIOUS
<1>1. InputsOK
  BY DEF CInit, InputsOK
<1>2. out = [k \in 1..i - 1 |-> Expected(k)]
  BY DEF CInit
<1>. QED  BY <1>1, <1>2 DEF CInit, CInv

(* Every step leaves the command's inputs as they are.                    *)
LEMMA InputsStable ==
    ASSUME InputsOK, UNCHANGED inputs
    PROVE  InputsOK'
BY DEF InputsOK, inputs

(* Expected depends only on the inputs and the listed machines.          *)
LEMMA ExpectedStable ==
    ASSUME UNCHANGED inputs, NEW k
    PROVE  Expected(k)' = Expected(k)
<1>1. cmd' = cmd /\ listed' = listed /\ calls' = calls /\ local' = local /\ remote' = remote
  BY DEF inputs
<1>. QED  BY <1>1 DEF Expected, RmReport, InspectReport, RmAnswerLines,
                      InspectAnswerLines, MachineName, Failed

(* Appending image n+1's report to the reports of 1..n.                   *)
LEMMA AppendReports ==
    ASSUME NEW n \in Nat, NEW s, NEW e, NEW f(_),
           s = [k \in 1..n |-> f(k)], e = f(n + 1)
    PROVE  Append(s, e) = [k \in 1..n + 1 |-> f(k)]
OBVIOUS

(* The loop steps: each appends image i's report and moves to i + 1.       *)
LEMMA LoopStepInv ==
    ASSUME CInv, UNCHANGED <<inputs, pc, ret>>, pc = "loop", i <= NImages,
           out' = Append(out, Expected(i)), i' = i + 1
    PROVE  CInv'
<1>1. InputsOK'  BY InputsStable DEF CInv
<1>2. i \in Nat /\ i - 1 \in Nat  BY DEF CInv
<1>3. out' = [k \in 1..i |-> Expected(k)]
  <2>. DEFINE f(k) == Expected(k)
  <2>. QED  BY <1>2, AppendReports DEF CInv
<1>4. UNCHANGED inputs /\ pc' = pc /\ ret' = ret
  OBVIOUS
<1>5. \A k : Expected(k)' = Expected(k)
  BY <1>4, ExpectedStable
<1>6. out' = [k \in 1..i' - 1 |-> Expected(k)']
  <2>1. i' - 1 = i  BY <1>2
  <2>2. [k \in 1..i |-> Expected(k)] = [k \in 1..i |-> Expected(k)']
    BY <1>5
  <2>. QED  BY <1>3, <2>1, <2>2
<1>. QED  BY <1>1, <1>2, <1>4, <1>6 DEF CInv

LEMMA CNextInv == CInv /\ [CNext]_cvars => CInv'
<1>. SUFFICES ASSUME CInv, [CNext]_cvars PROVE CInv'
  OBVIOUS
<1>1. CASE SetupFails
  <2>1. InputsOK'  BY <1>1, InputsStable DEF SetupFails, CInv
  <2>2. \A k : Expected(k)' = Expected(k)  BY <1>1, ExpectedStable DEF SetupFails
  <2>. QED  BY <1>1, <2>1, <2>2 DEF SetupFails, CInv
<1>2. CASE SetupOk
  <2>1. InputsOK'  BY <1>2, InputsStable DEF SetupOk, CInv
  <2>2. \A k : Expected(k)' = Expected(k)  BY <1>2, ExpectedStable DEF SetupOk
  <2>. QED  BY <1>2, <2>1, <2>2 DEF SetupOk, CInv
<1>3. CASE RemoveOne
  <2>1. out' = Append(out, Expected(i))  BY <1>3, Zenon DEF RemoveOne, Expected
  <2>. QED  BY <1>3, <2>1, LoopStepInv DEF RemoveOne
<1>4. CASE InspectOne
  <2>1. out' = Append(out, Expected(i))
    <3>1. CASE local[i].ok
      BY <1>4, <3>1, Zenon DEF InspectOne, Expected
    <3>2. CASE ~local[i].ok /\ remote[i].ok
      BY <1>4, <3>2, Zenon DEF InspectOne, Expected
    <3>3. CASE ~local[i].ok /\ ~remote[i].ok
      BY <1>4, <3>3, Zenon DEF InspectOne, Expected
    <3>. QED  BY <3>1, <3>2, <3>3
  <2>. QED  BY <1>4, <2>1, LoopStepInv DEF InspectOne
<1>5. CASE LoopDone
  <2>1. InputsOK'  BY <1>5, InputsStable DEF LoopDone, CInv
  <2>2. \A k : Expected(k)' = Expected(k)  BY <1>5, ExpectedStable DEF LoopDone
  <2>. QED  BY <1>5, <2>1, <2>2 DEF LoopDone, CInv
<1>6. CASE UNCHANGED cvars
  <2>1. InputsOK'  BY <1>6, InputsStable DEF cvars, inputs, CInv
  <2>2. \A k : Expected(k)' = Expected(k)  BY <1>6, ExpectedStable DEF cvars, inputs
  <2>. QED  BY <1>6, <2>1, <2>2 DEF cvars, CInv
<1>. QED  BY <1>1, <1>2, <1>3, <1>4, <1>5, <1>6 DEF CNext

THEOREM CInvariant == CSpec => []CInv
BY CInitInv, CNextInv, PTL DEF CSpec

-----------------------------------------------------------------------------
(* The condition ReportMatchesAnswers puts on one report r of a call whose *)
(* answers are f.                                                          *)
ReportFits(r, f) ==
    /\ \A l \in r.lines :
         /\ l.who.m \in DOMAIN f
         /\ l.who.by = "name" <=> l.who.m \in listed
    /\ \A m \in DOMAIN f :
         LET W == {l.what : l \in {l \in r.lines : l.who.m = m}} IN
         /\ W # {}
         /\ "error" \in W <=> f[m].kind = "error"
         /\ W \cap {"error", "notfound"} # {} => W \in {{"error"}, {"notfound"}}

(* The kinds S printed for an answer a keep an error or "not found" line   *)
(* alone.                                                                  *)
KindsFit(S, a) ==
    /\ S # {}
    /\ "error" \in S <=> a.kind = "error"
    /\ S \cap {"error", "notfound"} # {} => S \in {{"error"}, {"notfound"}}

(* Lines built machine by machine from kinds that fit satisfy ReportFits:  *)
(* a machine's lines are exactly its own kinds, under its own name.        *)
LEMMA LinesFit ==
    ASSUME NEW f, NEW g, NEW r,
           r.lines = UNION {{[who |-> MachineName(n), what |-> x] : x \in g[n]} :
                              n \in DOMAIN f},
           \A n \in DOMAIN f : KindsFit(g[n], f[n])
    PROVE  ReportFits(r, f)
<1>1. ASSUME NEW l \in r.lines
      PROVE  /\ l.who.m \in DOMAIN f
             /\ l.who.by = "name" <=> l.who.m \in listed
  <2>1. PICK n \in DOMAIN f : \E x \in g[n] : l = [who |-> MachineName(n), what |-> x]
    OBVIOUS
  <2>. QED  BY <2>1 DEF MachineName
<1>2. ASSUME NEW m \in DOMAIN f
      PROVE  {l.what : l \in {l \in r.lines : l.who.m = m}} = g[m]
  <2>1. ASSUME NEW l \in r.lines, l.who.m = m PROVE l.what \in g[m]
    <3>1. PICK n \in DOMAIN f : \E x \in g[n] : l = [who |-> MachineName(n), what |-> x]
      OBVIOUS
    <3>. QED  BY <2>1, <3>1 DEF MachineName
  <2>2. ASSUME NEW x \in g[m]
        PROVE  [who |-> MachineName(m), what |-> x] \in {l \in r.lines : l.who.m = m}
    BY DEF MachineName
  <2>3. \A x \in g[m] : x \in {l.what : l \in {l \in r.lines : l.who.m = m}}
    <3>. TAKE x \in g[m]
    <3>1. [who |-> MachineName(m), what |-> x] \in {l \in r.lines : l.who.m = m}
      BY <2>2
    <3>2. [who |-> MachineName(m), what |-> x].what = x
      OBVIOUS
    <3>. QED  BY <3>1, <3>2, Zenon
  <2>. QED  BY <2>1, <2>3, Zenon
<1>. QED  BY <1>1, <1>2 DEF ReportFits, KindsFit

(* rm's kinds fit: one error line, one "not found" line, or a non-empty    *)
(* set of Untagged and Deleted lines.                                      *)
LEMMA RmKindsFit ==
    ASSUME NEW a \in RmAnswers
    PROVE  KindsFit(RmKinds(a), a)
<1>1. CASE a.kind = "error"
  <2>1. RmKinds(a) = {"error"}  BY <1>1, Zenon DEF RmKinds
  <2>. QED  BY <1>1, <2>1 DEF KindsFit
<1>2. CASE a.kind = "empty"
  <2>1. RmKinds(a) = {"notfound"}  BY <1>2, Zenon DEF RmKinds
  <2>. QED  BY <1>2, <2>1 DEF KindsFit
<1>3. CASE a.kind = "items"
  <2>1. RmKinds(a) = a.items  BY <1>3, Zenon DEF RmKinds
  <2>2. a.items \in ItemKinds  BY <1>3 DEF RmAnswers
  <2>. QED  BY <1>3, <2>1, <2>2 DEF KindsFit, ItemKinds
<1>. QED  BY <1>1, <1>2, <1>3 DEF RmAnswers

(* Every answer of a cluster call is one of the answers it can give.       *)
LEMMA CallAnswers ==
    ASSUME NEW A, NEW c \in CallsOf(A), NEW m \in DOMAIN c.answers
    PROVE  c.answers[m] \in A
BY DEF CallsOf

(* A call either fails or succeeds.                                        *)
LEMMA CallOk ==
    ASSUME NEW A, NEW c \in CallsOf(A)
    PROVE  c.ok \in BOOLEAN
<1>1. \/ c = [ok |-> FALSE, answers |-> [m \in {} |-> CHOOSE a \in A : TRUE]]
      \/ \E f \in UNION {[S -> A] : S \in SUBSET Machines} : c = [ok |-> TRUE, answers |-> f]
  BY Zenon DEF CallsOf
<1>2. CASE c = [ok |-> FALSE, answers |-> [m \in {} |-> CHOOSE a \in A : TRUE]]
  <2>1. c.ok = FALSE  BY <1>2, Zenon
  <2>. QED  BY <2>1
<1>3. CASE \E f \in UNION {[S -> A] : S \in SUBSET Machines} : c = [ok |-> TRUE, answers |-> f]
  <2>1. PICK f \in UNION {[S -> A] : S \in SUBSET Machines} : c = [ok |-> TRUE, answers |-> f]
    BY <1>3
  <2>2. c.ok = TRUE  BY <2>1, Zenon
  <2>. QED  BY <2>2
<1>. QED  BY <1>1, <1>2, <1>3

(* The report of a successful call fits its answers.                       *)
LEMMA RmReportFits ==
    ASSUME NEW k, NEW c \in CallsOf(RmAnswers)
    PROVE  ReportFits(RmReport(k, c), c.answers)
<1>. DEFINE g == [n \in DOMAIN c.answers |-> RmKinds(c.answers[n])]
<1>1. \A n \in DOMAIN c.answers : KindsFit(g[n], c.answers[n])
  BY CallAnswers, RmKindsFit
<1>2. RmReport(k, c).lines
        = UNION {{[who |-> MachineName(n), what |-> x] : x \in g[n]} : n \in DOMAIN c.answers}
  <2>1. \A n \in DOMAIN c.answers :
          RmAnswerLines(n, c.answers[n]) = {[who |-> MachineName(n), what |-> x] : x \in g[n]}
    BY DEF RmAnswerLines
  <2>3. {RmAnswerLines(n, c.answers[n]) : n \in DOMAIN c.answers}
          = {{[who |-> MachineName(n), what |-> x] : x \in g[n]} : n \in DOMAIN c.answers}
    <3>1. ASSUME NEW S \in {RmAnswerLines(n, c.answers[n]) : n \in DOMAIN c.answers}
          PROVE  S \in {{[who |-> MachineName(n), what |-> x] : x \in g[n]} : n \in DOMAIN c.answers}
      <4>1. PICK n \in DOMAIN c.answers : S = RmAnswerLines(n, c.answers[n])
        OBVIOUS
      <4>. QED  BY <4>1, <2>1
    <3>2. ASSUME NEW S \in {{[who |-> MachineName(n), what |-> x] : x \in g[n]} : n \in DOMAIN c.answers}
          PROVE  S \in {RmAnswerLines(n, c.answers[n]) : n \in DOMAIN c.answers}
      <4>1. PICK n \in DOMAIN c.answers :
              S = {[who |-> MachineName(n), what |-> x] : x \in g[n]}
        OBVIOUS
      <4>. QED  BY <4>1, <2>1
    <3>. QED  BY <3>1, <3>2, Zenon
  <2>2. RmReport(k, c).lines = UNION {RmAnswerLines(n, c.answers[n]) : n \in DOMAIN c.answers}
    BY DEF RmReport
  <2>. QED  BY <2>2, <2>3
<1>. QED  BY <1>1, <1>2, LinesFit

(* inspect prints one line per machine, with its error or its image.       *)
LEMMA InspectReportFits ==
    ASSUME NEW k, NEW via, NEW c \in CallsOf(InspectAnswers)
    PROVE  ReportFits(InspectReport(k, via, c), c.answers)
<1>. DEFINE g == [n \in DOMAIN c.answers |-> {c.answers[n].kind}]
<1>1. \A n \in DOMAIN c.answers : KindsFit(g[n], c.answers[n])
  BY CallAnswers DEF KindsFit, InspectAnswers
<1>2. InspectReport(k, via, c).lines
        = UNION {{[who |-> MachineName(n), what |-> x] : x \in g[n]} : n \in DOMAIN c.answers}
  <2>1. \A n \in DOMAIN c.answers :
          InspectAnswerLines(n, c.answers[n]) = {[who |-> MachineName(n), what |-> x] : x \in g[n]}
    BY DEF InspectAnswerLines
  <2>3. {InspectAnswerLines(n, c.answers[n]) : n \in DOMAIN c.answers}
          = {{[who |-> MachineName(n), what |-> x] : x \in g[n]} : n \in DOMAIN c.answers}
    <3>1. ASSUME NEW S \in {InspectAnswerLines(n, c.answers[n]) : n \in DOMAIN c.answers}
          PROVE  S \in {{[who |-> MachineName(n), what |-> x] : x \in g[n]} : n \in DOMAIN c.answers}
      <4>1. PICK n \in DOMAIN c.answers : S = InspectAnswerLines(n, c.answers[n])
        OBVIOUS
      <4>2. S = {[who |-> MachineName(n), what |-> x] : x \in g[n]}
        BY <4>1, <2>1
      <4>. QED  BY <4>2
    <3>2. ASSUME NEW S \in {{[who |-> MachineName(n), what |-> x] : x \in g[n]} : n \in DOMAIN c.answers}
          PROVE  S \in {InspectAnswerLines(n, c.answers[n]) : n \in DOMAIN c.answers}
      <4>1. PICK n \in DOMAIN c.answers :
              S = {[who |-> MachineName(n), what |-> x] : x \in g[n]}
        OBVIOUS
      <4>. QED  BY <4>1, <2>1
    <3>. QED  BY <3>1, <3>2, Zenon
  <2>2. InspectReport(k, via, c).lines = UNION {InspectAnswerLines(n, c.answers[n]) : n \in DOMAIN c.answers}
    BY DEF InspectReport
  <2>. QED  BY <2>2, <2>3
<1>. QED  BY <1>1, <1>2, LinesFit

(* A failed call prints no machine and has no answers.                     *)
LEMMA FailedFits ==
    ASSUME NEW k
    PROVE  ReportFits(Failed(k), NoCall.answers)
BY DEF ReportFits, Failed, NoCall

-----------------------------------------------------------------------------
(* The output so far, image by image.                                     *)
LEMMA OutputIsExpected ==
    CInv => /\ Len(out) = i - 1
            /\ \A k \in 1..Len(out) : out[k] = Expected(k) /\ k \in 1..NImages
<1>. SUFFICES ASSUME CInv PROVE /\ Len(out) = i - 1
                                /\ \A k \in 1..Len(out) : out[k] = Expected(k) /\ k \in 1..NImages
  OBVIOUS
<1>1. i - 1 \in Nat /\ i - 1 <= NImages  BY DEF CInv
<1>. QED  BY <1>1 DEF CInv

LEMMA CInvImpliesEveryImageAttempted == CInv => EveryImageAttempted
<1>. SUFFICES ASSUME CInv, cmd = "rm" PROVE EveryImageAttempted
  BY DEF EveryImageAttempted
<1>1. ASSUME NEW k \in 1..Len(out)
      PROVE  out[k].img = k /\ (out[k].via = "none" <=> ~calls[k].ok)
  <2>1. out[k] = Expected(k) /\ k \in 1..NImages  BY OutputIsExpected
  <2>2. calls[k].ok \in BOOLEAN  BY <2>1, CallOk DEF CInv, InputsOK
  <2>3. CASE calls[k].ok
    BY <2>1, <2>3 DEF Expected, RmReport
  <2>4. CASE ~calls[k].ok
    BY <2>1, <2>4 DEF Expected, Failed
  <2>. QED  BY <2>2, <2>3, <2>4
<1>. QED  BY <1>1, OutputIsExpected DEF CInv, EveryImageAttempted

LEMMA CInvImpliesOneReportPerImage == CInv => OneReportPerImage
<1>. SUFFICES ASSUME CInv, cmd = "inspect" PROVE OneReportPerImage
  BY DEF OneReportPerImage
<1>1. ASSUME NEW k \in 1..Len(out)
      PROVE  /\ out[k].img = k
             /\ out[k].via = "local" <=> local[k].ok
             /\ out[k].via = "remote" <=> ~local[k].ok /\ remote[k].ok
  <2>1. out[k] = Expected(k) /\ k \in 1..NImages  BY OutputIsExpected
  <2>2. local[k].ok \in BOOLEAN /\ remote[k].ok \in BOOLEAN
    BY <2>1, CallOk DEF CInv, InputsOK
  <2>3. CASE local[k].ok
    BY <2>1, <2>3 DEF Expected, InspectReport
  <2>4. CASE ~local[k].ok /\ remote[k].ok
    BY <2>1, <2>4 DEF Expected, InspectReport
  <2>5. CASE ~local[k].ok /\ ~remote[k].ok
    BY <2>1, <2>5 DEF Expected, Failed
  <2>. QED  BY <2>2, <2>3, <2>4, <2>5
<1>. QED  BY <1>1, OutputIsExpected DEF CInv, OneReportPerImage

LEMMA CInvImpliesReportMatchesAnswers == CInv => ReportMatchesAnswers
<1>. SUFFICES ASSUME CInv, NEW k \in 1..Len(out)
              PROVE  ReportFits(out[k], CallOf(out[k]).answers)
  BY DEF ReportMatchesAnswers, ReportFits
<1>1. out[k] = Expected(k) /\ k \in 1..NImages
  BY OutputIsExpected
<1>2. CASE cmd = "rm" /\ calls[k].ok
  <2>1. out[k] = RmReport(k, calls[k])  BY <1>1, <1>2 DEF Expected
  <2>2. CallOf(out[k]) = calls[k]
    <3>1. out[k].via = "rm" /\ out[k].img = k  BY <2>1 DEF RmReport
    <3>. QED  BY <3>1, Zenon DEF CallOf
  <2>3. calls[k] \in CallsOf(RmAnswers)  BY <1>1, <1>2 DEF CInv, InputsOK
  <2>. QED  BY <2>1, <2>2, <2>3, RmReportFits
<1>3. CASE cmd # "rm" /\ local[k].ok
  <2>1. out[k] = InspectReport(k, "local", local[k])  BY <1>1, <1>3 DEF Expected
  <2>2. CallOf(out[k]) = local[k]
    <3>1. out[k].via = "local" /\ out[k].img = k  BY <2>1 DEF InspectReport
    <3>. QED  BY <3>1, Zenon DEF CallOf
  <2>3. local[k] \in CallsOf(InspectAnswers)  BY <1>1, <1>3 DEF CInv, InputsOK
  <2>. QED  BY <2>1, <2>2, <2>3, InspectReportFits
<1>4. CASE cmd # "rm" /\ ~local[k].ok /\ remote[k].ok
  <2>1. out[k] = InspectReport(k, "remote", remote[k])  BY <1>1, <1>4 DEF Expected
  <2>2. CallOf(out[k]) = remote[k]
    <3>1. out[k].via = "remote" /\ out[k].img = k  BY <2>1 DEF InspectReport
    <3>. QED  BY <3>1, Zenon DEF CallOf
  <2>3. remote[k] \in CallsOf(InspectAnswers)  BY <1>1, <1>4 DEF CInv, InputsOK
  <2>. QED  BY <2>1, <2>2, <2>3, InspectReportFits
<1>5. CASE \/ cmd = "rm" /\ ~calls[k].ok
           \/ cmd # "rm" /\ ~local[k].ok /\ ~remote[k].ok
  <2>1. out[k] = Failed(k)  BY <1>1, <1>5 DEF Expected
  <2>2. CallOf(out[k]) = NoCall
    <3>1. out[k].via = "none" /\ out[k].img = k  BY <2>1 DEF Failed
    <3>. QED  BY <3>1, Zenon DEF CallOf
  <2>. QED  BY <2>1, <2>2, FailedFits
<1>. QED  BY <1>2, <1>3, <1>4, <1>5

(***************************************************************************)
(* rm handles every image in order, a failing call included, before it    *)
(* returns nil.                                                            *)
(***************************************************************************)
THEOREM EveryImageAttemptedInvariant == CSpec => []EveryImageAttempted
BY CInvariant, CInvImpliesEveryImageAttempted, PTL

(***************************************************************************)
(* inspect prints one report per image, in order: local answers, else the *)
(* registry's, else an error line.                                         *)
(***************************************************************************)
THEOREM OneReportPerImageInvariant == CSpec => []OneReportPerImage
BY CInvariant, CInvImpliesOneReportPerImage, PTL

(***************************************************************************)
(* Every report of rm and inspect lists exactly the machines that         *)
(* answered, each under its own name and with its own outcome alone.       *)
(***************************************************************************)
THEOREM ReportMatchesAnswersInvariant == CSpec => []ReportMatchesAnswers
BY CInvariant, CInvImpliesReportMatchesAnswers, PTL
=============================================================================
