----------------------------- MODULE PullProofs -----------------------------
(***************************************************************************)
(* Proofs about pull's stream loop for every number of machines, stream    *)
(* length and channel capacity: the types hold, the progress output is    *)
(* well formed, and the command's result agrees with what went through    *)
(* the channel.                                                            *)
(***************************************************************************)
EXTENDS Pull, TLAPS

USE PullAssumption

(* PTypeOK by the side of the channel each part belongs to.                *)
ProducerTypeOK ==
    /\ script \in [Machines -> Scripts]
    /\ sent \in [Machines -> 0..MaxMsgs]
    /\ quit \subseteq Machines
    /\ closed \in BOOLEAN /\ canceled \in BOOLEAN
    /\ \A m \in Machines : sent[m] <= Len(script[m])

ChanTypeOK == ch \in Seq(MsgKinds) /\ Len(ch) <= Cap

ConsumerTypeOK ==
    /\ pc \in {"start", "loop", "done"}
    /\ started \in BOOLEAN
    /\ events \in Seq({"working", "child", "status", "pulled"})
    /\ result \in {"none", "ok", "error"}

(***************************************************************************)
(* The strengthening.  A sender never runs past its script (so the message *)
(* it sends exists), nothing is sent before the stream is open, and the    *)
(* consumer's flag and output agree: before started no event is written    *)
(* while the loop runs, after it the first event is "Pulling...", and the  *)
(* result is decided only when pull returns.                               *)
(***************************************************************************)
PCtl ==
    /\ pc = "start" => sent = [m \in Machines |-> 0] /\ ch = <<>> /\ ~started
    /\ pc # "done" => result = "none"
    /\ pc # "done" /\ ~started => events = <<>>
    /\ started => Len(events) >= 1 /\ events[1] = "working"

PInv ==
    /\ ProducerTypeOK /\ ChanTypeOK /\ ConsumerTypeOK
    /\ PCtl
    /\ ProgressWellFormed

(***************************************************************************)
(* The strengthening of OutcomeMatchesStream.  A sender quits only once    *)
(* the context is canceled; the channel is closed only when every sender  *)
(* is finished; an error in the channel was sent by a machine; and while  *)
(* the loop runs, an error that was sent is still in the channel, waiting *)
(* to be received.                                                         *)
(***************************************************************************)
ErrorInChan == \E j \in 1..Len(ch) : ch[j] = "error"

OCtl ==
    /\ \A m \in quit : canceled
    /\ closed => \A m \in Machines : Finished(m)
    /\ ErrorInChan => ErrorSent
    /\ pc = "loop" /\ ErrorSent => ErrorInChan

OInv == PInv /\ OCtl /\ OutcomeMatchesStream

LEMMA PInvTypeOK == PInv => PTypeOK
BY Zenon DEF PInv, ProducerTypeOK, ChanTypeOK, ConsumerTypeOK, PTypeOK

(* Every script is a sequence of messages no longer than MaxMsgs.          *)
LEMMA ScriptsAreSeqs ==
    \A s \in Scripts : s \in Seq(MsgKinds) /\ Len(s) <= MaxMsgs
<1>. SUFFICES ASSUME NEW s \in Scripts PROVE s \in Seq(MsgKinds) /\ Len(s) <= MaxMsgs
  OBVIOUS
<1>1. PICK n \in 0..MaxMsgs : s \in [1..n -> MsgKinds]
  BY DEF Scripts
<1>2. s \in Seq(MsgKinds) /\ Len(s) = n
  BY <1>1
<1>. QED  BY <1>1, <1>2

LEMMA InitPInv == PInit => PInv
<1>. SUFFICES ASSUME PInit PROVE PInv
  OBVIOUS
<1>1. ProducerTypeOK
  <2>1. script \in [Machines -> Scripts] /\ sent \in [Machines -> 0..MaxMsgs]
    BY DEF PInit
  <2>2. quit \subseteq Machines /\ closed \in BOOLEAN /\ canceled \in BOOLEAN
    BY DEF PInit
  <2>3. ASSUME NEW m \in Machines PROVE sent[m] <= Len(script[m])
    <3>1. script[m] \in Seq(MsgKinds)
      BY <2>1, ScriptsAreSeqs
    <3>. QED  BY <3>1 DEF PInit
  <2>. QED  BY <2>1, <2>2, <2>3, Zenon DEF ProducerTypeOK
<1>2. ChanTypeOK
  BY DEF PInit, ChanTypeOK
<1>3. ConsumerTypeOK
  <2>1. pc \in {"start", "loop", "done"} /\ result \in {"none", "ok", "error"}
        /\ events \in Seq({"working", "child", "status", "pulled"})
    BY DEF PInit
  <2>2. started \in BOOLEAN
    BY Zenon DEF PInit
  <2>. QED  BY <2>1, <2>2, Zenon DEF ConsumerTypeOK
<1>4. ProgressWellFormed
  <2>1. 1..Len(events) = {} /\ result # "ok"
    BY DEF PInit
  <2>. QED  BY <2>1, Zenon DEF ProgressWellFormed
<1>5. PCtl
  BY DEF PInit, PCtl
<1>. QED  BY <1>1, <1>2, <1>3, <1>4, <1>5, Zenon DEF PInv

(* A producer step keeps the consumer's part of the invariant.            *)
LEMMA ConsumerFrame ==
    ASSUME PInv, UNCHANGED consumer, ProducerTypeOK', ChanTypeOK',
           pc = "start" => sent' = sent /\ ch' = ch
    PROVE  PInv'
<1>1. ConsumerTypeOK'
  BY Zenon DEF PInv, ConsumerTypeOK, consumer
<1>2. ProgressWellFormed'
  BY Zenon DEF PInv, ProgressWellFormed, consumer
<1>3. PCtl'
  BY Zenon DEF PInv, PCtl, consumer
<1>. QED  BY <1>1, <1>2, <1>3, Zenon DEF PInv

LEMMA SendPInv ==
    ASSUME PInv, NEW m \in Machines, Send(m)
    PROVE  PInv'
<1>1. script[m] \in Seq(MsgKinds) /\ Len(script[m]) <= MaxMsgs
  BY ScriptsAreSeqs DEF PInv, ProducerTypeOK
<1>2. sent[m] + 1 \in 1..Len(script[m])
  BY <1>1 DEF Send, Finished, PInv, ProducerTypeOK
<1>3. ProducerTypeOK'
  <2>1. script' \in [Machines -> Scripts] /\ sent' \in [Machines -> 0..MaxMsgs]
    BY <1>1, <1>2 DEF Send, PInv, ProducerTypeOK
  <2>2. quit' \subseteq Machines /\ closed' \in BOOLEAN /\ canceled' \in BOOLEAN
    BY Zenon DEF Send, PInv, ProducerTypeOK
  <2>3. \A n \in Machines : sent'[n] <= Len(script'[n])
    BY <1>2 DEF Send, PInv, ProducerTypeOK
  <2>. QED  BY <2>1, <2>2, <2>3, Zenon DEF ProducerTypeOK
<1>4. ChanTypeOK'
  <2>1. script[m][sent[m] + 1] \in MsgKinds
    BY <1>1, <1>2
  <2>. QED  BY <2>1 DEF Send, PInv, ChanTypeOK
<1>. QED  BY <1>3, <1>4, ConsumerFrame DEF Send

LEMMA ProducerPInv ==
    ASSUME PInv, (\E m \in Machines : Abort(m)) \/ Close \/ Cancel
    PROVE  PInv'
<1>1. UNCHANGED <<script, sent, ch>> /\ UNCHANGED consumer
  BY Zenon DEF Abort, Close, Cancel
<1>2. quit' \subseteq Machines
  BY DEF Abort, Close, Cancel, PInv, ProducerTypeOK
<1>3. closed' \in BOOLEAN /\ canceled' \in BOOLEAN
  BY Zenon DEF Abort, Close, Cancel, PInv, ProducerTypeOK
<1>4. ProducerTypeOK'
  BY <1>1, <1>2, <1>3 DEF PInv, ProducerTypeOK
<1>5. ChanTypeOK'
  BY <1>1 DEF PInv, ChanTypeOK
<1>. QED  BY <1>1, <1>4, <1>5, ConsumerFrame

(* A consumer step that leaves the producer and the channel alone keeps    *)
(* their part of the invariant.                                            *)
LEMMA ProducerFrame ==
    ASSUME PInv, UNCHANGED producer, UNCHANGED ch
    PROVE  ProducerTypeOK' /\ ChanTypeOK'
<1>1. ProducerTypeOK'
  BY Zenon DEF PInv, ProducerTypeOK, producer
<1>2. ChanTypeOK'
  BY DEF PInv, ChanTypeOK
<1>. QED  BY <1>1, <1>2

LEMMA OpenFailsPInv ==
    ASSUME PInv, OpenFails
    PROVE  PInv'
<1>1. sent = [m \in Machines |-> 0] /\ ch = <<>>
  BY DEF OpenFails, PInv, PCtl
<1>2. ProducerTypeOK'
  <2>1. <<>> \in Scripts
    BY DEF Scripts
  <2>2. script' \in [Machines -> Scripts] /\ sent' \in [Machines -> 0..MaxMsgs]
    BY <1>1, <2>1 DEF OpenFails
  <2>3. quit' \subseteq Machines /\ closed' \in BOOLEAN /\ canceled' \in BOOLEAN
    BY Zenon DEF OpenFails, PInv, ProducerTypeOK
  <2>4. \A n \in Machines : sent'[n] <= Len(script'[n])
    BY <1>1 DEF OpenFails
  <2>. QED  BY <2>2, <2>3, <2>4, Zenon DEF ProducerTypeOK
<1>3. ChanTypeOK'
  BY <1>1 DEF OpenFails, ChanTypeOK
<1>4. ConsumerTypeOK'
  <2>1. pc' \in {"start", "loop", "done"} /\ result' \in {"none", "ok", "error"}
        /\ events' \in Seq({"working", "child", "status", "pulled"})
    BY DEF OpenFails, PInv, ConsumerTypeOK
  <2>2. started' \in BOOLEAN
    BY Zenon DEF OpenFails, PInv, ConsumerTypeOK
  <2>. QED  BY <2>1, <2>2, Zenon DEF ConsumerTypeOK
<1>5. events = <<>> /\ ~started
  BY DEF OpenFails, PInv, PCtl
<1>6. ProgressWellFormed'
  <2>1. 1..Len(events') = {} /\ result' # "ok"
    BY <1>5 DEF OpenFails
  <2>. QED  BY <2>1, Zenon DEF ProgressWellFormed
<1>7. PCtl'
  BY <1>5, Zenon DEF OpenFails, PCtl
<1>. QED  BY <1>2, <1>3, <1>4, <1>6, <1>7, Zenon DEF PInv

LEMMA OpenPInv ==
    ASSUME PInv, Open
    PROVE  PInv'
<1>1. ProducerTypeOK' /\ ChanTypeOK'
  BY ProducerFrame DEF Open
<1>2. ConsumerTypeOK'
  <2>1. pc' \in {"start", "loop", "done"} /\ result' \in {"none", "ok", "error"}
        /\ events' \in Seq({"working", "child", "status", "pulled"})
    BY DEF Open, PInv, ConsumerTypeOK
  <2>2. started' \in BOOLEAN
    BY Zenon DEF Open, PInv, ConsumerTypeOK
  <2>. QED  BY <2>1, <2>2, Zenon DEF ConsumerTypeOK
<1>3. ProgressWellFormed'
  BY Zenon DEF Open, PInv, ProgressWellFormed
<1>4. PCtl'
  BY Zenon DEF Open, PInv, PCtl
<1>. QED  BY <1>1, <1>2, <1>3, <1>4, Zenon DEF PInv

(* What one message renders: at most one child or status line.             *)
LEMMA RenderType ==
    ASSUME NEW kind \in MsgKinds
    PROVE  Render(kind) \in Seq({"child", "status"}) /\ Len(Render(kind)) <= 1
<1>1. CASE kind = "layer"
  BY <1>1 DEF Render, toProgressEvent
<1>2. CASE kind = "bare"
  BY <1>2 DEF Render, toProgressEvent
<1>3. CASE kind = "status"
  BY <1>3 DEF Render
<1>4. CASE kind \notin {"layer", "bare", "status"}
  BY <1>4 DEF Render
<1>. QED  BY <1>1, <1>2, <1>3, <1>4

(* Pull's output before it returns holds no "Pulled" event.                *)
LEMMA NoPulledYet ==
    ASSUME PInv, pc # "done"
    PROVE  \A k \in 1..Len(events) : events[k] # "pulled"
<1>1. result # "ok"
  BY DEF PInv, PCtl
<1>. QED  BY <1>1, Zenon DEF PInv, ProgressWellFormed

(* The events written after the started check when the loop already runs. *)
LEMMA AppendAfterStart ==
    ASSUME NEW e \in Seq({"working", "child", "status", "pulled"}),
           NEW r \in Seq({"child", "status"}),
           Len(e) >= 1, e[1] = "working",
           \A k \in 1..Len(e) : e[k] = "working" => k = 1,
           \A k \in 1..Len(e) : e[k] # "pulled"
    PROVE  /\ e \o r \in Seq({"working", "child", "status", "pulled"})
           /\ Len(e \o r) >= 1 /\ (e \o r)[1] = "working"
           /\ \A k \in 1..Len(e \o r) : (e \o r)[k] = "working" => k = 1
           /\ \A k \in 1..Len(e \o r) : (e \o r)[k] # "pulled"
BY SMT

LEMMA ReceivePInv ==
    ASSUME PInv, Receive
    PROVE  PInv'
<1>1. pc = "loop" /\ ch \in Seq(MsgKinds) /\ ch # <<>>
  BY DEF Receive, PInv, ChanTypeOK
<1>2. ProducerTypeOK'
  BY Zenon DEF Receive, PInv, ProducerTypeOK, producer
<1>3. ChanTypeOK'
  BY <1>1 DEF Receive, PInv, ChanTypeOK
<1>4. Head(ch) \in MsgKinds
  BY <1>1
<1>5. \A k \in 1..Len(events) : events[k] # "pulled"
  BY <1>1, NoPulledYet
<1>6. CASE Head(ch) = "error"
  <2>1. pc' = "done" /\ result' = "error" /\ events' = events
    BY <1>6 DEF Receive
  <2>2. UNCHANGED started
    BY <1>6, Zenon DEF Receive
  <2>3. ConsumerTypeOK'
    BY <2>1, <2>2, Zenon DEF PInv, ConsumerTypeOK
  <2>4. ProgressWellFormed'
    BY <1>5, <2>1, Zenon DEF PInv, ProgressWellFormed
  <2>5. PCtl'
    BY <2>1, <2>2, Zenon DEF PInv, PCtl
  <2>. QED  BY <1>2, <1>3, <2>3, <2>4, <2>5, Zenon DEF PInv
<1>7. CASE Head(ch) # "error"
  <2>. DEFINE R == Render(Head(ch))
  <2>1. pc' = "loop" /\ result' = "none" /\ started' = TRUE
    <3>1. result = "none"
      BY <1>1 DEF PInv, PCtl
    <3>. QED  BY <1>1, <1>7, <3>1, Zenon DEF Receive
  <2>2. R \in Seq({"child", "status"}) /\ Len(R) <= 1
    BY <1>4, RenderType
  <2>3. events \in Seq({"working", "child", "status", "pulled"})
    BY DEF PInv, ConsumerTypeOK
  <2>4. /\ events' \in Seq({"working", "child", "status", "pulled"})
        /\ Len(events') >= 1 /\ events'[1] = "working"
        /\ \A k \in 1..Len(events') : events'[k] = "working" => k = 1
        /\ \A k \in 1..Len(events') : events'[k] # "pulled"
    <3>1. CASE started
      <4>1. events' = events \o R
        BY <1>7, <3>1 DEF Receive
      <4>2. Len(events) >= 1 /\ events[1] = "working"
        BY <3>1 DEF PInv, PCtl
      <4>3. \A k \in 1..Len(events) : events[k] = "working" => k = 1
        BY DEF PInv, ProgressWellFormed
      <4>. QED  BY <1>5, <2>2, <2>3, <4>1, <4>2, <4>3, AppendAfterStart
    <3>2. CASE ~started
      <4>1. events = <<>>
        BY <1>1, <3>2 DEF PInv, PCtl
      <4>2. events' = <<"working">> \o R
        BY <1>7, <3>2, <4>1 DEF Receive
      <4>. QED  BY <2>2, <4>2
    <3>. QED  BY <3>1, <3>2
  <2>5. ConsumerTypeOK'
    BY <2>1, <2>4, Zenon DEF ConsumerTypeOK
  <2>6. ProgressWellFormed'
    <3>1. \A k \in 1..Len(events') : events'[k] \in {"child", "status"} => events'[1] = "working"
      BY <2>4
    <3>. QED  BY <2>1, <2>4, <3>1, Zenon DEF ProgressWellFormed
  <2>7. PCtl'
    BY <2>1, <2>4, Zenon DEF PCtl
  <2>. QED  BY <1>2, <1>3, <2>5, <2>6, <2>7, Zenon DEF PInv
<1>. QED  BY <1>6, <1>7

LEMMA LoopEndPInv ==
    ASSUME PInv, LoopEnd
    PROVE  PInv'
<1>1. ProducerTypeOK' /\ ChanTypeOK'
  BY ProducerFrame DEF LoopEnd
<1>2. pc' = "done" /\ result' = "ok" /\ events' = Append(events, "pulled")
  BY DEF LoopEnd
<1>3. UNCHANGED started
  BY Zenon DEF LoopEnd
<1>4. events \in Seq({"working", "child", "status", "pulled"})
  BY DEF PInv, ConsumerTypeOK
<1>5. \A k \in 1..Len(events) : events[k] # "pulled"
  BY NoPulledYet DEF LoopEnd
<1>6. ConsumerTypeOK'
  <2>1. pc' \in {"start", "loop", "done"} /\ result' \in {"none", "ok", "error"}
        /\ events' \in Seq({"working", "child", "status", "pulled"})
    BY <1>2, <1>4
  <2>. QED  BY <1>3, <2>1, Zenon DEF PInv, ConsumerTypeOK
<1>7. ProgressWellFormed'
  <2>1. \A k \in 1..Len(events') : events'[k] = "working" => k = 1
    BY <1>2, <1>4 DEF PInv, ProgressWellFormed
  <2>2. \A k \in 1..Len(events') : events'[k] \in {"child", "status"} => events'[1] = "working"
    BY <1>2, <1>4 DEF PInv, ProgressWellFormed
  <2>3. \A k \in 1..Len(events') : events'[k] = "pulled" => k = Len(events')
    BY <1>2, <1>4, <1>5
  <2>4. \E k \in 1..Len(events') : events'[k] = "pulled"
    BY <1>2, <1>4
  <2>. QED  BY <1>2, <2>1, <2>2, <2>3, <2>4, Zenon DEF ProgressWellFormed
<1>8. PCtl'
  <2>1. started => Len(events) >= 1 /\ events[1] = "working"
    BY DEF PInv, PCtl
  <2>2. started' => Len(events') >= 1 /\ events'[1] = "working"
    BY <1>2, <1>3, <1>4, <2>1
  <2>. QED  BY <1>2, <2>2, Zenon DEF PCtl
<1>. QED  BY <1>1, <1>6, <1>7, <1>8, Zenon DEF PInv

LEMMA NextPInv == PInv /\ [PNext]_pvars => PInv'
<1>. SUFFICES ASSUME PInv, [PNext]_pvars PROVE PInv'
  OBVIOUS
<1>1. CASE \E m \in Machines : Send(m)
  BY <1>1, SendPInv
<1>2. CASE UNCHANGED pvars
  <2>1. UNCHANGED consumer /\ UNCHANGED producer /\ UNCHANGED ch
    BY <1>2, Zenon DEF pvars, consumer, producer
  <2>2. ProducerTypeOK' /\ ChanTypeOK'
    BY <2>1, ProducerFrame
  <2>3. sent' = sent /\ ch' = ch
    BY <1>2, Zenon DEF pvars
  <2>. QED  BY <2>1, <2>2, <2>3, ConsumerFrame
<1>. QED  BY <1>1, <1>2, ProducerPInv, OpenFailsPInv, OpenPInv, ReceivePInv,
             LoopEndPInv DEF PNext, ConsumerStep

(***************************************************************************)
(* pull's stream loop keeps its types for every number of machines, stream *)
(* length and channel capacity: a sender only sends a message its stream   *)
(* has, and the channel never holds more than Cap messages.                *)
(***************************************************************************)
THEOREM PTypeCorrect == PSpec => []PTypeOK
BY InitPInv, NextPInv, PInvTypeOK, PTL DEF PSpec

(***************************************************************************)
(* The progress output of pull is well formed in every run, for every     *)
(* stream: "Pulling..." at most once and before any line under it,         *)
(* "Pulled" only last and exactly when pull returns nil.                   *)
(***************************************************************************)
THEOREM ProgressWellFormedInvariant == PSpec => []ProgressWellFormed
<1>1. PInv => ProgressWellFormed
  BY DEF PInv
<1>. QED  BY InitPInv, NextPInv, <1>1, PTL DEF PSpec

-----------------------------------------------------------------------------
(* OutcomeMatchesStream.                                                   *)

LEMMA InitOInv == PInit => OInv
<1>. SUFFICES ASSUME PInit PROVE OInv
  OBVIOUS
<1>1. PInv  BY InitPInv
<1>2. ~ErrorSent /\ ~ErrorInChan
  BY DEF PInit, ErrorSent, ErrorInChan
<1>3. OCtl
  BY <1>2, Zenon DEF PInit, OCtl
<1>4. OutcomeMatchesStream
  BY DEF PInit, OutcomeMatchesStream
<1>. QED  BY <1>1, <1>3, <1>4 DEF OInv

(* A message sent is an error sent exactly when it is itself an error.     *)
LEMMA SendErrorSent ==
    ASSUME PInv, NEW m \in Machines, Send(m)
    PROVE  ErrorSent' <=> ErrorSent \/ script[m][sent[m] + 1] = "error"
<1>1. sent[m] + 1 \in 1..Len(script[m]) /\ sent \in [Machines -> Nat]
  BY DEF Send, Finished, PInv, ProducerTypeOK
<1>2. script' = script /\ sent' = [sent EXCEPT ![m] = sent[m] + 1]
  BY DEF Send
<1>. QED  BY <1>1, <1>2 DEF ErrorSent

(* A message appended to the channel is an error in it exactly when it is *)
(* an error.                                                               *)
LEMMA AppendErrorInChan ==
    ASSUME ChanTypeOK, NEW x, ch' = Append(ch, x)
    PROVE  ErrorInChan' <=> ErrorInChan \/ x = "error"
BY DEF ChanTypeOK, ErrorInChan

(* Receiving a message that is not an error keeps any error in the channel. *)
LEMMA TailErrorInChan ==
    ASSUME ChanTypeOK, ch # <<>>, Head(ch) # "error", ch' = Tail(ch)
    PROVE  ErrorInChan' <=> ErrorInChan
<1>1. ASSUME NEW j \in 1..Len(ch), ch[j] = "error" PROVE j >= 2 /\ ch'[j - 1] = "error"
  BY <1>1 DEF ChanTypeOK
<1>2. ErrorInChan => ErrorInChan'
  <2>. SUFFICES ASSUME ErrorInChan PROVE ErrorInChan'
    OBVIOUS
  <2>1. PICK j \in 1..Len(ch) : ch[j] = "error"
    BY DEF ErrorInChan
  <2>2. j - 1 \in 1..Len(ch') /\ ch'[j - 1] = "error"
    BY <2>1, <1>1 DEF ChanTypeOK
  <2>. QED  BY <2>2 DEF ErrorInChan
<1>3. ErrorInChan' => ErrorInChan
  <2>. SUFFICES ASSUME ErrorInChan' PROVE ErrorInChan
    OBVIOUS
  <2>1. PICK j \in 1..Len(ch') : ch'[j] = "error"
    BY DEF ErrorInChan
  <2>2. j + 1 \in 1..Len(ch) /\ ch[j + 1] = "error"
    BY <2>1 DEF ChanTypeOK
  <2>. QED  BY <2>2 DEF ErrorInChan
<1>. QED  BY <1>2, <1>3

(* A sender that is finished stays finished.                               *)
LEMMA FinishedStable ==
    ASSUME NEW m, script' = script, sent'[m] = sent[m], quit \subseteq quit', Finished(m)
    PROVE  Finished(m)'
BY DEF Finished

(* The part of OInv a step must re-establish beside PInv.                 *)
OStep == OCtl' /\ OutcomeMatchesStream'

LEMMA SendOInv ==
    ASSUME OInv, NEW m \in Machines, Send(m)
    PROVE  OStep
<1>. DEFINE x == script[m][sent[m] + 1]
<1>1. ~closed
  BY DEF Send, OInv, OCtl
<1>2. /\ closed' = closed /\ quit' = quit /\ canceled' = canceled
      /\ result' = result /\ pc' = pc /\ script' = script
  BY DEF Send, consumer
<1>3. ErrorSent' <=> ErrorSent \/ x = "error"
  BY SendErrorSent DEF OInv
<1>4. ErrorInChan' <=> ErrorInChan \/ x = "error"
  BY AppendErrorInChan DEF Send, OInv, PInv
<1>5. result # "ok"
  BY <1>1 DEF OInv, OutcomeMatchesStream
<1>6. OCtl'
  <2>1. (\A n \in quit : canceled)'  BY <1>2 DEF OInv, OCtl
  <2>2. (ErrorInChan => ErrorSent)'  BY <1>3, <1>4 DEF OInv, OCtl
  <2>3. (pc = "loop" /\ ErrorSent => ErrorInChan)'  BY <1>2, <1>3, <1>4 DEF OInv, OCtl
  <2>. QED  BY <1>1, <1>2, <2>1, <2>2, <2>3 DEF OCtl
<1>7. OutcomeMatchesStream'
  <2>1. (result = "error" /\ (\E n \in Machines : script[n] # <<>>) => ErrorSent)'
    BY <1>2, <1>3 DEF OInv, OutcomeMatchesStream
  <2>. QED  BY <1>2, <1>5, <2>1 DEF OutcomeMatchesStream
<1>. QED  BY <1>6, <1>7 DEF OStep

(* Abort, Close and Cancel touch neither the channel nor what was sent.    *)
LEMMA ProducerOInv ==
    ASSUME OInv, (\E m \in Machines : Abort(m)) \/ Close \/ Cancel
    PROVE  OStep
<1>1. /\ script' = script /\ sent' = sent /\ ch' = ch
      /\ pc' = pc /\ result' = result
  BY DEF Abort, Close, Cancel, consumer
<1>2. ErrorSent' = ErrorSent /\ ErrorInChan' = ErrorInChan
  BY <1>1 DEF ErrorSent, ErrorInChan
<1>3. \A n \in Machines : Finished(n) => Finished(n)'
  BY <1>1 DEF Abort, Close, Cancel, Finished
<1>4. CASE \E m \in Machines : Abort(m)
  <2>1. PICK m \in Machines : Abort(m)  BY <1>4
  <2>2. closed' = closed /\ canceled' = canceled /\ canceled /\ quit' = quit \cup {m}
    BY <2>1 DEF Abort
  <2>3. OCtl'  BY <1>1, <1>2, <1>3, <2>2 DEF OInv, OCtl
  <2>. QED  BY <1>1, <1>2, <2>2, <2>3 DEF OInv, OutcomeMatchesStream, OStep
<1>5. CASE Close
  <2>1. quit' = quit /\ canceled' = canceled /\ closed'
        /\ \A n \in Machines : Finished(n)
    BY <1>5 DEF Close
  <2>2. OCtl'  BY <1>1, <1>2, <1>3, <2>1 DEF OInv, OCtl
  <2>. QED  BY <1>1, <1>2, <2>1, <2>2 DEF OInv, OutcomeMatchesStream, OStep
<1>6. CASE Cancel
  <2>1. quit' = quit /\ closed' = closed /\ canceled'
    BY <1>6 DEF Cancel
  <2>2. OCtl'  BY <1>1, <1>2, <1>3, <2>1 DEF OInv, OCtl
  <2>. QED  BY <1>1, <1>2, <2>1, <2>2 DEF OInv, OutcomeMatchesStream, OStep
<1>. QED  BY <1>4, <1>5, <1>6

(* Before the stream is open nothing was sent.                            *)
LEMMA NothingSentAtStart ==
    ASSUME PInv, pc = "start"
    PROVE  ~ErrorSent /\ ~ErrorInChan
BY DEF PInv, PCtl, ErrorSent, ErrorInChan

LEMMA OpenFailsOInv ==
    ASSUME OInv, OpenFails
    PROVE  OStep
<1>1. ~ErrorInChan /\ sent = [m \in Machines |-> 0]
  BY NothingSentAtStart DEF OpenFails, OInv, PInv, PCtl
<1>2. /\ quit' = quit /\ canceled' = canceled /\ closed' /\ ch' = ch /\ sent' = sent
      /\ pc' = "done" /\ result' = "error" /\ script' = [m \in Machines |-> <<>>]
  BY DEF OpenFails
<1>3. \A n \in Machines : Finished(n)'
  BY <1>1, <1>2 DEF Finished
<1>4. ~ErrorInChan'
  BY <1>1, <1>2 DEF ErrorInChan
<1>5. OCtl'
  BY <1>2, <1>3, <1>4 DEF OInv, OCtl
<1>6. OutcomeMatchesStream'
  BY <1>2 DEF OutcomeMatchesStream
<1>. QED  BY <1>5, <1>6 DEF OStep

LEMMA OpenOInv ==
    ASSUME OInv, Open
    PROVE  OStep
<1>1. ~ErrorSent /\ ~ErrorInChan
  BY NothingSentAtStart DEF Open, OInv
<1>2. UNCHANGED <<script, sent, quit, closed, canceled, ch, result>> /\ pc' = "loop"
  BY DEF Open, producer
<1>3. ~ErrorSent' /\ ~ErrorInChan'
  BY <1>1, <1>2 DEF ErrorSent, ErrorInChan
<1>4. \A n \in Machines : Finished(n) => Finished(n)'
  BY <1>2 DEF Finished
<1>5. OCtl'
  BY <1>2, <1>3, <1>4 DEF OInv, OCtl
<1>6. OutcomeMatchesStream'
  BY <1>2, <1>3 DEF OInv, PInv, PCtl, OutcomeMatchesStream, Open
<1>. QED  BY <1>5, <1>6 DEF OStep

LEMMA ReceiveOInv ==
    ASSUME OInv, Receive
    PROVE  OStep
<1>1. UNCHANGED producer /\ ch # <<>> /\ ch' = Tail(ch) /\ pc = "loop"
  BY DEF Receive
<1>2. UNCHANGED <<script, sent, quit, closed, canceled>>
  BY <1>1 DEF producer
<1>3. ErrorSent' = ErrorSent
  BY <1>2 DEF ErrorSent
<1>4. \A n \in Machines : Finished(n) => Finished(n)'
  BY <1>2 DEF Finished
<1>5. ChanTypeOK  BY DEF OInv, PInv
<1>6. result = "none"  BY <1>1 DEF OInv, PInv, PCtl
<1>7. CASE Head(ch) = "error"
  <2>1. pc' = "done" /\ result' = "error"  BY <1>7 DEF Receive
  <2>2. ErrorInChan  BY <1>1, <1>5, <1>7 DEF ChanTypeOK, ErrorInChan
  <2>3. ErrorSent  BY <2>2 DEF OInv, OCtl
  <2>4. ErrorInChan' => ErrorSent'  BY <1>3, <2>3
  <2>5. OCtl'  BY <1>2, <1>4, <2>1, <2>4 DEF OInv, OCtl
  <2>6. OutcomeMatchesStream'  BY <1>3, <2>1, <2>3 DEF OutcomeMatchesStream
  <2>. QED  BY <2>5, <2>6 DEF OStep
<1>8. CASE Head(ch) # "error"
  <2>1. pc' = pc /\ result' = result  BY <1>8 DEF Receive
  <2>2. ErrorInChan' <=> ErrorInChan  BY <1>1, <1>5, <1>8, TailErrorInChan
  <2>3. OCtl'  BY <1>2, <1>3, <1>4, <2>1, <2>2 DEF OInv, OCtl
  <2>4. OutcomeMatchesStream'  BY <1>6, <2>1 DEF OutcomeMatchesStream
  <2>. QED  BY <2>3, <2>4 DEF OStep
<1>. QED  BY <1>7, <1>8

(* The loop ends on a closed, drained channel: every sender is finished,   *)
(* one that quit only on cancellation, and no error was sent.              *)
LEMMA LoopEndOInv ==
    ASSUME OInv, LoopEnd
    PROVE  OStep
<1>1. UNCHANGED producer /\ ch' = ch /\ ch = <<>> /\ closed /\ pc = "loop"
      /\ pc' = "done" /\ result' = "ok"
  BY DEF LoopEnd
<1>2. UNCHANGED <<script, sent, quit, closed, canceled>>
  BY <1>1 DEF producer
<1>3. ~ErrorInChan  BY <1>1 DEF ErrorInChan
<1>4. ~ErrorSent  BY <1>1, <1>3 DEF OInv, OCtl
<1>5. ~canceled => \A m \in Machines : sent[m] = Len(script[m])
  BY <1>1 DEF OInv, OCtl, Finished
<1>6. ErrorSent' = ErrorSent /\ ErrorInChan' = ErrorInChan
  BY <1>1, <1>2 DEF ErrorSent, ErrorInChan
<1>7. \A n \in Machines : Finished(n) => Finished(n)'
  BY <1>2 DEF Finished
<1>8. OCtl'  BY <1>1, <1>2, <1>6, <1>7 DEF OInv, OCtl
<1>9. OutcomeMatchesStream'  BY <1>1, <1>2, <1>4, <1>5, <1>6 DEF OutcomeMatchesStream
<1>. QED  BY <1>8, <1>9 DEF OStep

LEMMA NextOInv == OInv /\ [PNext]_pvars => OInv'
<1>. SUFFICES ASSUME OInv, [PNext]_pvars PROVE OInv'
  OBVIOUS
<1>1. PInv'  BY NextPInv DEF OInv
<1>2. OStep
  <2>1. CASE \E m \in Machines : Send(m)
    BY <2>1, SendOInv
  <2>2. CASE UNCHANGED pvars
    <3>1. UNCHANGED <<script, sent, quit, ch, closed, canceled, pc, result>>
      BY <2>2 DEF pvars
    <3>2. \A n \in Machines : Finished(n) => Finished(n)'
      BY <3>1 DEF Finished
    <3>3. ErrorSent' = ErrorSent /\ ErrorInChan' = ErrorInChan
      BY <3>1 DEF ErrorSent, ErrorInChan
    <3>. QED  BY <3>1, <3>2, <3>3 DEF OInv, OCtl, OutcomeMatchesStream, OStep
  <2>. QED  BY <2>1, <2>2, ProducerOInv, OpenFailsOInv, OpenOInv, ReceiveOInv,
               LoopEndOInv DEF PNext, ConsumerStep
<1>. QED  BY <1>1, <1>2 DEF OInv, OStep

(***************************************************************************)
(* pull's verdict matches the stream, for every number of machines, stream *)
(* length and channel capacity: nil only for a closed, drained stream with *)
(* no error, complete unless the user canceled; an error after opening the *)
(* stream only when some machine sent one.                                 *)
(***************************************************************************)
THEOREM OutcomeMatchesStreamInvariant == PSpec => []OutcomeMatchesStream
<1>1. OInv => OutcomeMatchesStream
  BY DEF OInv
<1>. QED  BY InitOInv, NextOInv, <1>1, PTL DEF PSpec
=============================================================================
