-------------------------------- MODULE Pull --------------------------------
(***************************************************************************)
(* `uc image pull' (cmd/uncloud/image/pull.go): the command asks the       *)
(* cluster client for a stream of pull messages and renders them as        *)
(* progress events until the stream closes or carries an error.            *)
(*                                                                         *)
(* The consumer (the loop of pull) is translated from the code.  The      *)
(* producer is the cluster client, outside this repository: it is modelled *)
(* from the spec's fan-out contract, one sender per targeted machine on a  *)
(* shared channel of capacity Cap, closed once every sender is finished;   *)
(* a sender that is blocked on a full channel gives up only when the       *)
(* context is canceled.  A message is abstracted to the fields the loop    *)
(* and toProgressEvent test; progress numbers are left out.                *)
(***************************************************************************)
EXTENDS Naturals, Sequences

CONSTANTS
    Machines,  \* the machines the pull fans out to
    MaxMsgs,   \* longest message stream one machine sends
    Cap        \* capacity of the channel the cluster client returns

ASSUME PullAssumption ==
    /\ MaxMsgs \in Nat
    /\ Cap \in Nat \ {0}

(***************************************************************************)
(* A message by the fields the loop reads: "error" (msg.Err set), "layer"  *)
(* (Message.ID set with a Progress), "bare" (ID set, Progress nil, so      *)
(* toProgressEvent returns nil), "status" (no ID, Status set), "blank"     *)
(* (neither).                                                              *)
(***************************************************************************)
MsgKinds == {"error", "layer", "bare", "status", "blank"}

(* One machine's stream: its pull ends with its error, if it has one.      *)
Scripts ==
    {s \in UNION {[1..n -> MsgKinds] : n \in 0..MaxMsgs} :
        \A k \in 1..Len(s) - 1 : s[k] # "error"}

VARIABLES
    script,    \* machine -> the messages its sender will send
    sent,      \* machine -> how many of them it has sent
    quit,      \* machines whose sender returned early on cancellation
    ch,        \* messages in the channel, oldest first
    closed,    \* the channel is closed
    canceled,  \* the context the stream was opened with is canceled
    pc,        \* "start", "loop" (for msg := range ch), "done"
    started,   \* the loop's started flag
    events,    \* progress events written: "working", "child", "status", "pulled"
    result     \* "none", "ok", "error"

pvars == <<script, sent, quit, ch, closed, canceled, pc, started, events, result>>
producer == <<script, sent, quit, closed, canceled>>
consumer == <<pc, started, events, result>>

PTypeOK ==
    /\ script \in [Machines -> Scripts]
    /\ sent \in [Machines -> 0..MaxMsgs]
    /\ quit \subseteq Machines
    /\ ch \in Seq(MsgKinds) /\ Len(ch) <= Cap
    /\ closed \in BOOLEAN /\ canceled \in BOOLEAN
    /\ pc \in {"start", "loop", "done"}
    /\ started \in BOOLEAN
    /\ events \in Seq({"working", "child", "status", "pulled"})
    /\ result \in {"none", "ok", "error"}

PInit ==
    /\ script \in [Machines -> Scripts]
    /\ sent = [m \in Machines |-> 0]
    /\ quit = {}
    /\ ch = <<>>
    /\ closed = FALSE
    /\ canceled = FALSE
    /\ pc = "start"
    /\ started = FALSE
    /\ events = <<>>
    /\ result = "none"

-----------------------------------------------------------------------------
(* The producer, from the cluster client's contract.                       *)
Finished(m) == m \in quit \/ sent[m] = Len(script[m])

(* A machine's sender puts its next message into the channel.              *)
Send(m) ==
    /\ pc # "start"
    /\ ~Finished(m)
    /\ Len(ch) < Cap
    /\ ch' = Append(ch, script[m][sent[m] + 1])
    /\ sent' = [sent EXCEPT ![m] = @ + 1]
    /\ UNCHANGED <<script, quit, closed, canceled, consumer>>

(* A sender sees ctx.Done() and returns without sending the rest.          *)
Abort(m) ==
    /\ ~Finished(m)
    /\ canceled
    /\ quit' = quit \cup {m}
    /\ UNCHANGED <<script, sent, ch, closed, canceled, consumer>>

(* Once every sender is finished the channel is closed.                   *)
Close ==
    /\ pc # "start"
    /\ ~closed
    /\ \A m \in Machines : Finished(m)
    /\ closed' = TRUE
    /\ UNCHANGED <<script, sent, quit, ch, canceled, consumer>>

(* The user interrupts the command: its context is canceled.              *)
Cancel ==
    /\ ~canceled
    /\ canceled' = TRUE
    /\ UNCHANGED <<script, sent, quit, ch, closed, consumer>>

-----------------------------------------------------------------------------
(* The consumer: pull's callback.                                          *)

(* clusterClient.PullImage returns an error: return it.  No stream exists. *)
OpenFails ==
    /\ pc = "start"
    /\ pc' = "done"
    /\ result' = "error"
    /\ script' = [m \in Machines |-> <<>>]
    /\ closed' = TRUE
    /\ UNCHANGED <<sent, quit, canceled, ch, started, events>>

(* clusterClient.PullImage returns the channel: enter the loop.            *)
Open ==
    /\ pc = "start"
    /\ pc' = "loop"
    /\ UNCHANGED <<producer, ch, started, events, result>>

(* toProgressEvent: a child event for a message with an ID and a         *)
(* Progress, nil for one with no Progress.  Percent and text are left out. *)
toProgressEvent(kind) == IF kind = "layer" THEN <<"child">> ELSE <<>>

(* The events one message renders after the started check: an ID goes     *)
(* through toProgressEvent, a Status alone is a status line, else nothing. *)
Render(kind) ==
    CASE kind \in {"layer", "bare"} -> toProgressEvent(kind)
      [] kind = "status"            -> <<"status">>
      [] OTHER                      -> <<>>

(* Mutant: the started flag is never set.                                  *)
ReceiveNoFlag ==
    /\ pc = "loop"
    /\ ch # <<>>
    /\ ch' = Tail(ch)
    /\ IF Head(ch) = "error"
       THEN /\ pc' = "done"
            /\ result' = "error"
            /\ UNCHANGED <<started, events>>
       ELSE /\ events' = events \o (IF started THEN <<>> ELSE <<"working">>)
                                \o Render(Head(ch))
            /\ UNCHANGED <<pc, result, started>>
    /\ UNCHANGED producer

(* Mutant: msg.Err is not checked; the message is rendered like any other. *)
ReceiveNoErrCheck ==
    /\ pc = "loop"
    /\ ch # <<>>
    /\ ch' = Tail(ch)
    /\ events' = events \o (IF started THEN <<>> ELSE <<"working">>) \o Render(Head(ch))
    /\ started' = TRUE
    /\ UNCHANGED <<pc, result, producer>>

(* One iteration of the range loop: msg.Err ends the command, any other   *)
(* message first opens the parent "Pulling..." event, then renders.        *)
Receive ==
    /\ pc = "loop"
    /\ ch # <<>>
    /\ ch' = Tail(ch)
    /\ IF Head(ch) = "error"
       THEN /\ pc' = "done"
            /\ result' = "error"
            /\ UNCHANGED <<started, events>>
       ELSE /\ events' = events \o (IF started THEN <<>> ELSE <<"working">>)
                                \o Render(Head(ch))
            /\ started' = TRUE
            /\ UNCHANGED <<pc, result>>
    /\ UNCHANGED producer

(* Mutant: the loop keeps waiting on a closed, drained channel.            *)
LoopEndIgnored ==
    /\ pc = "loop"
    /\ ch = <<>>
    /\ closed
    /\ UNCHANGED pvars

(* The range loop ends on the closed, drained channel: "Pulled", nil.     *)
LoopEnd ==
    /\ pc = "loop"
    /\ ch = <<>>
    /\ closed
    /\ events' = Append(events, "pulled")
    /\ pc' = "done"
    /\ result' = "ok"
    /\ UNCHANGED <<producer, ch, started>>

ConsumerStep == OpenFails \/ Open \/ Receive \/ LoopEnd

PNext ==
    \/ \E m \in Machines : Send(m) \/ Abort(m)
    \/ Close \/ Cancel
    \/ ConsumerStep

(***************************************************************************)
(* Fairness: the goroutines run: the loop and every sender take a step    *)
(* they stay able to take, and the channel is closed once all senders are *)
(* done.  Cancellation is the user's choice and gets no fairness.          *)
(***************************************************************************)
PFairness ==
    /\ WF_pvars(ConsumerStep)
    /\ \A m \in Machines : WF_pvars(Send(m)) /\ WF_pvars(Abort(m))
    /\ WF_pvars(Close)

PSpec == PInit /\ [][PNext]_pvars /\ PFairness

-----------------------------------------------------------------------------
ErrorSent == \E m \in Machines : \E k \in 1..sent[m] : script[m][k] = "error"

(***************************************************************************)
(* pull returns nil only when the stream really ended well: the channel    *)
(* is closed and drained, no machine sent an error, and, unless the user   *)
(* canceled, every machine sent its whole stream; and it returns an error  *)
(* after opening the stream only when some machine sent one.               *)
(***************************************************************************)
OutcomeMatchesStream ==
    /\ result = "ok" =>
         /\ closed /\ ch = <<>> /\ ~ErrorSent
         /\ ~canceled => \A m \in Machines : sent[m] = Len(script[m])
    /\ result = "error" /\ (\E m \in Machines : script[m] # <<>>) => ErrorSent

(***************************************************************************)
(* The progress output is well formed: the parent "Pulling..." event is    *)
(* written at most once, and before any child or status line that names it *)
(* as parent; "Pulled" is written only as the last event and exactly when  *)
(* pull returns nil (also for an empty stream, with no "Pulling..." first). *)
(***************************************************************************)
ProgressWellFormed ==
    /\ \A k \in 1..Len(events) : events[k] = "working" => k = 1
    /\ \A k \in 1..Len(events) : events[k] \in {"child", "status"} => events[1] = "working"
    /\ \A k \in 1..Len(events) : events[k] = "pulled" => k = Len(events)
    /\ (\E k \in 1..Len(events) : events[k] = "pulled") <=> result = "ok"

(***************************************************************************)
(* Under the scheduling of goroutines, pull always returns: the range loop *)
(* ends once the senders are done and the channel is closed.               *)
(***************************************************************************)
ConsumerTerminates == <>(pc = "done")

(***************************************************************************)
(* Once pull has returned, every sender of the stream eventually finishes. *)
(* pull returns on the first message carrying an error without draining   *)
(* ch or canceling the context, so a sender with more to send blocks on    *)
(* the full channel until the user cancels.                                *)
(***************************************************************************)
ProducerFinishes == (pc = "done") ~> (\A m \in Machines : Finished(m))
=============================================================================
