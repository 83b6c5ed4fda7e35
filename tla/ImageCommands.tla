---------------------------- MODULE ImageCommands ----------------------------
(***************************************************************************)
(* `uc image rm' (cmd/uncloud/image/rm.go) and `uc image inspect'          *)
(* (cmd/uncloud/image/inspect.go).  One invocation runs one command; both  *)
(* connect, list the machines once to map IDs to names, then loop over the *)
(* image arguments, printing each machine's answer and going on to the     *)
(* next image when a cluster call fails.  rm calls RemoveImage; inspect    *)
(* calls InspectImage and, when that fails, InspectRemoteImage.            *)
(*                                                                         *)
(* A printed line is abstracted to the machine it names and its kind; the  *)
(* lines of one image form a set, since their order is the order of the   *)
(* cluster client's responses.  json.MarshalIndent of an                   *)
(* image.InspectResponse cannot fail (the type holds no channel, function  *)
(* or non-finite float), so inspect's marshal error branch is left out.    *)
(***************************************************************************)
EXTENDS Naturals, Sequences

CONSTANTS
    Machines,  \* machines that may answer a cluster call
    NImages    \* number of image arguments

ASSUME ImageAssumption == NImages \in Nat \ {0}

(***************************************************************************)
(* One machine's answer.  To RemoveImage: Metadata.Error set, an empty     *)
(* Response, or the kinds of item its Response holds (Docker gives each    *)
(* item an Untagged or a Deleted reference).  To an inspect call:          *)
(* Metadata.Error set, or the image.                                       *)
(***************************************************************************)
ItemKinds == (SUBSET {"untagged", "deleted"}) \ {{}}

RmAnswers ==
    {[kind |-> k, items |-> {}] : k \in {"error", "empty"}}
    \cup {[kind |-> "items", items |-> s] : s \in ItemKinds}

InspectAnswers == {[kind |-> k, items |-> {}] : k \in {"error", "image"}}

(* A cluster call fails, or returns the answers of some machines.          *)
CallsOf(A) ==
    {[ok |-> FALSE, answers |-> [m \in {} |-> CHOOSE a \in A : TRUE]]}
    \cup {[ok |-> TRUE, answers |-> f] : f \in UNION {[S -> A] : S \in SUBSET Machines}}

NoCall == [ok |-> FALSE, answers |-> <<>>]

VARIABLES
    cmd,     \* "rm" or "inspect"
    setup,   \* "ok", or the call that fails first: "connect", "list"
    listed,  \* machines returned by ListMachines
    calls,   \* rm: image -> the result of RemoveImage
    local,   \* inspect: image -> the result of InspectImage
    remote,  \* inspect: image -> the result InspectRemoteImage would give
    pc,      \* "start", "loop", "done"
    i,       \* index of the next image
    out,     \* the report printed for each image handled, in order
    ret      \* "none", "ok", "error"

inputs == <<cmd, setup, listed, calls, local, remote>>
cvars == <<cmd, setup, listed, calls, local, remote, pc, i, out, ret>>

CInit ==
    /\ setup \in {"ok", "connect", "list"}
    /\ listed \in SUBSET Machines
    /\ \/ /\ cmd = "rm"
          /\ calls \in [1..NImages -> CallsOf(RmAnswers)]
          /\ local = [k \in 1..NImages |-> NoCall]
          /\ remote = local
       \/ /\ cmd = "inspect"
          /\ calls = [k \in 1..NImages |-> NoCall]
          /\ local \in [1..NImages -> CallsOf(InspectAnswers)]
          /\ remote \in [1..NImages -> CallsOf(InspectAnswers)]
    /\ pc = "start"
    /\ i = 1
    /\ out = <<>>
    /\ ret = "none"

-----------------------------------------------------------------------------
(* ConnectCluster or ListMachines fails: return the error.                *)
SetupFails ==
    /\ pc = "start"
    /\ setup # "ok"
    /\ pc' = "done"
    /\ ret' = "error"
    /\ UNCHANGED <<inputs, i, out>>

SetupOk ==
    /\ pc = "start"
    /\ setup = "ok"
    /\ pc' = "loop"
    /\ UNCHANGED <<inputs, i, out, ret>>

(* allMachines.FindByNameOrID: the listed machine's name, else the ID.     *)
MachineName(m) == [by |-> IF m \in listed THEN "name" ELSE "id", m |-> m]

(* Mutant: no continue after rm's error line, so an error answer, whose    *)
(* Response is empty, is also reported as not found.                      *)
RmAnswerLinesNoContinue(m, a) ==
    {[who |-> MachineName(m), what |-> k] :
        k \in CASE a.kind = "error" -> {"error", "notfound"}
                [] a.kind = "empty" -> {"notfound"}
                [] OTHER            -> a.items}

(* What rm prints for one answer: its error, "not found" for an empty     *)
(* Response, else an Untagged or Deleted line per kind of item.            *)
RmKinds(a) ==
    CASE a.kind = "error" -> {"error"}
      [] a.kind = "empty" -> {"notfound"}
      [] OTHER            -> a.items

(* The lines rm prints for one machine's answer.                           *)
RmAnswerLines(m, a) == {[who |-> MachineName(m), what |-> k] : k \in RmKinds(a)}

(* What inspect prints under one machine's header: its error or its image. *)
InspectAnswerLines(m, a) == {[who |-> MachineName(m), what |-> a.kind]}

(* The report of one image: which call answered ("none" when it failed)    *)
(* and the lines of every machine that answered it.                        *)
RmReport(k, c) ==
    [img |-> k, via |-> "rm",
     lines |-> UNION {RmAnswerLines(m, c.answers[m]) : m \in DOMAIN c.answers}]

InspectReport(k, via, c) ==
    [img |-> k, via |-> via,
     lines |-> UNION {InspectAnswerLines(m, c.answers[m]) : m \in DOMAIN c.answers}]

Failed(k) == [img |-> k, via |-> "none", lines |-> {}]

(* Mutant: a failing RemoveImage call ends rm with nil.                    *)
RemoveOneReturns ==
    /\ pc = "loop"
    /\ cmd = "rm"
    /\ i <= NImages
    /\ IF ~calls[i].ok
       THEN /\ out' = Append(out, Failed(i))
            /\ pc' = "done"
            /\ ret' = "ok"
            /\ UNCHANGED i
       ELSE /\ out' = Append(out, RmReport(i, calls[i]))
            /\ i' = i + 1
            /\ UNCHANGED <<pc, ret>>
    /\ UNCHANGED inputs

(* One iteration of rm's loop over images.                                 *)
RemoveOne ==
    /\ pc = "loop"
    /\ cmd = "rm"
    /\ i <= NImages
    /\ out' = Append(out, IF calls[i].ok
                          THEN RmReport(i, calls[i])
                          ELSE Failed(i))
    /\ i' = i + 1
    /\ UNCHANGED <<inputs, pc, ret>>

(* Mutant: no continue after the machines' answers: the registry is asked  *)
(* too.                                                                    *)
InspectOneNoContinue ==
    /\ pc = "loop"
    /\ cmd = "inspect"
    /\ i <= NImages
    /\ LET fallback == IF remote[i].ok
                       THEN InspectReport(i, "remote", remote[i])
                       ELSE Failed(i)
       IN  out' = IF local[i].ok
                  THEN out \o <<InspectReport(i, "local", local[i]), fallback>>
                  ELSE Append(out, fallback)
    /\ i' = i + 1
    /\ UNCHANGED <<inputs, pc, ret>>

(* One iteration of inspect's loop: the machines' answers, else the        *)
(* registry lookup's, else the "Error inspecting image" line.              *)
InspectOne ==
    /\ pc = "loop"
    /\ cmd = "inspect"
    /\ i <= NImages
    /\ out' = Append(out,
                CASE local[i].ok                  -> InspectReport(i, "local", local[i])
                  [] ~local[i].ok /\ remote[i].ok -> InspectReport(i, "remote", remote[i])
                  [] OTHER                        -> Failed(i))
    /\ i' = i + 1
    /\ UNCHANGED <<inputs, pc, ret>>

(* The loop is over: return nil.                                           *)
LoopDone ==
    /\ pc = "loop"
    /\ i = NImages + 1
    /\ pc' = "done"
    /\ ret' = "ok"
    /\ UNCHANGED <<inputs, i, out>>

CNext == SetupFails \/ SetupOk \/ RemoveOne \/ InspectOne \/ LoopDone

CSpec == CInit /\ [][CNext]_cvars

-----------------------------------------------------------------------------
(* The call whose answers report k was printed from.                       *)
CallOf(r) ==
    CASE r.via = "rm"     -> calls[r.img]
      [] r.via = "local"  -> local[r.img]
      [] r.via = "remote" -> remote[r.img]
      [] OTHER            -> NoCall

(***************************************************************************)
(* rm returns nil only after it has handled every image, in the order of  *)
(* the arguments: a failing RemoveImage call for one image is reported and *)
(* does not stop the removal of the next ones.                             *)
(***************************************************************************)
EveryImageAttempted ==
    cmd = "rm" =>
        /\ Len(out) = i - 1
        /\ \A k \in 1..Len(out) :
             /\ out[k].img = k
             /\ out[k].via = "none" <=> ~calls[k].ok
        /\ ret = "ok" => Len(out) = NImages

(***************************************************************************)
(* inspect prints exactly one report per image, in the order of the        *)
(* arguments: the machines' answers when InspectImage succeeds, the        *)
(* registry lookup only when it fails, an error line only when both fail.  *)
(***************************************************************************)
OneReportPerImage ==
    cmd = "inspect" =>
        /\ Len(out) = i - 1
        /\ \A k \in 1..Len(out) :
             /\ out[k].img = k
             /\ out[k].via = "local" <=> local[k].ok
             /\ out[k].via = "remote" <=> ~local[k].ok /\ remote[k].ok
        /\ ret = "ok" => Len(out) = NImages

(***************************************************************************)
(* Under each report, every machine that answered the call is printed, by  *)
(* name when ListMachines knew it, with an error or "not found" line alone *)
(* or else only with what it removed or its image, and no other machine is *)
(* printed.                                                                *)
(***************************************************************************)
ReportMatchesAnswers ==
    \A k \in 1..Len(out) :
        LET c == CallOf(out[k]) IN
        /\ \A l \in out[k].lines :
             /\ l.who.m \in DOMAIN c.answers
             /\ l.who.by = "name" <=> l.who.m \in listed
        /\ \A m \in DOMAIN c.answers :
             LET W == {l.what : l \in {l \in out[k].lines : l.who.m = m}} IN
             /\ W # {}
             /\ "error" \in W <=> c.answers[m].kind = "error"
             /\ W \cap {"error", "notfound"} # {} => W \in {{"error"}, {"notfound"}}
=============================================================================
