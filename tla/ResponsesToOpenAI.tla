-------------------------- MODULE ResponsesToOpenAI --------------------------
(* PipeResponsesToOpenAI: the stream of the Responses API becomes Chat      *)
(* chunks.  Tool calls are items that the upstream announces, fills with    *)
(* fragments of their arguments and completes with all of them; items may   *)
(* overlap.  An upstream in disorder refers to an item it has not announced *)
(* or completes one with other arguments than it streamed.                  *)
EXTENDS StreamPipe

CONSTANT Items    \* ids of the items that are function calls

(* up.sent counts the fragments of an announced item, up.done the completed *)
(* items; local.arguments counts the fragments the pipe has collected.      *)
InitResponsesToOpenAI ==
  InitPipe("responsesToOpenAI", "open",
    [fate |-> "open", calls |-> <<>>, order |-> <<>>, done |-> {}],
    [toolIndex |-> <<>>, arguments |-> <<>>])

ResponsesEvent == Read("responsesToOpenAI")

(* The place of an item among those announced. *)
Place(i) == CHOOSE k \in DOMAIN up.order : up.order[k] = i
Announced == Range(up.order)

(* The role comes before the first frame is read. *)
OpenTurn ==
  /\ pipe = "responsesToOpenAI" /\ phase = "open"
  /\ Write(<<Plain("role")>>)
  /\ UNCHANGED <<pipe, includeUsage, up, frames, local, cut, acc, counted>>

(* output_text.delta and refusal.delta. *)
OutputDelta ==
  /\ ResponsesEvent /\ UNCHANGED <<up, local, acc>>
  /\ Write(<<Plain("content")>>)

With(f, i, v) == [j \in DOMAIN f \cup {i} |-> IF j = i THEN v ELSE f[j]]

(* Mutant: the index of a call is the number of calls that are complete. *)
ItemAddedAtDone(i) ==
  /\ ResponsesEvent /\ i \notin Announced
  /\ up' = [up EXCEPT !.order = Append(@, i), !.calls = Append(@, [choice |-> 0, parts |-> 0])]
  /\ local' = [local EXCEPT !.toolIndex = With(@, i, Cardinality(up.done)),
                            !.arguments = With(@, i, 0)]
  /\ Write(<<Chunk("tool", 0, Cardinality(up.done), 0)>>)
  /\ UNCHANGED acc

(* output_item.added: calls are numbered in the order they are announced. *)
ItemAdded(i) ==
  /\ ResponsesEvent /\ i \notin Announced
  /\ up' = [up EXCEPT !.order = Append(@, i), !.calls = Append(@, [choice |-> 0, parts |-> 0])]
  /\ local' = [local EXCEPT !.toolIndex = With(@, i, Cardinality(DOMAIN @)),
                            !.arguments = With(@, i, 0)]
  /\ Write(<<Chunk("tool", 0, Cardinality(DOMAIN local.toolIndex), 0)>>)
  /\ UNCHANGED acc

(* A second announcement of an item is skipped. *)
ItemRepeated ==
  /\ ResponsesEvent /\ Announced # {}
  /\ Write(<<>>) /\ UNCHANGED <<up, local, acc>>

ArgumentsDelta(i) ==
  /\ ResponsesEvent /\ i \in Announced \ up.done
  /\ up' = [up EXCEPT !.calls[Place(i)].parts = @ + 1]
  /\ local' = [local EXCEPT !.arguments[i] = @ + 1]
  /\ Write(<<Chunk("args", 0, local.toolIndex[i], "part")>>)
  /\ UNCHANGED acc

ArgumentsUnknown ==
  /\ ResponsesEvent /\ UNCHANGED local
  /\ Announced # Items
  /\ Sends("garbled") /\ Fail(acc)

(* More than 8 MiB of arguments: the fragment goes out before the check. *)
ArgumentsTooLong(i) ==
  /\ ResponsesEvent /\ i \in Announced \ up.done /\ UNCHANGED local
  /\ Sends("garbled")
  /\ FailAfter(<<Chunk("args", 0, local.toolIndex[i], "part")>>, acc)

(* output_item.done names all arguments of the call; they have to be those  *)
(* that were streamed.                                                      *)
ItemDone(i) ==
  /\ ResponsesEvent /\ i \in Items \ up.done
  /\ UNCHANGED local
  /\ \E parts \in 0..frames :
       IF i \in DOMAIN local.arguments /\ local.arguments[i] = parts
       THEN /\ up' = [up EXCEPT !.done = @ \cup {i}, !.calls[Place(i)].parts = parts]
            /\ Write(<<>>) /\ UNCHANGED acc
       ELSE Sends("garbled") /\ Fail(acc)

responsesFinishReason(ending) ==
  CASE ending = "incomplete" -> "length"
    [] ending # "incomplete" /\ Announced # {} -> "tool_calls"
    [] OTHER -> "stop"

(* response.completed and response.incomplete, which may leave calls open:  *)
(* the usage chunk is observed whether or not the client asked for it.      *)
Completed ==
  /\ ResponsesEvent
  /\ Sends("complete") /\ UNCHANGED local
  /\ \E ending \in {"completed", "incomplete"}, u \in [{"input", "output"} -> 0..MaxCount] :
       /\ ending = "completed" => up.done = Announced
       /\ Reply(<<Chunk("finish", 0, 0, responsesFinishReason(ending))>>
                  \o (IF includeUsage THEN <<Chunk("usage", 0, 0, u)>> ELSE <<>>)
                  \o <<Plain("done")>>, TRUE, FALSE)
       /\ acc' = IF gone' /\ Len(out') = Len(out) THEN acc ELSE ApplyOpenAI(acc, u)

(* response.failed, error, and a completed event whose status says failed. *)
ResponseFailed ==
  /\ ResponsesEvent /\ UNCHANGED local
  /\ Sends("failed") /\ Fail(acc)

ResponsesGarbage ==
  /\ ResponsesEvent /\ UNCHANGED local
  /\ Sends("garbled") /\ Fail(acc)

StepResponsesToOpenAI ==
  \/ OpenTurn \/ OutputDelta \/ ItemRepeated \/ ArgumentsUnknown
  \/ \E i \in Items : ItemAdded(i) \/ ArgumentsDelta(i) \/ ArgumentsTooLong(i) \/ ItemDone(i)
  \/ Completed \/ ResponseFailed \/ ResponsesGarbage
  \/ pipe = "responsesToOpenAI" /\ EndUnlessTerminal
=============================================================================
